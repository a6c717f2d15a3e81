# Omnilyzer deployment control plane: TLA+ models and proofs

This project models the deployment side of the Omnilyzer platform: the path that
turns one signed GitHub OIDC token and one promotion request into at most one
blue/green deployment, the durable structures it shares, and the root operations
that install, provision, update and repair the host it runs on. The modules are
translated from the Python source under `deployment/`; `PROJECT.json` maps every
definition to the lines it models.

## 1. The system

### The promotion path

| Component | State | Operations |
|---|---|---|
| Broker loopback listener (`broker_loopback_listener.py`, `broker_https_ingress.py`) | one listening socket, stop event | accept one request at a time, parse, dispatch, answer 202 / 403 / 503 |
| Restricted broker (`broker.py`) | none of its own | verify token, build and bind the request, seal the registry credential, consume the token, forward |
| Key cache (`jwks.py`, `oidc_verifier.py`) | keys, expiry, refresh serial, condition variable | answer from the cache, join a refresh, refresh |
| Replay guard (`replay_sqlite.py`) | rows by jti with status consumed / executing / finished, clock watermark | `consume` (broker), `begin_execution` and `finish_execution` (executor) |
| Unix transport, executor listener, handler (`unix_transport.py`, `executor_listener.py`, `executor_server.py`) | connection, deadlines | send request and sealed descriptor, receive response |
| Privileged executor (`executor.py`, `private_registry_pull.py`) | in-process gate | preflight, begin, deploy, finish, respond |
| Deployment operation (`deployment_operation.py`) | locals of one `deploy` call | audited sequence of calls on the next four, and `recover()` |
| Controller policy (`controller.py`, `state.py`) | none | prepare, authorize switch, complete |
| State store (`state_store.py`) | `state.json`, `.state.json.tmp`, directory lock | `load`, `save` |
| Audit sink (`audit.py`) | `events.jsonl`, rotations, lock | `append` |
| Docker runtime (`docker_runtime.py`) | two containers, `active.conf`, the loaded Nginx configuration | pull, start, migrate, check, switch, restore |

A promotion flows down this table. Broker and executor are separate processes
that share only the replay database and the socket; the executor is started by
socket activation for one connection and exits. Within the executor everything
is sequential, so what is hard there is failure: four stores (durable state,
audit history, containers, route) are updated one after the other, each call may
fail with or without its effect, and `recover()` has one attempt to bring them
together again. Between broker and executor what is hard is doubt: a deadline
passes, a connection breaks, a process is killed, and the same token is
presented again.

### The host operations

| Component | State | Operations |
|---|---|---|
| Rootless Docker (`rootless_docker_*.py`) | package bundle, policy and masks, packages, static resources, user manager, daemon, launcher, enable link | nine operations from staging the packages to recycling the user manager |
| DEV host provisioning (`dev_host_provisioning_*.py`, `privileged_host_runtime.py`, `dev_persistent_state_prerequisites.py`, `dev_step20_recovery.py`) | accounts, directories, application, configuration, Python environment, state, replay, audit | 22 steps in one run, four modes of admission |
| Application update (`dev_post_c31_application_update.py`) | installed files, configuration, one stage in each directory | qualify, replace one file, replace the configuration |
| Host generations (`dev_final_application_update.py`, `dev_final_broker_resources.py`, `*_host_migration_runtime.py`, `*_live_authority.py`) | application, executor and broker configuration, static files, runtime directories | final update, broker resources, two migrations, three rotations of the workflow SHA |
| Analytics installation (`analytics_promotion_broker.py`, `analytics_executor.py`, `analytics_first_install.py`) | the blue container, the request's replay row | forward, begin, pull, start, verify, finish, stop |
| Analytics owner operations (`analytics_task014_resume.py`, `analytics_service_recovery.py`) | sources, assets and configuration of the plane, its units, private evidence, result files | resume, three repairs, the recovery of each |

Each of these is a root process started by hand under a lock. It keeps nothing
in memory between calls: it looks at the host, decides whether it recognizes
what it sees, changes it step by step and never rolls an earlier step back (the
Analytics operations do, once). What is hard is being stopped: by an error, a
kill or a power loss between any two system calls. Whatever is left must be
recognized by the next call, and what was reported must stay true.

### What makes each component correct

- replay guard: a token starts at most one execution, whatever the clock does;
- authority path: answers can be trusted (202 only for a completed deployment,
  403 only for one that will never run), deployments do not overlap, everything
  settles;
- key cache: a withdrawn key goes out of use in bounded time, nobody waits for
  nobody, the cached set does not go back;
- deployment operation: traffic reaches only gated releases, the live container
  is not touched, state and route agree after every call, the audit history is
  ordered and complete;
- state store: a register whose acknowledged saves survive a loss of power;
- audit sink: no evidence is lost, and the sink remains usable;
- host operations: the reports are true and durable, the dangerous intermediate
  states do not occur (a rootful daemon, a configuration that names files that
  are not there, a plane that serves a mixture of two generations), and an
  interrupted sequence can be continued, except in states that are named.

`PROJECT.json` lists all components with what is modelled of each, and as
`hazards` what is hard to test in this code, each at its line.

## 2. Modules

| Module | Models |
|---|---|
| `DeploymentState` | the durable state record and the controller's transitions, as operators |
| `DeploymentOperation`, `DeploymentOperation_proofs` | `deploy`, `recover`, `_replace_traffic` and the runtime calls; its theorems |
| `ReplayGuard`, `ReplayGuard_proofs` | the replay table; its theorems |
| `PromotionOnce` | abstract promise of the authority path |
| `DeploymentAuthority`, `DeploymentAuthority_proofs` | listener, broker, transport and executor over an instance of `ReplayGuard`; its theorems, with the proof that it implements `PromotionOnce` |
| `StateRegister` | abstract promise of the state store |
| `StateStore` | `load` and `save` as groups of system calls |
| `AuditSink` | one `append` as its filesystem steps |
| `KeyCache` | `get_key` and the refresh under concurrent verifications |
| `Stores_proofs` | theorems about these three, with the proof that `StateStore` implements `StateRegister` |
| `ApplicationUpdate`, `ApplicationUpdate_proofs` | the staged, resumable replacement of application files and configuration; its theorems |
| `RootlessHost` | the host and what the rootless qualifications require of it |
| `RootlessInstall` | staging and installation of the packages (extends `RootlessHost`) |
| `RootlessBootstrap` | static resources and the user manager (extends `RootlessInstall`) |
| `RootlessDaemon`, `RootlessDaemon_proofs` | start, launcher replacement, restart, enablement, recycling, and the composition of all nine operations with systemd; theorems about the whole chain |
| `HostProvisioning`, `HostProvisioning_proofs` | one provisioning run after another over one host; its theorems |
| `HostGenerations` | the seven operations over four generations of the host |
| `AnalyticsInstall` | one signed installation with its stop-only rollback |
| `AnalyticsResume` | the owner's operations, composed with `AnalyticsInstall` through container, units and files |
| `HostOperations_proofs` | theorems about the generations and about the Analytics composition |
| `MC*` | the small instances TLC checks |

**DeploymentOperation.** `pc` names the next collaborator call of `deploy`; the
variables `orig`, `written`, `switched`, `failure` are the locals
`original_state`, `candidate_written`, `switch_attempted`, `failure_event`.
`store`, `log`, `running`, `conf` and `loaded` are the world: `state.json`, the
audit history, the containers, `active.conf` and what Nginx really routes to.
A call succeeds, fails without effect, or fails after its effect. `residue`
and `torn` are the two ways in which the state store and the audit sink become
unusable. `Interrupt` is `KeyboardInterrupt` or `SystemExit` between two calls;
`Crash` is a kill. `lapses` records that the single restoration of `recover()`
was itself cut short, that its last append was refused, or that the call was
killed: several properties hold only without that, and say so. A release stands
for version, source and digest together; timestamps, file modes and the
closed-schema checks are left out.

**ReplayGuard.** One action per transaction, with the sampled wall clock as a
parameter that may be any time: the sample is taken before the transaction
begins and may be stale or set back. `begun` and `removed` are history
variables. A transaction that rolls back is no step.

**DeploymentAuthority.** `bpc` and `epc` are the steps of the broker and of the
executor. `conn` is the Unix connection of an attempt; a connection whose
broker has given up remains in `backlog` and is served later. Signature and
claim checks are reduced to their verdict; the deployment to its result.

**StateStore.** `durable` is the content that a loss of power cannot take back;
`dirty` says that directory entries changed since the last directory `fsync`.
`disturbed` are the reviewed surroundings (owners and modes along the path, and
of the siblings) that an administrator has changed.

**AuditSink.** Hashes are serial numbers, and the hash in a rotation's name has
an arbitrary rank, so that the order of names is not the order of creation when
timestamps are equal. Power loss is not modelled here, only errors and kills.

**KeyCache.** `call` is a verification in progress: waiting, or at a step of its
own refresh, which runs without the condition. `held`, `staleness` and
`overslept` are history: which version of the issuer's keys is cached, the
greatest age of a key that was used, and whether a waiter has started a refresh
beside another. Time passes in ticks, and a call takes at most `MaxDelay` of
them: the network waits have timeouts of three seconds with a monotonic check,
but the resolver has none, so the bound is an assumption about the host.

**ApplicationUpdate.** A directory is `entry`: how many files of the fixed order
carry the target bytes and whether a stage exists. `may` is the set of contents
that a power loss could leave, which only a directory `fsync` narrows to the
current one. `inode` is the newest file (the stage, also after its rename) and
`synced` what its last `fsync` fixed: length, mode and owner reach the disk
independently of one another until then. `view` is the `UpdateState` of a run.
Everything `_qualify_state` checks outside the two directories is the flag
`exact`. Contents are reduced to which file of the order, and how much of it.

**Rootless modules.** One variable per object an operation creates; `op` and `pc`
are the running operation and its step, `saw` the evidence it has in hand,
`done` what it returned. `drift` holds reviewed facts that do not hold now;
`epoch` counts changes of the host that every check accepts but that show in the
evidence. `starts` and `managers` count incarnations, so that a process that was
replaced by another is told apart. `burst` counts the starts in the current
interval of the daemon's unit file (`StartLimitBurst=3`, `StartLimitIntervalSec=60s`):
a further start, by command or by `Restart=always`, leaves the unit failed.
`stale` holds unit files that systemd has not read since they changed. systemd and
dpkg are modelled from their use here, and are marked external in the map.

**HostProvisioning.** `host` is what is visible and `disk` what a power loss
leaves; `host.residue` are objects that are neither absent nor exact, and
`disk.residue` those that may come back because their removal is not synced.
Accounts, directories and files are counts, because each step makes them in a
fixed order. A directory and the application have a sync of their own after they
are complete. The handler of a failed step can fail too (`CleanUpFails`), before it
begins, before its last sync, or, for the application, between two files; nobody
hears of that. A half-removed snapshot counts as a snapshot that is still there,
because the second attempt refuses it.
`pin` is the recovery that the reviewed commit admits, `run` the active run with
its step, `before` the host when it began.

**HostGenerations.** `host[f]` is the visible object, `may[f]` what a power loss
can leave of it, `stage` the resumable stage beside a destination and `temps`
temporaries that nothing resumes. `host.static` is the set of names that the
broker resources need: the broker's configuration directory, the tools directory,
cosign in the latter and the trusted root in the former. Each appears and is synced
on its own, a name goes with the directory that holds it, and syncing a directory
does not make its own name durable. The runtime directories are under `/run`: a
power loss empties it, and `systemd-tmpfiles` makes them again where it is
configured (`docs/operations/task014-broker-runtime-tmpfiles.conf`). `run.used`
collects the incarnations of the rootless runtime during which something was
published.

**AnalyticsInstall and AnalyticsResume.** `slot` is the container, `live` the
installed files by the generation they belong to, `leftovers` the temporaries a
kill left with their two suffixes, `evidence` the private directory of each
operation, `unit` the broker and the listener, `public` the result files and
`owner` the running operation. `owner.failing` says that the exception handler of
`resume_analytics` runs; `owner.changed`, `owner.errors` and `owner.control` are
`changed`, `recovery_errors` and an interrupt as the primary error. Meanwhile
the plane serves requests whenever broker and listener run. `lapses` says why a
container may run without having been accepted: the executor was killed, or its
stop could not be confirmed. The probes are accepted or raise.

Definitions whose comment begins with "Mutant" are plausible faults; they are
not part of any specification. Replacing the mapped definition by its mutant
must make TLC report the property: this is how each property was shown to
depend on the code it is about.

## 3. What is checked

| Run | Instance | Distinct states |
|---|---|---|
| `deployment_operation` | 3 calls out of 4 requests, 3 releases (upgrade, return, retry, two kinds of conflict), 2 faults of any kind | 466,070 |
| `replay_guard` | 4 tokens, 2 of one run attempt, capacity 2, skew 1, times 0..7 | 2,972 |
| `deployment_authority` | 3 requests, 2 tokens of one run attempt, 2 request hashes, times 0..2, 2 faults | 623,051 |
| `stores` | state store: 2 processes, 2 states, 3 faults; audit sink: 5 ids, 6 records, 2 lines a file, 2 rotations kept, 4 timestamps on 2 days, 2 faults; key cache: 2 threads, 2 keys, 1 rotation, 4 refreshes, times 0..3 | 885,049 |
| `application_update` | 2 updaters, 3 files and the configuration, 2 write calls a file, 4 interruptions | 8,448 |
| `rootless` | 2 packages, 2 rootful units, 2 resources, 1 epoch, 3 incarnations | 662,352 |
| `host_provisioning` | 2 accounts, 2 directories, 3 files, every pin, 3 faults | 353,012 |
| `host_operations` | generations: 2 files, 1 directory, 2 workflow commits, 3 faults; Analytics: 1 request, 1 asset, 2 stream sources, all operations, 2 faults | 2,629,669 |

The four violation runs (`failed_promotion_clears`, `active_slot_in_service`,
`run_attempt_once`, `serves_until_stopped`) are discussed in section 5.

`stores` and `host_operations` check structures that do not interact. Their
initial state chooses which one is used, and the others stay as they are.

What the properties of the runs say together:

- `deployment_operation`: unless a restoration was cut short, state and route
  agree between calls (`RouteMatchesState`), only a release that passed every
  gate gets traffic (`TrafficGated`), a reported success is in state, route and
  history (`SuccessIsDurable`), a failure leaves the original or the prepared
  state (`FailureLeavesOriginalOrPrepared`). The link of the state points to an
  event that was appended, events come in order, the container in service is not
  restarted, and what was started is terminated in the history.
- `deployment_authority`: the whole path implements `PromotionOnce`; a 403 is
  definite; the table tells what ran; requests settle and a stop ends the broker.
- `stores`: the state store implements `StateRegister`; the sink stays usable and
  keeps exactly the most recent records; the three properties of the key cache.
- `application_update`: whatever stops a run, the next one recognizes what is
  there, the configuration comes last, success is durable, and a run that is left
  alone completes.
- `rootless`: nothing ever starts a rootful daemon, although dpkg unpacks packages that
  start one; an operation's evidence is true when it returns, of one epoch where
  the code compares before and after (a start that finds the daemon running does
  not); the chain can go on; an enabled daemon returns after crashes and reboots
  unless it has used up its start limit.
- `host_provisioning`: a failure's evidence locates it, also where the handler of
  the failed step failed and left what the step was making; a step-20 recovery is
  durable, and repeated runs provision the host.
- `host_operations`: reports are true and stay true through a power loss; some
  operation leads on; a running Analytics slot was accepted; no file of the plane
  changes under an application; a mixture of generations is never served and can
  be recovered, where anything is a mixture that is neither the installed pair of
  files and configuration nor a whole generation with the workflow SHA that the
  complete evidence of its operation pins; result files are true when they are written.

### Where the host is stuck

The `NoOtherDeadEnd` invariants, `StaysUsable`, `MixtureIsRecoverable` and
`UnacceptedIsStopped` name the states from which the code does not go on by
itself. TLC reaches each of them; they are what the code does, and the properties
say that there are no others.

- Audit sink: a partial line; a compressed copy whose source was not unlinked; a
  rotation whose name does not sort last.
- Rootless: `policy-rc.d` created but not written; a raw static temporary; an
  empty launcher temporary; a kill between the last static resource and
  `daemon-reload`, since a host found complete is not reloaded
  (`rootless_docker_static_bootstrap.py:828`); a daemon that used up its start
  limit; a reboot after the first start and before enablement;
  a second launcher shipped while the daemon that must be restarted under it does
  not run, or is enabled already.
- Provisioning (`Stuck`, `Unpinned`, `LostRename`): half-made objects, of a kill or
  of a handler that failed (a half-removed snapshot among them), that an exclusive
  creation or an exact listing refuses; an environment begun under a
  pin that has no recovery for it; a rename that a killed run made, that the next
  run saw but nobody synced, lost after later steps. The last contradicts nothing
  but the expectation of `deployment/README.md:3275` that "predecessor C17 with
  initialized state cannot follow the step order".
- Generations: a temporary or directory that a killed call left; names that a power
  loss took back (`LostName`); runtime directories that are gone when the successor
  has to be rotated to the SHA that C33AE wants, which only the final generation's
  operation makes (`RuntimeGone`); and a rotation of the state-store generation to
  the predecessor's SHA, which is published and then refused by
  `state_store_successor_host_migration_authority.py:92` in every qualification
  from then on (`RotatedBack`). A name is lost in two ways. cosign was linked by a
  killed run and not synced, the next run published and synced the trusted root,
  and after the power loss the root is there without cosign, which
  `sigstore_static_installation.py:356` refuses. Or a name was
  taken back from under a migration that had begun. `_migrate_under_lock`
  goes on from the visible name without syncing its directory, which the final
  update does. `deployment/README.md:3627` calls the migration
  "prefix-resumable" and speaks of interruption, not of power loss. One of these
  hosts was found only by the proof: two kills before the syncs of the application
  and the executor, a third run that publishes the broker configuration, then a
  power loss. It leaves the broker of generation 2 alone, with nothing staged.
- Analytics: an interrupted restoration leaves a `.resume-recovery-next` file, for
  which the code itself requires manual review; every operation can be attempted
  only once.

### Why the bounds suffice

Two faults are one that starts a recovery and one that cuts it short, which is
the depth of nesting in the code (`recover()`, the undo in `_replace_traffic` and
`resume_analytics` do not retry). Where repeated calls meet (the update,
provisioning, the state store, the generations), three or four faults stop a
run, its successor, and lose power in between. Three attempts with two tokens give a duplicate, a
conflict and an unrelated request; times 0..2 lie before, at and after an expiry
plus skew. Three incarnations of the daemon beside a start limit of three let
every start be the refused one, since a refused start makes no incarnation. Six
audit records fill, rotate, compress and drop a rotation. Two
threads, two keys and four refreshes are enough for a waiter to oversleep. Lists
of files have a first and another one, or a first, a middle and a last. The
Analytics part was also run with three faults (5.2 million states, no error).

Symmetry is used in `stores` for threads and keys, which no definition tells
apart. By hand, `deployment_authority` fixes the hash of its first request and
`stores` takes the least unused event id; both only rename.

Deadlock is not checked where the bounds exhaust requests, tokens, records or
faults; `application_update` has no such end and is checked for deadlock.

### Fairness

- `DeploymentOperation!FairSpec`: a call in progress goes on; each collaborator
  call has a timeout.
- `MCSpec` of `MCDeploymentAuthority` (`FairSpec` of `DeploymentAuthority`): steps
  of broker and executor, and the accept timeout. Every wait has a deadline,
  `accept` is polled, systemd activates the executor while connections wait.
  Arrival of requests, stops, crashes and restarts are not fair.
- `ApplicationUpdate!FairSpec`: a run that holds the lock goes on; it does not
  wait for anything. Starting another run is not fair.
- `RootlessFairSpec`: the running operation goes on, and systemd carries out the
  jobs it has accepted. That the start-limit interval ends is not assumed.
- `ProvisioningFairSpec`: the run goes on, and the operator repeats it, which is
  what the provisioning documents prescribe after a failure.

## 4. What is proved

`ReplayGuard_proofs` holds for all finite sets of tokens, all expiries, run
attempts, skews, capacities and clock behaviours (assumptions: the set of
tokens is finite; expiries, skew and times are naturals; the capacity is
positive; `NoRow` is not a row): `TypeCorrect`, `TokenBeginsOnce`,
`RemovedNeverReturns`, `LiveRunAttemptUnique`, `CapacityNeverExceeded`,
`LifecycleForward`.

`AtMostOneBegin` is not inductive. `IInv` adds that a row still consumed has not
begun, that a removed token has no row, and that a token without a row which
began or was removed is past its retention *by the watermark*. The last part is
what carries the argument: `consume` compares the retention with the effective
time, which is never below the watermark, so such a token cannot be inserted
again however far the wall clock is set back. `InductiveInvariant` proves
`IInv`, and the listed theorems follow from it; the capacity bound uses
cardinality facts of the library.

`ApplicationUpdate_proofs` holds for any set of updaters, any number of files,
write calls and interruptions (assumptions: there is at least one file and at
least one write call a file; "nobody" is not an updater):
`InterruptionIsRecognized`, `ConfigurationComesLast`, `ReturnIsDurable`,
`OneReplacementInDoubt`, `UpdateTyped`, all from `UpdateIsInductive`.

None of these is inductive. `UpdateInvariant` adds `DirectoryOrdered`, which
relates the visible contents, the possible contents and the synced file of a
directory: while a stage exists all possible contents have the same count, and
the final mode is seen only on bytes and an owner that are already durable.
`UpdaterKnows` carries across the steps of an iteration what qualification
established, and `HolderRuns` makes it enough to look at one updater. The step
that decides is `PowerLoss`: `LossIsOrderly` shows that each mixture it may
leave is again orderly. There is one lemma per action.

`Stores_proofs`, key cache, for any threads, keys, reuse and behaviour of the issuer
(`CacheAssumption`: the longest reuse and the duration of a call are naturals,
and a call does not take longer than the reuse; in the code 12 seconds against
300): `WithdrawnKeyExpires`, `NobodyWaitsInVain`, `CacheGoesForward`.

`CacheInvariant` is `Typed`, `Serials`, `Fresh`, `Ordered` and `KeyIsTimely`.
`Serials`: a serial names one refresh, and `_refreshing` stands for one that is
running, which is all that a waiter relies on. `Fresh`: keys in hand were
published after the call began, the expiry is bounded by when a key was last
published plus one call and the reuse, and a waiter that will be answered by a
completed refresh joined it at most one call ago. `Ordered`: as long as nobody
overslept only one refresh runs, and it has seen at least the cached version.
There is one lemma per action.

`DeploymentOperation_proofs` holds for any requests, releases and number of
calls and faults (assumptions: every request has a release; `Nil` is none of the
slots, releases, placements, events, steps and states; the initial state is a
state):
`StateNamesWhatServes`, `OnlyGatedReleasesServe`, `ReturnedNoneIsDurable`,
`FailureNeverHalfAdvances`, `LinkIsAudited`, `HistoryIsOrdered` and the action
property `LiveSlotIsUntouched`, from `OperationIsInductive`.

All of these speak of the time between calls or of a call's end, so that the
invariant has to say for each of the some thirty steps of `deploy` and
`recover` what holds there. `ControlSound` does it for the locals, `StoreSound`
for the durable state (which of the states derived from `original_state` it is),
`RouteSound` for the route in memory and on disk and for what runs behind it,
`TrafficSound` for the gates of whatever is or may again be routed to,
`AuditSound` for the events that are behind the step, `LinkSound` for the link.
Two facts are needed that no property states: the container of the original
release keeps running while its route may still be restored, and a state that a
kill left with a migrated candidate is one from which no promotion begins. There is
one lemma per group of steps, and one each for interruption and kill.

`DeploymentAuthority_proofs` holds for any tokens, request hashes, clock and
faults and any number of attempts (assumptions: expiries, skew, times and
bounds are naturals, and `NoRow` is not a row): `RejectionIsDefinite`, `TableTellsOutcome` and
`PathImplementsOnce`, the refinement of `PromotionOnce`.

`AuthorityInvariant` joins the replay table (`TableSound`, the argument of
`ReplayGuard_proofs` again, now for a table that two processes use), the broker's
request in hand (`BrokerSound`), the connections (`WireSound`: each open one is
queued once or served, and one that is queued has not run), the executor
(`ExecutorSound`: from `begin` to `finish` the row of its token is its own) and
the history (`RunsSound`: at most one attempt of a token ever ran). What carries
it over a late connection, which outlives its broker, is that only `begin`
passes from a queued attempt to a running one, and a row is consumed only once.
For the refinement the phase of a token is computed from the results of its
attempts and from whether its row is still held; each step of the path changes
at most one token's phase and at most one report, as a step of `PromotionOnce`
does.

`Stores_proofs`, state store, for any processes, states and faults (`None` is
neither a value, a process nor a result; no call is `None`): `StoreIsInductive`
and the refinement `StoreImplementsRegister`. The invariant is the lock: whoever
is between `flock` and its release is alone, so that what it has read, written
and synced is still there at its next step (`OthersKeep`). `os.replace` is the
step at which a save is installed, the directory's `fsync` (or a clean-up that
syncs) the one at which it is durable, the release of the lock the one at which
a call returns; all others leave the register as it is. The run checks the same
refinement, in an instance beside the other two stores.

`Stores_proofs`, audit sink, for any event ids, clock, days, order of the hashes,
file size, retention, number of records and errors (`AuditAssumption`: size and
retention are positive, different hashes have different ranks):
`NextAppendIsAccepted` (`StaysUsable`) and `OnlyTheOldestAreRemoved`
(`RetainedSuffix`), from `AuditIsInductive`. As long as no rotation was given a
timestamp that does not sort after the last one, `AuditSound` holds: the files
are consecutive parts of one hash chain (`Chained`, `ActiveIsTail`, `Segments`),
their names sort as the serial numbers do (`NamesInOrder`), two files have the
same records only between the installation of a compressed copy and the unlink
of its source (`Copies`), and there is a record `k` such that everything up to
`k`, and nothing after it, was removed, by retention (`Trimmed`). That `k` is needed
because the files alone do not tell what is missing: it carries the argument from
one rotation to the next, and an event id that occurs again can only be one of a
removed record.

`RootlessDaemon_proofs` holds for any number of packages, rootful units,
resources, incarnations and accepted changes of the host (at least one of each
of the first three): `RootfulDaemonNeverStarts`, `ReturnedEvidenceIsTrue`,
`ChainGoesOn`, from `ChainIsInductive`. `BundleSound` and `PackageSound` say that
each precaution is complete before the step that needs it (bundle, then policy,
then all masks, then packages), `ChainSound` that each part of the host exists
only on top of the one before, through crashes and reboots, `StepSound` what a
running operation has looked at and still relies on, and `EvidenceSound` that
no evidence is ahead of the host, with one epoch for the results that compare
(`Compared`). `ChainGoesOn` then is a case distinction on
how high the chain is.

`HostProvisioning_proofs` holds for any positive number of accounts, directories
and application files, every pin and any number of faults:
`EvidenceLocatesFailure`, `Step20IsDurable`, `EveryOtherHostGoesOn`, from
`ProvisioningIsInductive`. A run remembers nothing, so the invariant has two
halves. One is about the host alone and must survive kills and power losses:
`DiskSound` (what is made with its own syncs is durable), `UseSound`, `PinSound`
(where a host can be under each pin) and `Step20Sound` (application,
configuration, directory mode and database, each durable before the next is
touched). The other is about the active run: how many steps are complete
(`StepSound`), that these are in place and later ones untouched
(`ProgressSound`), what it is making (`MakingSound`) and has synced
(`SyncedSound`). `CleanUpCleans` shows that the handlers turn the second half
into `EvidenceSound`, and a handler that fails leaves no more than the failed
step may leave (`MayLeave`); `PowerLossKeeps` that any mixture of the visible and the
durable host satisfies the first.

`HostOperations_proofs`, generations, for any positive number of files and
directories, any workflow commits and any failures, kills and power losses
(`GenerationsAssumption`; the predecessor's workflow is one of the commits, and
not the only one):
`SuccessesAreTrue` (`SuccessIsTrue`) and `HostGoesOn` (`NoOtherDeadEnd`), from
`GenerationsAreInductive`. `Durable` says that no power loss leaves something
without what it was built on: an executor configuration without all final files,
a broker configuration without the Sigstore files and their directories
(`may.static = {Names}` wherever a broker configuration can survive), a unit or a
later generation without a broker configuration. `StageKept` and `InOrder` place
the host, as long as no name was taken back, on the chain of prefixes that the
operations walk through (`Chain`), a stage at the next destination only, and the
trusted root after cosign (`RootLast`).
`Progress` says for each step of each operation what the steps before it have
established (`FinalRun`, `MigrationRun`, `ResourceRun`, `RotationRun`),
`Witnessed` which incarnations the publications belong to, and `Promised` and
`Unless` what a report still means after later steps of others. The deciding
step is again `PowerLoss`: any choice out of `may` satisfies the half that is
about the host alone. `HostGoesOn` is a case distinction on `Chain`, and where the
chain was left it follows from `Durable` that only a migration can have left it.

`HostOperations_proofs`, Analytics, for any requests, positive number of assets
and stream sources, workflow commits and mishaps (`AnalyticsAssumption`):
`OnlyAcceptedRuns` (`UnacceptedIsStopped`), `EveryMixtureIsRecoverable`
(`MixtureIsRecoverable`), and the action properties `FilesChangeOnlyUnused`
(`ApplicationKeepsGeneration`) and `ResultsAreTrue` (`ResultIsTrue`), from
`AnalyticsIsInductive`. `InstallInv` is the executor's half: a request is served
once, and a container that runs outside the undecided steps was accepted or is
accounted for in `lapses`. `Sound` is the owner's half. `Course` tells which steps
belong to an attempt, its failure handler or a recovery; `Quiet` that files are
touched only while the plane is stopped and empty; `Evident` that the private
evidence is complete before the first change, that it pins the SHA of an attempt
(a repair's recovery may be given another one), and that every file is the one
before or the one after this operation; `Advanced` how far publication or restoration
is. `Mixture` keeps what a recovery needs after the operation was killed. There is
one lemma per action; the restoration, which a failing attempt and a recovery
share, is the longest.

Where `CASE` expressions overlapped in a module that is proved about, they were
written as ordered alternatives, which is what the `if` chains of the code are.

Only model-checked: liveness (`StartedTerminates`, `AttemptsSettle`,
`StopCompletes`, `RunCompletes`, `EnabledDaemonReturns`, `EventuallyProvisioned`).
Fairness and ENABLED are out of the prover's reach. Every other property of the
passing runs is stated by a theorem.

## 5. Disagreements between the code and its documents

1. `failed_promotion_clears`: a comment in `recover()` says that a failed
   promotion must clear the persisted candidate. `candidate_written` is set
   only when `save` returns, and a `save` whose directory `fsync` fails raises
   with the candidate already visible. It is cleared by a retry only for the
   same release and only before the first activation.
2. `active_slot_in_service`: the README says that the active slot remains in
   service. If the last append fails, recovery restores the route but not the
   state when its save fails; state and route then name different slots, and
   the next promotion force-recreates the container that serves traffic.
3. `run_attempt_once`: duplicate run attempts are rejected only while the row
   of the first is retained.
4. `serves_until_stopped`: a response that cannot be written ends the process.

Observations, for which there is no run of their own:

- Audit sink: a kill between the installation of a compressed rotation and the
  unlink of its source leaves every event twice, after which every append fails;
  after the clock was set back by more than a rotation, the newest rotation may
  sort first and be the one that retention removes.
- Key cache: `deployment/README.md` calls it "serialized". A waiter that sleeps
  through the end of the refresh it joined and through the next one starts its
  own (`jwks.py:429`) without looking whether a third is running, and the older
  of the two answers may be installed last; `CacheMovesForward` and its theorem
  name this exception. The present broker verifies on one thread and does not
  meet it.
- Analytics: the result file "ready" is published inside the protection of
  `resume_analytics`. If something fails after that, plane and files are restored
  and a new result is written, unless the failure was an interrupt, or that write
  fails as well; then the file still says "ready". `ResultIsTrue` is therefore
  about the moment of writing.

## 6. Not modelled, and why

- Cryptography, JSON canonicalization, closed-schema checks, HTTP framing, and
  the claim policy of `identity.py`: predicates without state; each is the
  failure of the step that makes the check. The release consumer, promotion and
  execution requests consist of these.
- Rollback transitions of the controller: `complete_rollback` has no caller.
- An exception of the interpreter itself between setting and clearing
  `_refreshing`, and power loss in the audit sink.
- Composition and bootstrap of the services: construction at process start, apart
  from the reading of the installed configuration, which is in `HostGenerations`.
- Sigstore and offline toolchain qualification: no modelled operation calls them.
- The rest of the Analytics path (database bootstrap, source installation, signed
  review, registry transition): validation, or one-time operator scripts that
  meet none of the modelled state. A reboot during an owner operation, and a
  container that the daemon creates after its client was killed, are not in
  `AnalyticsResume`.
- Release build, publication and cutovers, and the spikes: sequential I/O against
  registries and experiments, which share no state with the deployed system.

Worth adding next is modelling, not proof: power loss in the audit sink, which
syncs a rotation's rename, copies and unlinks only at the end of the append, and a reboot during an owner
operation of Analytics.
