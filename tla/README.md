# TLA+ models of nixway-core

nixway-core is a self-hosted PaaS. A control plane (Go, `apps/api` and
`internal/`) keeps everything in PostgreSQL and talks to one agent per server
(`apps/agent`) over a bidirectional gRPC stream that the agent opens. Commands
go down the stream, results come up it, and nothing acknowledges or repeats
either. Operators use one of two web consoles (`apps/web-v2`, Next.js, and the older
`apps/web`, TanStack Router), which keep copies of the control plane's data in the
browser and follow its runs over server-sent events. This directory holds TLA+ models
of the parts where that matters, TLC configurations that check them, and TLAPS proofs
of the main safety results.

## 1. Inventory

| Component | State | Operations | What is hard | Correct when |
|---|---|---|---|---|
| Agent connections (`internal/agent/connmanager.go`, `Server.Connect`, `apps/agent/main.go`, `client.go`) | map agent id → entry with stream; `servers.agent_id` | Register, Connect's first message, SetStream, deferred Disconnect, SendToAgent, reconnect loop | old and new Connect of one agent overlap | an entry is served by a live Connect of its agent; a connected agent is reachable |
| Rollout (`TriggerDeploy`, `dispatchDeploy`, `HandleDeployCommand`, `handleDeployOutput`, `CleanupDeployments`) | deployment and target rows, containers, a shared env map | create, dispatch, run, health check, count, complete, clean up | goroutine per target, handler per stream, cancelled contexts, lost outputs, restarts | complete and promoted only when every replica passed; settles |
| Traffic (`EnsureTrafficForDeployment`, `SyncTrafficRoute`, drain, archiver, `Rollback`, weights API, `HandleTrafficRouteCommand`) | backend rows, deployment status, images, the edge's Traefik file | list, upsert, demote, sync, drain, archive, set weights, promote, roll back | promotions, timers, archivers and route commands all unordered | the newest healthy deployment, and only it, gets traffic and keeps running |
| Scheduler (`internal/scheduler`) | none (pure) | Schedule | strategies, constraints, capacity edges | picks admissible servers in the documented order |
| Autoscaler (`EvaluateAutoscaling`) | replicas, last event | evaluate policy | stale metrics and replica counts, cooldown | stays within bounds, respects cooldown |
| Builds (`internal/build`, `apps/agent/build.go`) | build row, logs | trigger, dispatch, output, auto-deploy | out-of-order completion, lost results | newest build deployed; status flow |
| Databases: provisioning, links (`internal/database/service.go`, `link.go`) | database row, credentials, volume | provision, await healthy, link, delete | async provisioning vs. delete; late results | row agrees with container |
| Databases: rotation (`rotation.go`) | secret, pending requests | rotate, ALTER USER, result | 30 s timeout vs. late success; concurrent rotations | secret is the database's password |
| Databases: backups (`backup.go`, `restore.go`, `cron.go`) | backup rows, schedules | create, result, schedule, retain, restore | lost results, overlapping runs, calendar edges | schedules keep firing; restores use complete backups |
| Volumes (`internal/volume`) | volume, attachment rows | create, attach, detach, move, resize, snapshot, delete | late results of earlier operations | status follows the operation in progress |
| Clusters, addresses (`internal/cluster`) | CIDRs, member addresses | create, add, remove | read-then-insert | addresses unique |
| Mesh and DNS (`internal/mesh`, `internal/dns`) | member keys, peers | key generation, regenerate, apply, teardown | key results racing regeneration | every member has every peer |
| Status watcher (`internal/server/status.go`) | server status, last seen | tick | write-back of a stale read | status follows last seen |
| Provisioning jobs, onboarding (`internal/provisioner`, `internal/server/onboarding.go`) | job rows | run, output | SSH lost, agent never connects | job ends |
| Alerts (`internal/observability`) | alert state | evaluate | pending/firing/resolved | fires after its duration, resolves |
| Auth, teams, invites, tokens; secrets, env vars, registries; GitHub webhooks; query console | rows | CRUD, request/response | little concurrency | - |
| Consoles: data (`apps/web-v2` and `apps/web`: every page, client component, query and mutation) | react-query's cache, the props of server components, the router's kept payloads, copies in forms | call, invalidate, refresh, poll, navigate, go back, open, close | a call names by hand what it makes stale; requests, navigations and answers overlap; data is fresh for a while by decree | a view at rest shows what the user's last call did |
| Consoles: forms (every mutation with its dialog, error line and confirmation) | open, typed, error, pending, plaintext, the promise a `ConfirmDialog` awaits | submit, ask, confirm, escape, close, Done, answer | one hook for many rows, answers in any order and after closing | nobody waits for ever, errors are current, closed dialogs are blank |
| Consoles: live logs (`ProvisionConsole`, `LogStream`, `LogViewer`, `StreamProvisionLogs`, `StreamLogs`, `publishProvision`, `handleBuildOutput`) | EventSource, shown events, Redis channel, logged events | emit, read, subscribe, cut, reconnect, deliver | read before subscribe, 15 s write timeout, replay | no event twice, right outcome, complete in the end |
| Worker, generated code, site, CLI | - | - | - | not modelled |

How they interact: HTTP handlers and webhooks call the services; services write
rows and call `ConnManager.SendToAgent`; agents run each command in a goroutine
and send results on the stream the command came on; `Server.Connect`, one
goroutine per stream, handles results inline on the stream's context and calls
back into the services (`EnsureTrafficForDeployment`, `TriggerDeploy` after a
build, volume, backup and database handlers). The consoles call the HTTP handlers; the
server components of `apps/web-v2` call them too, while a page is being loaded.

## 2. Modules

| Module | Models | Extends |
|---|---|---|
| `ConnManager` | the registry and the Connect RPC | - |
| `ConnManagerProofs` | theorems about it | `ConnManager` |
| `Rollout` | one deployment up to the start of promotion | - |
| `RolloutPromise` | abstract: replicas pass for good, promotion after the last | - |
| `RolloutProofs` | theorems about `Rollout`, refinement of `RolloutPromise` | `Rollout` |
| `Traffic` | promotion, drain, archival, rollback, weights, the edge | - |
| `TrafficProofs` | theorems about it | `Traffic` |
| `Volume` | one volume: service calls, agent handlers, the servers' disks | - |
| `VolumeProofs` | theorems about it | `Volume` |
| `Screens` | the vocabulary for the consoles' components: pages, views, calls, dialogs | - |
| `AuthScreens`, `TeamScreens`, `FleetScreens`, `AppScreens`, `DatabaseScreens` | the pages and components of `apps/web-v2`, one definition each | `Screens`, one another |
| `WebTeamScreens`, `WebFleetScreens`, `WebAppScreens` | the routes and dialogs of `apps/web` | `Screens`, one another |
| `ConsoleComponents`, `WebComponents` | the records `Console` and `Web` of all of them by name | the screens |
| `ConsoleData` | a call and a view of what it writes, with everything between them | `Screens` |
| `ConsoleDataProofs` | theorems about it | `ConsoleData` |
| `ConsoleForms` | a call of a form, dialog or table, made and answered several times | `Screens` |
| `ConsoleFormsProofs` | theorems about it | `ConsoleForms` |
| `ConsoleStreams` | a run, its events, the SSE handler and the console that follows it | - |
| `ConsoleStreamsProofs` | theorems about it | `ConsoleStreams` |
| `MCConnManager`, `MCRollout`, `MCTraffic`, `MCVolume` | what the configurations instantiate; `MCRollout` has the symmetry set of its safety run | |
| `MCConsoleData`, `MCConsoleForms`, `MCConsoleStreams` | the cases drawn from `Console` and `Web`, and the named exceptions | |

### ConnManager

`entry` is `ConnManager.agents`, reduced to the stream field. Each `Connect` call
is a stream with a program counter; the registry calls it makes (`GetState`,
`Register`, `SetStream`) each take the mutex, so they are separate steps
(`FirstMessage`, `ConnectRegister`, `ConnectSetStream`). `ConnectReturns` is the
deferred `Disconnect`. The agent (`ConnectWithRetry`) opens a stream only when its
earlier ones are broken, but the control plane notices a broken stream later.

### Rollout

One deployment with one replica per server. `TriggerDeploy`, `CreateTarget`,
`MarkDeploying` are the handler's statements; `Dispatch*` the goroutine per
target; `Agent*` the agent's handler; `HandleOutput`, `IncrementReplicasReady`,
`CompleteIfReady`, `CompleteFailed` the statements of `handleDeployOutput`.
`StreamBreaks` loses messages, `StreamCancelled` stops the handler between two
statements, `AgentRestarts` and `ControlPlaneRestarts` lose goroutines, and
`CleanupTarget`/`StopContainer` are an operator's cleanup. `env` is the shared
environment map, reduced to the host whose address it holds.

### Traffic

Deployments are numbered in `created_at` order. `EnsureList`, `EnsureUpsert`,
`EnsureDemote`, `EnsureSync` are the statements of `EnsureTrafficForDeployment`;
`StopSupersededContainers` the drain timer firing; `ArchiveList`, `ArchiveTags`,
`ArchiveRow` the archiver; `UpdateTrafficWeights`, `PromoteTrafficBackend`,
`UserSync` the API. Route commands sit in `flight`, an unordered set, because the
agent starts a goroutine for each; `edge` is the deployments in the app's Traefik
file, one for all environments. A replica may be on the edge's own server when that has
role "both" (`EdgeRole`, `onEdge`); a drain's stop then carries `remove_traefik`, which
makes the agent remove the same file: it is the empty command in `flight`
(`StopContainers`). `EnsureDemote`, `ArchiveRow` and `UpdateTrafficWeights` take their
run of statements in one step, as does `CompleteIfReady` of `Rollout`; no property tells
the points in between apart. `orderly` and `calm` are history variables, each used in
one property: promotions one at a time and in order, and each begun when all work of the
last was over. The handler behind the "stop container" button is not modelled.

### Volume

`row` is the volume's row, `call` the API calls with what each read of it, `cmd` their
commands at the agents, `disk` the image, mount and directory on every server. A
call is its statements: `GetVolume` and the checks (`Create`, `Delete`, `Attach`,
`Detach`, `Move`, `Snapshot`, `Resize`), `MarkStatus`, `Dispatch`, then `Finish*` and
`Restore`. `HandleVolume*`, `Move*` and `GrowLoopbackVolume` are the agent's
goroutines, which go on when the call has timed out; `AgentRestarts` is a restart
or reboot with `reconcileVolumeMounts`; `CutOff` a client that leaves or a control
plane that stops; `StatementRefused` a database that refuses a statement, where the
call returns with the error. If that was the UPDATE that settles the row (the last of
`Move` and of `Resize`, or the one that restores a status), the call ends `"refused"` and
the status of the operation stays. Nothing serialises calls on one volume, and the properties hold
only when clients do (`Overlap = FALSE`, or `calm`). `calm` is a history variable: no
two calls have overlapped, no remount has failed, and every image was grown as its
resize had found it (`GrowLoopbackVolume`: a resize that timed out can be carried out
long after, on another image or on none). `Remounted` is `ensureLoopbackVolume` on a
restart: it mounts whatever image is there, formatted first if it is blank. Section 3
says what happens when `calm` is false.

### The screens

A component of a console is described, not simulated: `Screen` or `Modal` of the pages
it is on, its views and its calls. A view says which query key it has, which data it
reads, and where that comes from (`seeded`, `polled`, `props`, `copied`). A call says
what it writes (`writes`: everything its handler has changed when it answers, other
lists and the audit log included, but not what jobs and agents change later, nor the
pages of what was deleted), which keys its success invalidates, and in a few words what its handlers
do: whether the control is disabled while it is pending (`locks`), whether a failure is
shown and what erases it (`says`, `hushes`, `quiets`), whether a `ConfirmDialog` awaits
it and how (`confirm`, `awaits`), whether one hook serves all rows (`rows`), whether the
answer carries a plaintext (`plain`). `closing` says what leaving the dialog resets.
Every word stands for lines of the component's source, and the map names them; markup,
formatting and field validation are what is abstracted. Pages say what their server
component gets and what it tries to get (`tryGet` puts an empty list for what fails, on
a refresh too).

### ConsoleData

A case is a call and a view that reads something it writes, at the places where they
are mounted. `server` is the version of the data; `cache`, `payload`, `copy` and `kept`
are the copies of it in react-query, in the props, in a form's `useState` and in the
router's cache for Back. The call is sent, applied and answered (`Send`, `Apply`,
`Refused`, `Succeeded`); `Succeeded` is the hook's `onSuccess`: invalidation, `setQueryData`,
`router.refresh`, `router.push`. A request of a query reads the server and lands in two
steps, so a slow one can land after the call; pages are loaded, refreshed and left in
the same way. `due` is the version the view owes the user: what the last call wrote,
unless the answer came in a race that the source cannot win (`Raced` lists them: a page
under way, a request nobody observes, a form that has copied its props). React-query,
the router and Radix are external; they are modelled from how the consoles use them.
`apps/web` is the same with no server components and with refetching on focus.

### ConsoleForms

A case is one call with its `closing`. Attempts are numbered; the `useMutation` hook
observes the last, and callbacks passed to `mutate` run only for that one (`Settle`),
while a handler of the hook, and an awaited `mutateAsync`, hear of each. The
`ConfirmDialog` of a row is `asked` and `waiting`; `Escape` closes it while it waits.
`won` and `error` say which attempts have succeeded and which failure is shown.

### ConsoleStreams

Five consoles: the provisioning dialog and the database page of `apps/web-v2`, its build
log, and the two of `apps/web`. A run emits its events one by one; each is persisted and
published, in the order the producer does it, and either may fail. The handler reads
the row (`HandlerReads`) and subscribes later (`HandlerSubscribes`), greeting with what
it read. `StreamEnds` is a handler that has returned. `Cut` is the network, or the
server's write timeout, which ends a stream when something is written to it late: it may
happen at any time and never needs to, and since the handlers send no heartbeat an idle
stream stays open. After either, the browser of `apps/web-v2` connects again, `apps/web`
closes the stream (`GivesUp`). `RunLost` is a control plane that stops in the middle of
the run; `Lossy` says whether a statement or a PUBLISH of the run may fail. `saved` is
written once: starting and stopping the database later is not modelled.

## 3. Runs

| Run | Bounds | Shows |
|---|---|---|
| `connections` | 2 agents, 3 streams, fair | `TypeOK`, `NoGhostEntry`, `NoDanglingStream`, `CleanConnectReachable` |
| `rollout` | 2 servers, cleanups | `TypeOK`, `HealthyMeansAllReplicas`, `ReadyNeverOvercounts`, refinement `KeepsPromise` |
| `rollout_live` | 2 servers, fair, no cleanups | `TargetSettles`, `PromotionFollows` |
| `traffic` | 3 deployments, 2 environments, replicas on the edge or not, lost sends, restarts | `TypeOK`, `OrderlyPromotion`, `EdgeServesNewest` |
| `traffic_live` | 2 deployments, 2 environments, 2 API calls, fair | `PromotedGetsRoute` |
| `volume` | 2 servers, 3 calls one at a time, sizes to 2, created on the first server (`OnFirst`), refused statements, fair | `TypeOK`, `UsableMeansData`, `IdleIsSettled`, `SnapshotsWhole`, `CallReturns` |
| `console_data` | every pair of a call and a view of both consoles but the listed gaps, 2 successful calls, fair | `TypeOK`, `QuietIsCurrent`, `CatchesUp` |
| `console_forms` | every call of both consoles, 3 rows, 4 attempts | `TypeOK`, `WaitingIsAnswered`, `ErrorIsCurrent`, `ClosedIsBlank`, `PlaintextWiped` |
| `console_streams` | five consoles, 2 events and the last one, failing statements and PUBLISHes, fair | `TypeOK`, `NoEventTwice`, `EndsLikeTheRun`, `ConsoleEnds`, `LogComplete` |

Three streams let one agent have an old and a new Connect at once while another
agent connects, or one agent a chain of three. Two servers are enough for two
handlers to race for the last increment. Three deployments are the fewest for which
the archiver (window of two) has work, and let a drain or an archiver of one
promotion meet the next. Three calls on a volume are its creation, an operation that
is lost, late or cut off, and one that works on what it left; two sizes let a second
resize meet an image that the first one, timed out, has already grown. That the volume
is created on the first of the two servers loses nothing, as nothing tells servers
apart. Two calls let
the answer of the first meet the effects of the second; three rows and four attempts
let one row be confirmed twice while two others are under way; of three events one can
be missed before, one between and one after the handler's two steps.

The three console runs quantify over the whole of `Console` and `Web`, so a component
that is added or changed there is checked at once. The components that lack a property
are listed by name in the MC modules with the reason (`Gap`, `WebGap`; `Waits`, `Shows`,
`Holds`, `Leaks`, `WebShows`, `WebHolds`, `WebLeaks`), and every other one is held to
it. The lists of `MCConsoleForms` are exactly the calls whose profile does not satisfy
`Hears`, `Corrects`, `Blanks` or `Wipes`, the conditions of the proofs in section 4, and
an assumption of `MCConsoleData` (`CallsReachViews`) has TLC check that its lists are
exactly the cases that do not satisfy `Covered`, the condition of the proof about
`ConsoleData`: no pair is excused that need not be, and a handler that is mended has to
be taken off the list. The reasons, but for a few pairs, are three: a key that no call
names (`Unnamed`), a page that is not refreshed (`Unrefreshed`), and a component that
does not know of what its call also writes (`Unaware`).

Runs that are expected to fail each check one statement found in a comment or a
document of the repository, which the code does not keep:

| Run | Statement | What happens |
|---|---|---|
| `traffic_teardown` | "tears down the old containers after a short drain" | superseded deployments are not in the drain's query |
| `volume_placeholder` | "placeholder; rewritten immediately" | a Move in between works on host path "/" |
| `console_hangs` | "so the UI doesn't hang waiting for events that already fired" | the run ends between the handler's read and its subscribe; nothing is ever written to the stream again, and the dialog waits for ever |

Met while modelling, and without a run of their own:

- the deferred Disconnect of a Connect that ends late removes the entry of the agent's
  new stream, and heartbeats do not bring it back ("keeps ConnManager session alive");
  the dispatch goroutines of a deployment share one `envVars` map, so a replica can get
  another host's `PLATFORM_PRIVATE_IP`; `TriggerDeploy`'s last UPDATE can turn a
  finished deployment back to deploying; a drain stops every other healthy deployment,
  newer ones and those of other environments too, and where one of these ran on the edge
  and the promoted one does not, the app's route file is removed with it, after which
  nothing routes to the app until the next sync;
- `failTarget` leaves the deployment deploying, and a stop of `CleanupDeployments`
  sent during a rollout can land after the deployment became healthy;
- deployments that complete out of order let the archiver archive the live one; the
  kept image tags include those of the rows being archived; two route commands may
  be applied in the opposite order; overlapping promotions leave both backends
  active; weights set on a demoted backend are never pushed;
- on a volume, `Create` ignores a failure the agent reports; a failed remount is
  only logged, after which a snapshot or a move copies the empty mount point; a
  moved volume has no image, so its size is no longer enforced; calls that overlap
  restore statuses they read before the other began; two resizes that overlap can
  shrink the image; a resize that timed out between its check and its `truncate`, and is
  carried out after the volume has moved away, creates a blank image on the old server,
  and once the volume has moved back, the next restart of the agent formats that image
  and mounts it over the contents (met in the proof of `UsableMeansData`: it takes four
  calls, one more than the run makes); when the database refuses the last UPDATE of a
  move, resize or snapshot, the volume keeps "moving", "resizing" or "snapshotting", and
  nothing repairs that;
- in `apps/web-v2`, one mutation hook for all rows of a table, not disabled while
  pending, leaves the first row's confirmation waiting for good (`Waits`); error lines
  that nothing erases (`Shows`); the palette's and the placement list's keys that no
  call names, and components that invalidate queries but do not refresh the pages that
  show the same data as props (`Gap`); among these, "evaluate" of the autoscaler, which
  scales the app and names only the rules, so that the scaling history, the app and the
  deployments stay as they were; scaling, rotating, linking and unlinking, which redeploy
  and do not name the deployments; provisioning and restoring into a new database, which
  create secrets; a server's changes, which the cluster's members show; a writing query,
  which leaves the console's list of tables; and every call that is audited, as no call
  names the audit log. The Done button of `CreateTokenDialog` and of
  `components/ssh-keys/GenerateSshKeyDialog.tsx` closes the dialog without the reset that
  the other ways to close it have, so it opens again with the plaintext that is "only
  shown once"; `RestoreDialog` keeps the name typed for a new database; a late success closes and wipes a form that was
  opened and filled again; `TrafficClient` compares its draft with the backends that
  have just arrived, so an unedited draft never follows them, and its `setQueryData` can
  be undone by a poll that read earlier; `AuditLogClient` gives its first page as
  `initialData` to every filter; `AcceptInviteClient`'s `returnTo` is never read;
  `Confirm.tsx` says the "dialog stays open until the promise settles", but Escape
  closes it; an image search in `CreateAppDialog` and a run in the query console can be
  overwritten by an earlier one's answer; signing out does not clear the query cache;
  `tryGet`'s empty list is kept as fresh data;
- in the live logs, `LogStream` shows all lines again after every reconnection; the
  database page closes its stream as soon as its poll sees the row's final status, and
  the console stays at "streaming" if that was before the last event; an answer other
  than 200 ends an EventSource for good; `runProvisionAsync` marks an expired run as an
  error on the expired context;
- in `apps/web`, `ProvisionConsole` closes its stream on any error while its dialog
  refuses to close as long as the status is "streaming", so one interruption of the stream
  leaves both stuck; renaming a server is overwritten by the next poll; deleting a cluster
  invalidates nothing; the secrets tab keeps what it has revealed.

CHECK_DEADLOCK is off in the runs of the control plane: a rollout that has ended, or a
bounded number of deployments, streams or calls that has been used up, really stops. The
runs of the consoles check deadlock.

Every property of a passing run has a mutant: a definition changed the way a
plausible bug would change it, kept next to the original under a `Bug:` or `Mutant:` comment.

### Fairness

Weak fairness of goroutine steps (the Go scheduler runs what can run), of timers,
of an agent's health check (bounded by its deadline) and of delivery on a live
stream. For a volume call, only of the call's own steps, its timeout included: agents
may never answer. In the consoles, of requests being answered and rendered and of a
poll's interval. For the streams, weak fairness of `Persist`, `Publish` and `StreamEnds`,
and strong fairness of the handler's reading and subscribing and of each delivery: a
stream can be cut again and again, but not each time before the first frames arrive.
Nothing says that an idle stream is ever cut. None for the network, operators, clients, users, or restarts.

## 4. Proofs

For every value of the constants (finite, non-empty `Servers`):

- `ConnManagerProofs`: `TypeOK`, `NoGhostEntry`, `NoDanglingStream`. The
  invariant adds that every entry is held by a bound Connect that has not
  returned, which is inductive because a Connect that returns removes the entry
  of its agent even when it is not its own.
- `RolloutProofs`: `TypeOK`, `HealthyMeansAllReplicas`, `ReadyNeverOvercounts` and the
  refinement `KeepsPromise`. These are not inductive alone: a replica that has
  passed but is not yet counted must be told from one that is counted. `IInv` adds
  how far each pipeline can be (`DispatchFirst`, `FinalIsLast`, `PassedIsFinal`:
  an agent finishes once, its final output is the last in the queue, and a target
  that passed sees no further output) and `ReadyCounted`: `replicas_ready` plus the
  handlers about to increment is at most the number of healthy targets. With
  `ready >= |Servers|` every target is then healthy.

- `ConsoleFormsProofs`, for any set of profiles, rows and bound on attempts: `TypeOK`
  (`FormTypes`), and for each of the other four invariants of `console_forms` that what
  a profile says is enough: `Blanks` for `ClosedIsBlank`, `Wipes` for `PlaintextWiped`,
  `Hears` for `WaitingIsAnswered`, `Corrects` for `ErrorIsCurrent`. So the question
  whether a new dialog is right is answered by reading its source for a few words.
  `FlightInv` (attempts are numbered without repetition) carries the last two.
  For `WaitingIsAnswered`, `HeardInv` adds that where a pending hook disables the
  triggers, the dialog that is open while the hook is pending is the one that waits for
  that attempt; without it a confirmation could take the callbacks from another row. For
  `ErrorIsCurrent`, `SingleInv` says for each of the three ways to have one attempt per
  row at a time why that is so, and `FreshInv` that what is in flight, and the error, is
  later than any success of its row.

- `TrafficProofs`, for any number of deployments, environments and API calls: `TypeOK`,
  `OrderlyPromotion` and `EdgeServesNewest`. `OrderlyPromotion` speaks of the moments when no promotion is under way, so the invariant has to say what
  a promotion between two of its statements still owes (`Duty`: it has listed every
  backend it has to demote, and only it and what it listed can be active). What an
  archiver has listed is worked off later, while rows change: `Listed` says that every
  row on its list is `Outlived`, that is, has two newer live deployments, and that stays
  true because whatever archives one of them needs two newer ones yet. So a late
  archiver cannot hit the newest. `EdgeServesNewest` speaks of the moments when all is
  quiet, so `Turn` follows the newest promotion from its start to the end of its drain
  and its archival: what the others were doing is over, `InHand` says what is on record
  at each of its statements, and no deployment but the newest is on record as healthy
  when the drain makes its list, so that the drain stops nothing that serves and removes
  no file.
- `VolumeProofs`, for any servers, sizes and number of calls: `TypeOK`, `UsableMeansData`,
  `IdleIsSettled`, `SnapshotsWhole`. A command outlives its call, so the row alone says
  nothing of what an agent is about to do. `Wiring` says which command there can be at
  which statement of a call. In calm histories (`Orderly`) one call runs at a time and
  the row is as it left it (`Alone`), a call that has returned has settled the status
  (`Settled`; a call cut off or refused its settling UPDATE is exempt, as is said in
  `IdleIsSettled` itself), and on every disk a mount has an image and an image has contents (`Disks`),
  which is what makes a restart harmless. `Kept` adds, for a volume that is still wanted,
  that where the status is usable, or is going to be restored, the contents can be seen
  on the row's server and no move's command is at an agent (`Good`), and where they are
  at each statement of a move (`Moving`). That `FinishMove` writes "error" after any
  doubt keeps `Good` inductive. Each action has one lemma. `Disks` fails for a late
  resize: the attempt to prove it brought up the sequence of section 3.
- `ConsoleStreamsProofs`, for any number of events: `TypeOK`, `NoEventTwice`,
  `EndsLikeTheRun`. A console of `apps/web` adds whatever comes and never connects again;
  that it has no line twice rests on what is still on the wire and what will be
  published, which `Fresh` says is new to it. A replayed log is older than what is
  published later because a build's line is persisted after it is published
  (`RunOrder`), and its lines differ because a finite set of numbers can be put in order
  (`CanBeSorted`, `Replay`), an induction done by way of a least counterexample
  (`LeastNatural`). `WireOrder` says that a frame that ends a run ends it as it has ended.
- `ConsoleDataProofs`, for any set of cases and number of calls: `TypeOK`, and that
  `Covered` is enough for `QuietIsCurrent`: a view that is not polled is a query that
  the call's handler invalidates and does not write into itself, or a view of props
  that the handler refreshes. Whether a new mutation is right for a view can thus be
  read off the two. The condition excludes `setQueryData` on purpose: a request that read
  the API before the call can land after it. The invariant has a part for each way
  (`QueryInv`, `PropsInv`) and one for the page being loaded (`PageInv`). `QuietIsCurrent`
  speaks of what is on screen; the parts speak of every copy that can come on screen
  without asking the API again: an entry that is not stale, an answer on its way, props
  the router kept for Back. TLC has checked the invariant for all covered profiles
  on one page and on two, not only for those that the consoles have.

Every invariant of the passing runs, and the refinement `KeepsPromise`, is thus proved for
all values of the constants. What is only model-checked is what the prover cannot express: the
liveness properties (`CleanConnectReachable`, `TargetSettles`, `PromotionFollows`,
`PromotedGetsRoute`, `CallReturns`, `CatchesUp`, `ConsoleEnds`, `LogComplete`), which rest
on fairness; and that the consoles' components outside the named lists satisfy the
conditions of the proofs, which TLC evaluates over the whole of `Console` and `Web`.

## 5. Not modelled, and the plan

Data that no property tells apart (ids, labels, logs, URLs, resource figures) is
abstracted. `Traffic` covers clusters with an edge node; the legacy per-server path of
`SyncTrafficRoute` is not modelled. In the consoles, markup, formatting, field
validation, the terminal's WebSocket, container logs and charts are left out.

Not modelled, although it has behaviour worth modelling: credential rotation and backups
(timeouts against late results), the builds' triggers and dispatch, address allocation
and mesh keys, the status watcher's write-back, the autoscaler, the alert states, and the
pure functions Schedule and shouldRun. They are independent of what is modelled here;
each is a module and a run of its own.

Not modelled because there is nothing to find this way: the site (static pages), the CLI
(one request per command), generated code, the worker's queue (a library's), the clients
for SSH, GitHub, Cloudflare and registries, and handlers that are one statement on one
row (teams, tokens, secrets, environment variables).

Next: what the proofs say of combinations. `RolloutPromise` and `Traffic` meet at the
start of a promotion, and `OrderlyPromotion` could be stated over deployments that
`Rollout` completes. A condition on the clients weaker than `calm`, under which the
properties of `Volume` still hold, would tell which lock the service needs.
