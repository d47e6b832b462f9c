# Verification of bambu-mqtt-proxy

TLA+ models of the proxy, the TLC runs that check them and TLAPS proofs about
them. The reference is the Go code under `src/`; the README
of the program is quoted only where the code and its documentation disagree.
`PROJECT.json` lists components, runs, mutants, findings, hazards and theorems,
and maps every definition to the lines it models.

    tlc -workers 2 -config PrinterLink.cfg PrinterLink.tla      # any run
    tlapm PrinterLink_proofs.tla                                # any proof module

## 1. The system

The proxy is one process. It keeps one MQTT connection per Bambu printer,
merges the printers' reports into documents, and lets independent modules watch
them and send commands. Everything is in memory; a restart forgets all of it
except the configuration file.

| Part | State | Operations | What is hard |
|---|---|---|---|
| printer link (`printer/link.go`, `links.go`) | per connection: epoch of the paho client, `online`, the cancel of the latest `connected()`, the `transitions` lock | paho callbacks `connected`, `reconnecting`, `lost`; `setOnline`, `close`, `isOnline`, `Send` | paho starts each callback in a goroutine of its own: those of two connections overlap, and a close comes at any point |
| printer store (`printer/store.go`, `events.go`) | document and `online` per printer | `Apply`, `SetOnline`, `Subscribe`, `Get`, `View` | events are dispatched under one lock so that subscribers see them in order; subscribers keep queues of their own |
| projections (`doc.go`, `problems.go`, `view.go`, ...) | none | pure functions of a document | the problems of two reports are compared under a catalog that changes meanwhile |
| activity log (`activity/activity.go`) | ring per printer, `nextID`, a channel that is closed at each entry | `Record`, `Recent`, `Wait`, observers | eviction and wraparound, wake-ups of long polls, cursors that outlive the process |
| camera capture (`camera/capture.go`, `manager.go`) | consumers, the current loop, idle timer and generation, retirement, latest frame | `acquire`, `release`, `snapshot`, `wait`, `stopIdle`, `run`, `publish`, `close` | a printer serves one camera connection; timers fire while their stop is under way; a retiring loop overlaps with new clients |
| raw camera server, wall (`rawserver.go`, `handlers.go`, `camwall.go`) | sockets and sessions of the raw endpoint | accept, stream, `Close`; HTTP streams | a connection accepted while it closes, stale frames against the frame budget |
| job preview (`jobpreview/service.go`) | `pending`, `entries`, one cancellable worker per printer | `Run`, `retrieve`, `Lookup` | a worker outlives the selection it fetches for; a bounded queue drops events |
| detection (`detection/worker.go`, `engine.go`) | print counter, the user's switch, the once-per-print pause, the Gadget context | `observe`/`apply`, `run`, `accept`, `fail`, `autoLight`, `SetDetectionEnabled`, `suspend` | reports and the switch fall between the steps of an inspection that takes seconds |
| plate check (`platecheck/service.go`, `layer.go`) | per printer: which checks of the print are over, the outstanding stop and pause, a due retry | `handle` of a report with up to four checks in it, `resolve` | a check takes up to 25 s, in which reports queue up to 64 and then drop, and the live document moves on |
| over-temperature safety (`safety/safety.go`) | `tripped`, responses under way | a check per second, `respond` | once per episode although readings come and go; stops that fail; a store that says offline disables it |
| notifications (`notification/service.go`) | queue of 16, delivery in batches | observer of the activity log | slow delivery against a bounded queue |
| error codes (`hmscodes/hmscodes.go`) | a versioned table per model, its cache file | `Snapshot`, refresh, save, load | a refresh between two reports, late mirrors, a restart before the save |
| broker, bridge, routing (`broker/`, `routing/`) | local MQTT broker, routing table | authenticate, subscribe, forward, inject | a name must lead to one printer in both directions under every valid choice of aliases |
| control, MCP (`control/`, `mcpserver/`) | eight camera slots per printer | tool calls | a call may give up at every wait |
| accessories (`pandapwr/`, `pandabreath/`) | last reading, samples of a trend | polling, power off, redialing | stale readings, outages between samples |
| lifecycle (`cmd/`, `module/`) | modules and servers | start-up, set-up mode, restart, shutdown | the order of ten steps of shutdown |
| configuration and its page (`config/`, `configui/`) | the file, the pending restart | validate, save with kept secrets, connection and provider tests, restart | secrets the page never shows must follow their row and destination; a test dial outlives its request |
| HTTP, TLS, JSON helpers | none | serve, stop, sign, parse | only the bounded stop |

How they interact: paho callbacks call `setOnline`, whose observer is
`Store.SetOnline`; reports call `Store.Apply`. Both run the subscribers
synchronously under `eventMu`, and the subscribers (detection, preview, plate
check) only change their own state or queue the event, then a goroutine of the
module does the slow work: it takes a frame from the shared capture, calls a
service, and sends a command back through `Links.Send`, which refuses it when
the link is not online. All of them record entries in the activity log, whose
observer feeds the notifications. Hence the shape of most hazards here: a
goroutine acts on what it read before it waited.

### What makes each part correct

* link: a status `online` means connected and subscribed on the connection that
  is open; the store follows it; close is final and returns.
* activity log: readers see the newest entries in order, miss none, and a
  cursor kept over a restart hides none.
* capture: one camera connection, no client left on a retired loop, no idle
  connection kept open, no frame missed, close ends everything.
* preview: one worker per printer, `pending` only while one works, all joined.
* detection: nothing sent once switched off, one pause per print, results of an
  earlier print or image never act on this one, no inspection is forgotten.
* plate check: the reports of a print lead to one stop (and its one repeat) and,
  unless a full queue dropped the first of them, to one retry of its first layer;
  commands only where the live printer is, none for a print that was under way
  at start-up.
* safety: each episode answered once, by an alarm that tells what failed, and no
  response outlives `Run`.
* notifications: what the queue accepted is considered before it is gone.
* catalog: the table never falls behind its file, and a change of the catalog
  announces and resolves nothing.
* broker: a name is one printer's, for requests and for reports.
* configuration page: secrets stay with their destination, what is saved is valid
  and is what is served next, tests keep off the printers in use as long as the
  file still lists them.
* lifecycle: users are gone before what they use, nothing is left open.
* camera users: references and slots add up, a closed endpoint is quiet.

## 2. Modules

| Module | Models | Extends or instantiates |
|---|---|---|
| `PrinterLink` | one link with its paho callbacks | `StatusFeed` as its refinement |
| `StatusFeed` | what the observer of a link is promised: every change once, in order | |
| `PrinterLink_proofs` | theorems, the refinement included | `PrinterLink` |
| `ActivityLog` | the log, its writers, long-polling readers, restarts | `BoundedLog` as its refinement |
| `BoundedLog` | what the log promises: the newest entries under growing IDs | |
| `ActivityLog_proofs` | theorems, the refinement included | `ActivityLog` |
| `CameraCapture` | one capture, its clients, loops, timers, and `Manager.Close` | `CameraLease` as its refinement |
| `CameraLease` | what a capture promises its callers: one camera, lent and given up | |
| `MC_CameraCapture` | the symmetry of the clients | `CameraCapture` |
| `CameraCapture_proofs` | theorems, the refinement included | `CameraCapture` |
| `PrintEvents` | the rules that tell where a print begins, is prepared, started or past its first layer | |
| `JobPreview` | the preview service for one printer | `PrintEvents` |
| `JobPreview_proofs` | theorems | `JobPreview` |
| `Detection` | detection for one printer | `PrintEvents` |
| `Detection_proofs` | theorems | `Detection` |
| `PlateCheck` | the plate check of one printer | `PrintEvents` |
| `PlateCheck_proofs` | theorems | `PlateCheck` |
| `Safety` | the over-temperature monitor of one printer against its fleet | |
| `Notification` | queue, batches and deliveries | |
| `ProblemReports` | the problems of one printer and the catalog they are shown under | |
| `Configuration` | what a configuration accepts and what the router makes of it | |
| `Bridge` | broker clients, requests and reports | `Configuration` |
| `ConfigPage` | the configuration page with the process it restarts | `Configuration` |
| `PrinterProbe` | one connection test | |
| `CameraUse`, `CameraUse_proofs` | MCP camera calls and raw camera sessions, and theorems | |
| `PandaBreath` | the Panda Breath client, its samples and trend | |
| `Lifecycle` | one serving of a configuration | |
| `MC_Services` | each of the last nine components, and `ActivityLog`, by itself | all of them |
| `Services_proofs` | theorems about eight of them and about the composition | `MC_Services`, `CameraUse_proofs`, `ActivityLog_proofs` |

### PrinterLink and StatusFeed

A connection is numbered by its epoch. `handler[e]` is where the goroutine of
`connected()` for connection e is, `loss[e]` that of `lost()`, `dialer` the paho
goroutine that dials and calls `reconnecting()`, `closer` the caller of
`close()`. One action stands for the code between two points where another
goroutine can come in: taking `l.mu`, taking or holding `transitions`, waiting
for a token, sleeping before a retry. `transitions` is held across the
observer's call, so it is modelled as a lock with an owner; `l.mu` never is, so
it is the atomicity of the actions. The library (`Opened`, `Broken`,
`DialFailed`, `Suback`, `TokenLost`) is external: what `link.go` relies on is
that `OnConnect` and `OnConnectionLost` run in goroutines of their own, that a
token of a lost connection resolves, and that after `Disconnect` no dial
follows. The broker's grant of a subscription is `Suback`, which may refuse.

`StatusFeed` is the link as the store sees it: the status, what the observer
was told last, and whether it is being told. `FeedKept` maps them to `online`,
`observed` and a `transitions` that is held.

Left out: what a report contains, `Links.Send` beyond its guard `IsOnline`,
back-off lengths.

### ActivityLog and BoundedLog

An entry is its ID. `buf` and `next` are the ring as the code keeps it: a slice
that grows to its capacity and then an index that wraps; `NewestFirst` is the
walk back of `snapshot`. `changed` numbers the channels that `record` closes
and replaces. `Record` is all of `record` up to its unlock; `Tell` is the
call of the observer after it. A reader's `Wait` is the loop of `Log.Wait`, one
action per turn and per branch. `Rebuild` is the end of the process and `New`:
IDs start at the clock, in microseconds. That a process gives out fewer IDs
than microseconds pass is the guard `nextID < clock` of `Record`, which is what
the code's choice of the clock assumes.

`BoundedLog` says in a dozen lines what a reader may rely on, without ring,
slots or channels. `KeepsNewest` is the refinement.

### CameraCapture and CameraLease

`capture.mu` makes an action atomic. Clients run `snapshot` or `wait`
(`Call`, `Acquire`, `AcquireResume`, `Look`, `Notified`, `GiveUp`, `Release`);
`Fire` starts the callback of a timer, and `StopIdle` is that callback once it
has the lock, so that a timer can be stopped too late. A retired loop ends
through `StopIdleCancel`, `StopIdleDone`, `StopIdleClose`. Loops connect,
publish, fail, back off and end when cancelled; `NoEndpoint` ends a loop whose
printer offers no stream. `ManagerClose` to `CloseDone` are the two steps of
shutdown. A frame is its sequence number; `Age` makes it older than
`snapshotMaxAge`. The wire protocols and FFmpeg are abstracted to a loop that
connects, publishes and fails.

`CameraLease` is the capture as its callers see it, without counts, timers or
loops: who holds the camera, whether its connection is on, off or still
draining, whether it was closed, and the newest frame with those given.
`LeaseKept` maps the holders to the calls between acquire and release of an open
capture, `on` to a loop that can be cancelled, and `draining` to one that has
been given up and has not ended.

### PrintEvents and JobPreview

The operators of `PrintEvents` are the rules of `events.go` that the modules read
from their events; `NewJob` is the one all of them share.
`JobPreview` has the store's document as it moves on, the bounded queue of
events with its drop, `Run` in the two critical sections of a turn, and workers
that fetch, check their context, check the document, publish or retry. A key is
the archive selection of a document. The download itself succeeds or fails.

### Detection

One printer whose camera is supported, with the camera feature on (the other
cases park the worker for good). `Report` and `SetOnline` are the store's event
with the whole of `apply`; the nudge that follows it outside `w.mu` is a step of
its own, `Nudge`, and so is that of the switch. `Switch`, with `Enable`,
`DisablePrint` and `DisableIdle`, is `SetDetectionEnabled`: it needs
`commandMu`, which the worker holds in `lightSend`, `say`, `send` and `unsent`
(`Commanding`). The worker goes `top` (drain verdicts, look at the session),
`park`/`sleep` or `arm`/`timer`, or `light`, `context`, `frame`, `process`,
then `accept` or `fail`. `mine` is its copy of the counter, compared with the
counter wherever the code compares it. Cancelling a request when the user
switches is covered by requests and waits that may fail at any time. Acquire
cannot fail for a supported printer, so that branch is left out; so are the
backup server, the count of failures behind `ai_recovered`, the length of
waits, and the text of the status. A frame is described by whether the capture
has one, whether it was taken before the current print began, and whether it is
above `lastSeq`. SLICING counts as PREPARE, since no rule of the worker tells
them apart, and FINISH and FAILED count as IDLE. Verdicts wait in a queue of 64;
the type invariant shows that two ever wait.

### PlateCheck

One printer with the check enabled. `doc`, `online` are the store's live state,
which a check reads again after each wait; a queued event carries the document
of its own time, so the two differ as they do in the code. `Report`,
`LinkChanges` queue or drop an event; `Receive` is `worker.handle` with all it
does before its first wait: resolve the outstanding stop and pause (repeating a
stop sent during PREPARE), reset for a new print, close the checks of a print
found under way, note the homing stage, and run through the four checks, each of
which starts, is skipped at once or gives way to the next (`FromStartup`,
`FromHoming`, `FromRetry`, `FromLayer`). A check is `wait` (image, light,
provider: `Fail`, `Judge`, `JudgeLayer`), `verdict` (`Recheck`, which reads the
live document again) and `send` (`SendStop`, `SendPause`); after it the handler
goes on with the rest of its report (`Rest`, `Leave`). Scores, reasons, the light
and the wording are left out.

`live` is history, kept for the live print whatever the worker knows of it: the
stops sent and the first-layer checks begun on its reports, how many reports of
earlier prints the worker has yet to finish (`late`), and whether the queue took
the report it began with. It starts anew when the printer begins a print, not
when the worker learns of it (`Reset`), so a print whose first report was dropped
is counted too, and what is left of an earlier one counts for the new one as soon
as its reports are handled. A command sent while an earlier report is still
handled counts for none: that a check can hit a later print than its own is told
under the findings.

### Safety

`hot` is the printer, `temps` the document, which lags behind it and may leave
probes out; `Check` is one tick of `check`, and each response runs beside the
ticks through its stops, the plug and the alarm (`StopOne`, `PowerNext`,
`PowerOff`, `Alarm`). The stops are sent in any order, which covers the order of
the configuration. Episodes are counted to state the property; the code only has
`tripped`. The chamber reading of an accessory is left out: it is refreshed by
itself, its age is not looked at (the README of the program says so, line 633),
and a reading that comes late can split an episode in two.

### Notification

`Observe` is the activity observer with its queue of 16, `Gather` and `Wake` the
two events of `Run`, `Deliver` and `Send` one message. A delivery goes on after
the shutdown only to find that it should not send. Entries are told apart by the
one rule that treats them differently: a pause alone notifies nobody.

### ProblemReports

`Apply` is a report with the diff of problems under the catalog's current
snapshot; `Ask` to `Save` are the refresh of one model with its answers (a full
table from a mirror that may lag, "unchanged", a failure), the publication and
the cache file; `Restart` ends the process anywhere and loads that file. A code
is described by what the table says of it: a text, an empty text or nothing.

### Configuration, Bridge, ConfigPage

`Configuration` holds the checks of `Config.Validate` that concern the printers'
names and addresses, and the routing table made of them. `Bridge` runs broker
clients over every valid configuration of a small set of serials and aliases:
connect, subscribe, request, and reports injected under the client's name.

`ConfigPage` is the page with the process around it: `Put` is a save (form to
file, kept secrets, validation, replacement), `SignalSaved` and `TakeSignal` the
restart signal that follows it outside the lock, `Exec` and `Start` the new
serving or the set-up page; `Test` is the test of the plate-check provider,
`TestPrinter` a connection test; `Edit` is a file written by hand. The file that
a submission is compared with may change between the two, and that is what
`typed`, the secrets ever entered with their destinations, is for.

### PrinterProbe, CameraUse, PandaBreath, Lifecycle

`PrinterProbe` interleaves the request (wait, capture of the socket, disconnect)
with the library's dial and handshake. `CameraUse` has snapshot calls (slot,
reference, frame, release) beside raw sessions (accept, register, credentials,
reference, stream, deferred calls) and the five steps of `RawServer.Close`.
`PandaBreath` keeps ages instead of times. `Lifecycle` is `serve`: the order in
which parts open, what a failure takes down, and the deferred shutdown.

### MC_Services

These ten components share no variables. `service` picks one at the start and
only that one moves, so a run explores the sum of their state spaces, not the
product. The modules are written to be extended together, hence names such as
`SafetyNext`.

## 3. Runs

All runs use 2 workers and stay below three minutes, most far below.

| Run | Shows |
|---|---|
| `link` | Two connections whose callbacks overlap in every order, with losses, refused subscriptions and close at any point. `OnlineIsSubscribed`: nobody is told online before the printer granted the subscription of the open connection. `FeedKept` (refinement of `StatusFeed`): the observer is told every change of the status once, in order, and none happens while it is told. `ClosedIsOffline`, `ClosingEnds`: close is final, returns and leaves the lock free. `EventuallyOnline`: as long as `connected()` does not outlive the opening of the next connection, a connection that stays open ends up online, however late the losses of earlier ones are delivered. |
| `link_stuck` | Violation. Without that condition a link can stay offline on an open, subscribed connection. |
| `capture_safety` | Two clients in `snapshot` or `wait`, two loops, three timers, a frame, Close. `OneConnection`, `ConsumersServed`, `ClosedIsQuiet`; `IdleIsTimed`: the count is that of the clients that hold the capture, and where nobody does a timer of the current generation is under way; `NoMissedFrame`; `GraceIsTheLast`: an old timer never cuts short a new grace; `LeaseKept` (refinement of `CameraLease`): the camera is given up only with nobody holding it and lent again only when it has drained. |
| `capture_live` | `IdleStops`, `CloseEnds` with two clients in `wait`. |
| `preview` | Three reports, a queue of two, three workers, two attempts, a stop at any point. `JoinedAtReturn`, `WorkersEnd`. |
| `preview_pending` | Violation: a selection stays pending with nobody fetching it. |
| `detection` | Two prints. `QuietWhenOff`, `OnePause`, `PendingExplained`, `NoLostWake`. |
| `detection_live` | `CameraFreed`, `InspectsAgain` with one print. |
| `detection_stopped` | Violation: checks that were announced as stopped for a print resume in it. |
| `platecheck` | Any number of prints and reports against a queue of two, which drops reports or holds the end of a print and the beginning of the next while a check of the first still runs. `StopsOnce`: the reports of a print lead to one stop, and to a second only as the intended repeat. `AttachedNotStopped`: none for a print under way at start-up. `CommandsFit`: commands are decided where the live printer is, not where it was. `StopShown`: the status and the outstanding stop go together. `OneRetry`: a print whose first report was queued has its first layer checked twice at most. |
| `platecheck_retries` | Violation. Without the condition that the first report was queued, a first layer can be checked three times. |
| `services` | Ten components, each by itself. `Answered` (safety), `Notified`, `ProblemsRight`, `OnePrinterPerName` (broker), `PageKeeps` (configuration page), `Orderly` (lifecycle), `CamerasReturned`, `NoSocketLeft` (connection test), `TrendHolds` (Panda Breath); for the activity log with two printers, an unknown serial, two writers, a reader, rings of two and restarts: `KeepsNewest` (refinement of `BoundedLog`), `NoLostWakeup`, `CursorsBehind`, `EveryWaitAnswered`. |

`Answered`, `Notified`, `ProblemsRight`, `PageKeeps`, `Orderly` and
`CamerasReturned` are conjunctions of named parts, each with its own comment:
`OneAlarm`, `AlarmTells`, `ResponsesJoined`; `NothingForgotten`,
`PauseIsQualified`; `NoEcho`, `OneProblemEach`, `NeverBehindFile`;
`SecretsStayPut`, `SavedIsValid`, `SavedIsServed`, `TestsKeepOff`;
`UsersGoFirst`, `NothingLeft`; `Balanced`, `ClosedForGood`, `OneBudget`.

The type invariants of all components (`TypeOK`, and `ServicesTypes` for the ten
of `services`) are theorems and not checked again by the runs; so is
`ObserverAgrees`, which `FeedKept` implies.

### Bounds, and why they are enough

* `MaxConn = 2`: every check in `link.go` compares a callback's own context with
  the latest one, so it takes one earlier and one current connection; the
  theorems hold for any number.
* `Capacity = 2`, `MaxClock = 5`: a ring fills, wraps more than once and
  restarts; the theorems hold for any capacity and clock.
* `MaxLoops = 2`, `MaxGen = 3`: a loop retires while the next is wanted, and a
  timer is stopped, replaced and rejected. Two clients: one that joins while
  the other waits for a retirement. The invariants proved hold for any number.
* preview: three workers give a stale one, a superseded one and a current one.
* `MaxPrints = 2`: a result of one print against the next; `MaxLayer = 1`: the
  layer of the pause and a later one. Reports, losses, switches and frames are
  not bounded. In `detection_live` there is one print and no layer, since the
  liveness properties do not depend on them.
* plate check: layers 0, 2 and 3 are the start, the layer in which the first one
  is checked and retried, and one past it. A queue of two lets the worker fall
  behind by a whole print, and drops reports as well; the run with it leaves out
  PAUSE and layer 3 to stay small, and the violation has them with a queue of
  one. The number of prints is not bounded. All five properties are also
  theorems, for any queue, states and layers.
* services: two printers stopped by one episode after another; a queue of two
  entries; two versions of a catalog in which a code is added, dropped and
  emptied; every one- and two-printer configuration over two serials and an
  alias; rows that keep, rename, move and swap two printers; three modules; two
  calls for one slot beside two raw sessions with a budget of two steps; trend
  limits of 2, 2, 5 and 9 steps, which keep the order and the slack of the
  code's 10 s, 15 s, 2 min and 3 min.

`CHECK_DEADLOCK FALSE` is said where the system really stops: a closed link or
capture, a service that has returned.

### Fairness

Weak fairness stands for the Go scheduler: a goroutine that can go on does. It
is stated per goroutine, not per action. Beyond it the specifications assume:

* link: a dial that is repeated succeeds at some point while the link is open
  (strong fairness of `Opened`), a token resolves, and a subscription that is
  repeated is granted at some point. Nothing has to break or close.
* log: none beyond the readers' goroutines. Nobody has to record.
* capture: a timer fires; a cancelled loop goes on, since its dial has a
  deadline and its connection is closed. Nobody has to publish or close.
* preview: a fetch ends, by its timeout of ten minutes if need be.
* detection: the worker's waits and requests end by their timeouts of 15 s,
  time passes (`Elapse`), and a thread that has changed the session nudges the
  worker. The user, the printer and the camera owe nothing.
* plate check and the services beside the log: only safety is stated, without
  fairness. `ServicesFairSpec` is fair to the readers of the log alone
  (`LogFairness`), who have nothing to do while another service moves.

## 4. Proofs

TLAPS proves for every value of the constants what the runs check on small
ones. The proofs assume only the named `ASSUME` of each module (bounds are
natural numbers, a ring holds at least one entry, sets of clients are finite,
lists of printers are sequences, versions of a catalog are numbers, files are of
the three kinds the page tells apart, and the limits of a trend are ordered as
the code's are).

* `PrinterLink_proofs`: `TypeCorrect`, `OnlineOnlySubscribed`, `ObserverFollows`,
  `ClosedStaysOffline` and `LinkFeedsItsObserver`, the refinement of `StatusFeed`.
  `StatusSteps` sorts the steps of all goroutines into three kinds: one that
  leaves the status alone, one that computes it with the lock free, one that
  reports it; `LockCarriesStatus` says that the holder of the lock carries the
  link's status and that the observer has not got it yet. The other invariants
  are not inductive alone: the strengthening says
  that an open connection has no dial under way and that the link is offline
  while the library dials; that only the newest `connected()` can have a context
  nobody cancelled, and that every one committed before a dial was cancelled by
  it; that a `connected()` still in charge sent its subscription on the open
  connection, and that one granted is subscribed there. `LockIsNeverLeft`
  (`HolderReports`) says that the lock is held exactly while its holder stands at
  the notification that releases it, which needs that connections are used in
  order (`Numbered`): the part of `ClosingEnds` that is not fairness.
* `ActivityLog_proofs`: `TypeCorrect`, `NoWakeupLost`, `CursorsStayBehind` and
  `RingImplementsLog`, the refinement of `BoundedLog`. `FillsFromZero` (the index
  moves only in a full ring) and `IDsBehind` (no ID above the clock) strengthen
  the invariant; `WalkAppend` and `WalkOverwrite` say what the walk back over the
  slots returns after a write below capacity and after an overwrite, modulo
  arithmetic included.
* `CameraCapture_proofs`: `TypeCorrect`, `OneConnectionOnly`,
  `ConsumersAreServed`, `ClosedStaysQuiet`. The first invariant ties `cancel`, `done`,
  `stopping` and the stage of the retiring callback to the one loop that may be
  live, and says which loops have exited for good. `IdleAlwaysTimed`,
  `FramesAreNotMissed` and `GraceIsAlwaysTheLast` add three parts to it: the
  count is the cardinality of the calls that hold the capture, no timer is above
  the generation or both pending and fired (`TimersBehind`), and no caller has a
  channel beyond the next frame's (`ChannelsBehind`).
  `CaptureImplementsLease` is the refinement of `CameraLease`, one lemma per
  operation the callers can see and `Unseen` for the rest: a caller joins only
  where no retired loop runs (`StoppedLoop`), the callback that gives the camera
  up finds the count at zero and so nobody on it (`Counted`), and `Close` returns
  with the latest loop ended, which is the only one that could run. `FrameIsThere`
  (a fresh frame has a number) is the one part it adds. `AlwaysLent` draws from
  the promise, not from the capture, what a caller relies on. `NobodyWaitsInVain`
  is the part of `IdleStops` and `CloseEnds` that is not fairness: who is blocked
  (a caller in `acquire`, the idle callback, `Close`) waits for a channel that is
  closed or will be by the retirement under way, or for a loop that has ended, is
  cancelled or is about to be.
* `Detection_proofs`: `TypeCorrect`, `OffIsQuiet`, `PendingIsExplained`,
  `PausesOnce`, `NoWakeLost`. `OutcomesFit` bounds the verdicts that wait by where
  the worker stands (an inspection begins with an empty queue, and only `Accept`
  makes another verdict possible). `SaidOnce` carries the one pause: a print
  whose pause was sent stays latched, and no print said is above `counter`. The
  other three are inductive once the types are known.
* `PlateCheck_proofs`: `TypeCorrect`, `StopAlwaysShown`, `RetriesOnce`,
  `StopsAtMostOnce`, `AttachedNeverStopped`, `CommandsAlwaysFit`, for any layers
  and any queue. The report is handled by a chain of functions, so the proof is
  one too: each link (`FromLayerWaits` up to `FromStartupWaits`, `ResolveGood`,
  `PreparedGood`) keeps what `Good` says of the worker and tells which checks it
  may stop to wait for. `InPass` says what holds in each part of a check,
  `FirstIsFirst` that the printer's first report meets a worker that has handled
  none and cannot be dropped, and `NoneBegun` that until a print has begun the
  checks of the start are closed or the event that closes them comes next; it is
  what makes `AttachedNotStopped` inductive. The counts of `live` need a second
  invariant, `HInv`. `Order`: the report of a new print is never behind other
  reports of the same print, nothing was counted before it is handled, and if the
  queue took it, it stands right behind the late ones. `Stops`: a worker that has
  sent no stop has none counted, and one whose stop may be repeated has one at
  most. `Checks`, for a print whose first report was queued: the report that
  completes its first layer comes once (`Past`, which only a new print ends), no
  check is counted before it, and once the first report was handled a retry is
  due only after that check, since `Reset` has cleared any older one. Without the
  condition the last part fails, which is the fourth finding.
  `RunsOnHistory`, `ReceiveHistory` and `AddedHistory` carry it through a handler
  that goes on, one that begins, and a report that is queued or dropped.
* `JobPreview_proofs`: `TypeCorrect`, `JoinedAlways`. `Registered` (a selection
  that Run knows has a worker to cancel) and `AttemptLeft` (a worker that waits
  has an attempt left) make the types inductive; `MoveKeeps` is the one lemma
  behind every step of a worker.
* `CameraUse_proofs`: `CamerasReturnedAlways`. The references are the cardinality
  of the calls and sessions that hold one, kept through each step of either.
  `SessionFits` says where a session is registered: before Close in the registry,
  after it in the set that Close took, whose sockets are closed before the join;
  and that the unserved time and what is left of the budget make the budget.
* `Services_proofs`, one part for each of eight components of the `services` run,
  each from its own specification, and the composition (the camera users and the
  activity log have proof modules of their own):
  * `AnsweredAlways` (`Safety`). `Resting` says why an answered episode is not
    answered again: `tripped` is cleared on a report of every probe under its
    limit, so the printer was in no episode then, and the next one has a number
    of its own before a report can show it. `Split`: the stops that were sent,
    missed and are left make up the fleet.
  * `NotifiedAlways` (`Notification`). It needs `Timed`: a printer has a deadline
    exactly when its batch is not empty.
  * `OrderlyAlways` (`Lifecycle`). `Starting` is what is open at each step of a
    start, `Stopping` what each step of the shutdown still finds open; a failed
    start enters the shutdown with less open than a full one.
  * `NoSocketLeftAlways` (`PrinterProbe`). A socket that is open after the flag
    was set is in the hands of the dial, which will see the flag, or of the
    cleanup, which captured it.
  * `ProblemsAlwaysRight` (`ProblemReports`). `ProblemsCover`: the problems of any
    document under any table partition its visible codes, so two projections
    under one table differ only by reported codes. `TableOfFile` says that
    without a ready table there is no file, and with one the file is not newer.
  * `NamesAreOnePrinters` (`Bridge`, `Configuration`). `NamesDiffer` reads from
    `Validate` that no two printers share a downstream name, so `Owner` and
    `Downstream` are inverse to each other.
  * `PageAlwaysKeeps` (`ConfigPage`). `StoredIsHeld`: a stored code that a row
    takes over is a secret of the file with that address, which needs the last
    printer of a serial to exist (`LastExists`, by well-foundedness);
    `PutKeepsSecrets` carries it through a submission. A start finds no test
    under way, so a test and the printers it avoids are of one process.
  * `TrendAlwaysHolds` (`PandaBreath`). `Behind`: the oldest sample is within the
    window before the latest reading. `Reaches`: while readings keep coming it is
    from before they began, or old enough for a trend. `Dense`: no two samples
    taken since are the spacing and the freshness limit apart, so dropping one by
    the window never leaves too short a span. `FirstIsKept` and `Kept` say what
    dropping and spacing leave.
  * `ProblemsTyped`, `BridgeTyped`, `PageTyped` are the types of the three whose
    invariants above are not built on them; `ServicesTyped` gathers those of all
    ten. It rests on `EachKeepsItsSpec`: a behaviour of the composition is one of
    each component, the nine that do not move standing still. Attempting
    `BridgeTyped` showed that `Names` let the empty name in, through a missing
    pair of parentheses; it does not any more.

Only model-checked: the liveness properties (fairness and ENABLED are out of the
prover's reach) and the four violations.

## 5. Findings

1. `link_stuck`: a `connected()` of an earlier connection that is delayed writes
   offline over a newer connection that was reported online; nothing writes
   online again while that connection lasts. Commands are refused, and the
   over-temperature check, which skips printers that are offline, is off.
2. `preview_pending`: a cancelled or superseded worker returns without clearing
   `pending`; the archive is then never fetched again.
3. `detection_stopped`: the verdict on an unanswered pause overwrites the reason
   that keeps a print's checks stopped.
4. `platecheck_retries`: the README of the program promises one first-layer check
   and one retry per job (line 478). A retry that the check of one print scheduled
   stays due if the queue, full during that check, drops the reports that end the
   print and begin the next. The report that completes the first layer of the next
   print then runs the stale retry, the print's own check, and leads to a retry of
   its own. It takes 64 events within one check.

Seen on the way and not given a run, since each concerns a promise the code does
not state in so many words:

* A superseded preview worker that already passed its checks clears the `pending`
  of the newer one (`jobpreview/service.go:330`); the next trigger starts a
  second uncancelled worker beside it.
* The first image inspected for a print may be the frame the capture kept from
  before it (`detection/worker.go:237`): a session asks for a frame above 0. If
  it shows the failure of the last print, the new one can be paused for it.
* A plate check judges the live print when it sends, not the print it took its
  image of (`platecheck/service.go:346`): if a print ends and the next begins
  within the check, the verdict on the first can stop the second. The events of
  the end and of the new print wait in the queue meanwhile; they confirm that
  stop and reset the worker, and if the print runs on, its own check may stop it
  again. The two stops come from the reports of two prints, so `StopsOnce`, which
  counts a stop for the print whose report led to it, allows them; `CommandsFit`
  says what the code does ensure of the live printer. The repeat of a stop
  (`worker.resolve`) is sent without looking at the live document at all, so it
  can be as late as the queue is.
* A PAUSE or IDLE that was queued before a stop was sent counts as its
  confirmation. Where a full queue dropped the first report of a print, the
  worker goes on with the findings of the print before: the new one may then get
  no startup check, and no first-layer check after a stop of the old one.
* Panda Breath reports its link as connected while the last reading is fresh,
  although the connection may have been lost within those 15 seconds.
* The comment in `capture.release` that at most one idle timer can be pending is
  not quite true (a client resumed from waiting on a retirement can join a loop
  whose timer another client's release has armed); the generation check makes it
  harmless, as `GraceIsTheLast` shows.

## 6. Not modelled, and why

* The download of archives, FFmpeg and the camera wire protocols, YAML, JSON and
  HTTP plumbing, TLS certificates: parsing and I/O with no state that several
  goroutines share. Where they matter a model has their outcome.
* The projections of documents other than the problems: pure functions, covered
  by the unit tests.
* The chamber reading of an accessory in `Safety` (see there), the backup server
  and the counts of failures in `Detection`, the pages of the camera wall, the
  tools of the MCP server other than the camera call, the poll of Panda PWR, the
  sections of the configuration other than printers and plate check: each adds
  data or a single step, and no interleaving that the modules do not have.
* Wording of logs, activity entries and notifications.
* One composition is left to argument: the services of `MC_Services` share no
  variables, but in the program they meet in the store, the log and the links.
  What each relies on there is stated in its module: the store's status may be
  wrong (`Lose` and `LinkChanges` at any time), entries come in any order, and a
  command may be refused.
