# Verification of the Note4 platform

TLA+ models of the Note4 e-paper terminal and its Android companion: how a
reader's progress and a phone's updates are kept durable and synchronized over
an unreliable BLE link, how a phone is enrolled and the link followed, how
resources and pages are fetched, how books reach the device, what the panel, the
clock, the shell and the self test may do, and how a firmware update survives a
power cut. TLC checks every model on a small instance; for eighteen of them TLAPS
proves every safety invariant and action property their runs check, for every
value of the constants (section 5).

The models are written from the code. Each definition that stands for code is
listed in `PROJECT.json` under `map` with the lines it was read from.

## 1. The system

The firmware (`components/`, C++ on ESP-IDF/FreeRTOS) runs one application task
with the terminal, the application runtime and the display, a session task
inside `ConnectivityService`, the NimBLE host task and a Wi-Fi worker. The phone
(`android-companion/`, Kotlin) runs a GATT client, a durable queue and a
resource gateway. They talk in frames: durable updates with cumulative cursors
in both directions, and resource requests of the Note4.

### 1.1 Components

| Component | State it keeps | Operations | Talks to | Module |
|---|---|---|---|---|
| Durable sync engine (`note4_sync_engine.cc`) | per key: one outbox entry, one inbox entry, acknowledged and applied cursors; the record `comp_sync` in NVS | Initialize, Enqueue, AcceptUpdate, Acknowledge, ReconcilePeerCursors, Reset, restart of the device | storage below; session and owners above | `SyncEngine` |
| Sync session (`note4_sync_session.cc`) | status, the one frame in flight with attempts and retry deadline, one queued reply, last incoming frame, progress deadline | Start, Disconnect, Receive, Poll, Converged | the engine; the session task that calls it | `CompanionSync` |
| Phone durable queue (`DurableQueue.kt`) | a map of keys and one file replaced atomically | load, enqueue, acknowledge, accept, reconcile, save | the phone's session, progress and weather owners | `DurableQueue` |
| Phone session and GATT owner (`CompanionSyncSession.kt`, `BleGattClient.kt`) | the mirror of the sync session; connection phase | connect, Hello, HelloAck, poll, fail, close | the queue; the BLE link | `CompanionSync` |
| Session task and link (`note4_connectivity_service.cc`, `note4_ble_link.cc`) | under the link lock: session, state, two received frames, one of them possibly borrowed, the transmission; in the task: snapshots, authorization, negotiation | host callbacks connect, disconnect, access, transmit; task loop | NimBLE host task and session task share the link under a mutex and one event | `SessionOwner` |
| Packets and payloads (both ends) | transmitter and reassembler, MTU, write queue; fields and values | fragment, reassemble, reset, encode, decode | link below, frames above | `Frames`, `Codec` |
| Pairing, enrollment, identity (both sides, NFC) | tag, token, window, identity in RAM and NVS, sync record, bonds, enrolled flag | open, publish, tap, connect, hello, use once, expire, enroll, forget | NFC chip and its task, NVS, session task | `Pairing` |
| Resource client, connectivity policy | one request with backoffs, conditions | request, choose, send, answer, cancel, stop | session task, Wi-Fi, phone gateway | `ResourceClient` |
| Wi-Fi backend, driver, HTTP | burst phase; radio claim, events, DNS queries; stream, parser, body | start, poll, stop; event callbacks | resource client, book transfer, self test | `WifiBackend`, `WifiDriver`, `WifiHttp` |
| Phone resource gateway (`PhoneResourceGateway.kt`) | table of known requests, one worker | handle, fetch, answer again, evict | the Note4's request over sessions | `Gateway` |
| Boot guard and update service | OTA records, slots, the RTC watchdog, trial phase, write progress | Begin, Confirm, BeginFirmware, Write, Commit, Abort, power transition, reset | bootloader, health supervisor, terminal | `FirmwareUpdate` |
| Health supervisor | owner progress, failures, the runtime watchdog | Start, CommitFrame, DisarmForPowerTransition | boot guard, runtime | `FirmwareUpdate`, `AppShell` |
| Application runtime, launcher | foreground application, what it asked for, fallback, failsafe | enter, leave, step, render, recover, open | display, health | `AppShell` |
| Display service, EPD driver | dirty viewports, layout, partial-refresh baseline, panel | Present, Rotate, lock screen, gray picture, retry | UI engine, SPI | `Display` |
| Edge page | settings, wake schedule, page cache, cover | wake, download, cache, show, plan | resource client, clock, NVS, deep sleep | `EdgePage` |
| Book storage, USB host, book transfer | files on the partition, one lease, one upload; the host session; the HTTP server | upload, rename, read, remove; hello, request, answer; start, serve, stop | USB tool, browser on the phone, reader | `BookStore`, `HostBooks`, `BookTransfer` |
| Time service | calendar in the RTC chip, offset in NVS, sync status | initialize, set, apply a sample, persist | HTTPS and phone samples | `TimeKeeping` |
| Self test | what a test has borrowed, the player task | start, step, pages and buttons, end | radio, codec, RTC, LED, NFC tag | `SelfTest` |
| Maintenance console | line session, one request slot, confirmations | type, run, confirm, interrupt, time out, shut down | USB task and foreground | `Maintenance` |
| Reader bookmarks, phone progress and weather | committed revision | Save, Sync | engine, queue | in `CompanionSync` |
| Reader, service registry, micro apps, board/input/power/log drivers, phone screens, tools | | | | not modelled (section 7) |

### 1.2 What is hard, and what makes it correct

*Durability with a dishonest store.* A save may fail and still be on flash
(`SetBlob` succeeded, `Commit` answered an error; `rename` succeeded, the
directory sync failed). Memory rolls back, the store does not, and the next boot
shows the other of the two. What was reported must survive, and a revision must
never name two values.

*A replay window kept by two parties.* A sender retires an update when its ACK
arrives; a receiver that lost its record can never get it again. So a retired
revision must be durable at the receiver, and the receiver must never be ahead
of what its sender knows, through lost, stale and repeated frames, coalesced
updates and restarts of both.

*One task following a link that changes behind its back.* The session task
looks at the link, leaves the lock, works, and looks again. A disconnect and a
reconnect fit between any two of its steps.

*Two records that mean something together.* The calendar is local and its
offset elsewhere; the tag carries a token and the device the window that honours
it; a staging file becomes a book by a rename. Every write may fail, and power
may go between any two.

*A picture nobody can read back.* A partial refresh is right only where the
panel still shows what the driver remembers, across driver errors, rotation and
layouts.

*Things that are lent.* The radio, the codec, the book store, a received frame:
whoever takes one gives it back on every path out, also the one where stopping
fails.

*Power cuts during an update.* No cut may leave the device with an image that
is half written and selected, and an image on trial must either show its Home
page or be replaced.

*Liveness.* After the last fault both sides have to converge, or the phone
never shows READY and no resource is ever requested. A Hello must not be slept
on. A trial, a test, a launch, a transfer has to end.

The full list of hazards, each at its line with the properties that cover it or
the reason why none does yet, is in `PROJECT.json` under `hazards`.

## 2. Modules

| Module | Models | State and actions against the code |
|---|---|---|
| `SyncState` | what both engines share | The per-key record (`pend`/`pval` outbox, `irev`/`ival` inbox, `ack`, `app`) and the decisions of Enqueue, AcceptUpdate, Acknowledge and ReconcilePeerCursors as operators on one such record |
| `SyncEngine` | `DurableSyncEngine` over NVS | `mem` is the volatile state, `disk` the record, `open`/`recovered` the engine's phase. One action per entry point; every one that saves has a successful outcome and a failing one that may or may not have landed. `Restart` loads through LoadState's cross checks and the version 1 migration |
| `DurableQueue` | `DurableQueue.kt` | `entries`, `file`, `loaded`; same structure, with the differences of the Kotlin code (slots, the reconcile rule, a load error that is final) |
| `DurableTransfer` | the promise of one direction | An abstract register per key: the newest offer, what was retired, what was applied. `Offers`, `Applies`, `Retires` and the catch-up a handshake performs |
| `CompanionSync` | both sessions, both engines, both owners and the link | `mem`, `disk` per side, `sess` the session, `air` the frames on their way, `owner` the reader's committed snapshot. Start/Receive/Poll of each session are one action per branch; environment: loss, link drop, restart, failed save, forgetting the peer |
| `SessionOwner` | `SessionTask` and `BleLink` | Callbacks take effect under the link lock and then give the event in a second step; the task is a sequence of the places where it releases the lock (`pc`) |
| `Frames` | fragments and reassembly at both ends | Transmitter and reassembler of `BleLink`, write queue and reassembler of `BleGattClient`, packets between them that the stack may drop or cut |
| `Codec` | encoders and decoders of both ends | A payload is fields over bytes of `Base` values; it starts as something an encoder wrote and is then edited |
| `Pairing` | enrollment | The tag and its field, the token, the window, the hello with its proof, the identity in RAM and NVS, forgetting in three writes, the phone's hand-off; power cuts between all of them, and saves and erasures that fail with or without effect |
| `ResourceClient` | `ResourceClient`, `ConnectivityPolicy` and the service around them | `client` and `wifi` are the two objects; `policy`, `powered`, `credentials` the conditions; the session task is at the loop top, before its frames, or in the shutdown tail (`pc`). `Polls` is `ResourceClient::Poll` as a composition of its steps in code order |
| `WifiBackend`, `WifiDriver`, `WifiHttp` | one burst; the radio under it; the reply in it | The backend as operators on its record over any answer of its driver; the driver's claim, events and queries against the tasks of the libraries; the client and response reader over a stream that is sliced or closed anywhere. An interface is known by its place in the heap, as the code compares pointers: a new one may be where a destroyed one was, while an event that names it is still in the loop |
| `Gateway` | the phone as a fetcher | The Note4's request, the gateway's table and worker, cached and repeated answers over sessions |
| `FirmwareUpdate` | boot guard, update service, backends, watchdog | Flash (`image`, `ota`, `latest`) survives `Reset`, everything else does not; one action per call of the application task |
| `AppShell` | runtime, launcher, recovery | One turn of the shell loop is one action; applications may fail in any callback |
| `Display` | UI engine's viewports, display service, panel driver | A call is one action over every place where the driver checks the hardware |
| `EdgePage` | the remote lock-screen page | Wake, plan, burst, cache and cover over deep sleep, quiet hours, clock jumps, failed saves and reads. The panel's refresh takes time: the page may end during it, and the wake is planned from a second reading of file and clock that may fail |
| `TimeKeeping` | time service | Every register write and every settings write is a step that may fail with or without effect |
| `SelfTest` | the borrowing tests | Pages and buttons against polls, the player task and the session task that publishes on the same tag; a call that gives something back may fail, with or without effect, also where the code does not look |
| `Maintenance` | the console | USB task and foreground share one slot; interrupts, timeouts, a pulled cable and the shutdown cross them, and the owner may answer an error for a change it made |
| `BookStore` | `BookStorage` and its handles | Operators: each call as the set of its outcomes. A rename or removal that failed may have taken effect: its status is `late`, which every caller treats as the I/O error it is and only the properties tell apart |
| `HostBooks` | books over the cable | The tool's client, the line, the protocol, the channel, `BookSession` on the store, cancelled from the page at any moment |
| `BookTransfer` | books over Wi-Fi | The owner's polls, the server's handler task, `BookWebApi` on the store, the phone's client, on a clock that wraps |
| `*Proofs` | | Theorems and TLAPS proofs (section 5) |
| `MC*` | | The instances TLC checks |

The comment that opens a module says what it leaves out. Two conventions hold
everywhere: a call the code makes under one lock, or within one task with nobody
else looking, is one action with every change it makes; and a write to flash,
NVS, a chip or a file has an outcome of its own, success, failure without effect,
or failure with effect, where the code cannot tell the last two apart. One instance
narrows that on purpose: the clock of `device` has a settings store whose failed
write wrote nothing (`FailedSaves`), since the other case is the finding
`clock_untrue`.

`CompanionSync` composes: it instantiates `SyncEngine` on the Note4's part of the
state and `DurableQueue` on the phone's, uses their operators for every decision
about a key, and has as properties that each of its steps is a step of those
modules (`StoresOnly`) and that each direction implements `DurableTransfer`
(`IsTransfer`). `ResourceClient` is built on `WifiBackend`, `HostBooks` and
`BookTransfer` on `BookStore`.

Abstractions of the core modules, named:

- values are model values; frames are records of the fields the receiver
  branches on. Their bytes and packets are the subject of `Codec` and `Frames`,
  and nowhere else;
- in `CompanionSync` clocks are left out: a timer may fire whenever it is armed,
  so every order of timeout and answer is there; `Prompt` restricts that
  (section 4). The link delivers in order, as GATT writes and notifications do;
  frames are lost individually, and all together when it drops;
- in `SessionOwner` a frame is transmitted in one step, and resource traffic,
  advertising and the passkey dialogue are absent;
- in `ResourceClient` time is what is left until an instant, and `Tick` is one unit
  of it. Deadlines end at 0, since the task wakes for them and compares them long
  before half the range of the clock; the two backoffs are never cleared in the
  code, so they alone go round with the clock (`Span`). Result codes are what a
  retry depends on (transient or final), the four phases from association to TLS
  are one, and request size and urgency are absent because no request of the
  service is larger than the phone may carry nor is the phone ever merely present.
  The radio arbiter, which delays sync during a burst, and book transfers, which
  refuse requests, are left out;
- in `FirmwareUpdate` an image is `Chunks` writes, and an image flash loses
  later is one that no longer verifies. The bootloader's choice is ESP-IDF's
  and is modelled from how the code relies on it.

## 3. Runs

Four modules put components that do not interact into one run: `MCStores`,
`MCLink`, `MCDevice` and `MCLeases`. A variable `part`, chosen in the
initial state, names the one that moves; the variables of the others stay
`Resting`. The states of the parts add up instead of multiplying, each part is
checked exactly as it would be alone, and a property of a part is its component's
own definition under `part = ...`. The component a module EXTENDS keeps its own
names, so the theorems about it state the very property the run checks. The other
components that are proved about have their constants declared in that module
too, with what is assumed of them, so a theorem is about the very definition and
specification the run checks, for any values of those constants.
`MCSync` uses the same device for two settings of one system.

| Run | Question | Bounds and why they are enough |
|---|---|---|
| `stores` (`MCStores`) | Does what was reported stay, and does what was sent arrive as it was meant? | engine: 2 keys over 1 slot, so that the second key meets a full store; 2 values, so that one revision could get two; 2 revisions, so that an update is replaced while its ACK is late. page: days of three units, two of them quiet, so that a time more than a day ahead comes within the day before the quiet hours end; an interval and pages of two units, 2 sources, 1 failure, at most one unit of time during a refresh. frames: three packets or two by the MTU, ids that wrap after two, a queue of one, 2 connections, 2 failures. codec: bytes of four values, so that words and longs wrap, 2 edits. wifi: 2 drivers, one query in memory, 2 sessions, 2 places for an interface so that the second session may or may not have the first one's; the library posts by itself into an empty loop only (`MaxEvents = 1`), but the events of start and stop are always posted, so what the first session left meets the second |
| `sync` (`MCSync`) | Two sides, updates both ways: is retired durable, do cursors always reconcile, does convergence mean agreement, which bytes arrive, does each session use its engine legally? | one key (keys only meet at the slot limit, which `stores` covers), 2 attempts, 2 frames in flight. Setting "faults": one update per side, all alike, 2 faults (a loss and a restart, a failed save and a drop), the Note4 may forget its phone. Setting "values": 2 values, two updates by the reader and one by the phone (coalescing, a conflicting replay and an old retry need two), 1 fault |
| `resource_client` (`MCResourceClient`) | A request against link, policy, power and shutdown | 1 request, 2 connections so that an answer of the first may meet the second, delays of one and two units so that one path waits longer than the other; every timeout is one unit, so that all of them may come before, with and after what they limit. A backoff that was reached is over (`ClockWraps = FALSE`) |
| `link` (`MCLink`) | Who may talk to the Note4, and is a queued update, a reply or an image still what it was? | pairing: 2 phones, 2 tokens, 2 taps, 1 failure or power cut, forgotten once. console: one command that looks and one that changes, 2 tickets, 1 confirmation, every timeout one unit. queue: 2 keys, 2 slots, 2 revisions, map full and not full. http: a body of up to 3 in a buffer of 2 with a budget of 3 per poll. panel: 2 images, gray and torn |
| `device` (`MCDevice`) | Does the device end what it begins by itself? | firmware: 2 chunks so that a cut falls inside an image, 1 image lost later so that the bootloader falls back. shell: the launcher and one application that may break, 3 failures as in the code. test: two tries and two rounds, 1 failure. clock: times and offsets such that no two pairs name the same instant, one step HTTPS may make and one it may not. gateway: 2 requests over a table of one, one lost session. pairing: one phone before the tag. peers: one update by each side, 3 attempts as in the code, 2 faults, with `Prompt` and fairness |
| `leases` (`MCLeases`) | Does what is lent come back, with what happened to it truly told? | owner: queue of 2 as in the code, 3 connections so that two end unnoticed, 2 durable frames. host: one book of two chunks, 2 sessions, a line of one frame each way. transfer: one book of one chunk, 1 failing stop, a clock of eight ticks started at six, so that it wraps during the transfer, sessions of two and polls late by one |
| `sync_reset` | Does the documented reset recover a cursor mismatch? Violated, section 6 | one update by each side, 3 attempts, 2 faults, with `ForgetPeer` |
| `session_negotiated` | Does an accepted Hello stay accepted? Violated, section 6 | as the owner in `leases` |
| `resource_backoff` | Is a backoff bounded? Violated, section 6 | as `resource_client`, on a clock of 6 units that goes round |
| `clock_untrue` | Is the clock a time somebody set? Violated, section 6 | as the clock in `device`, with a failed save that was written |
| `console_cancel` (`MCLink`) | Does an interrupt own up to a change that was made? Violated, section 6 | the console of `link`, the other parts at their smallest |
| `page_expired` (`MCStores`) | Does a page leave the panel when it ends? Violated, section 6 | the page of `stores` with one source and page and no failure |

Every property has a seeded fault (`mutants`): a plausible slip in one mapped
definition under which its run fails. The definitions stand beside the code they
change, under *Seeded faults* in each module.

`CHECK_DEADLOCK FALSE` is set where the bounds let the system come to rest: all
updates, faults, connections or requests used up. `resource_client` has no such
state and is checked for deadlock.

Symmetry is used (for keys, values, sources, images, phones) only in runs without
liveness properties; `resource_client`, `device` and `leases` use none. In `link` one
symmetry permutes phones, values and images at once: only one part moves, and no
other looks at them.

### What the properties say

- *Stores.* `StoreSound`, `QueueSound`: what was saved loads again, the store
  covers what memory shows, and a pending value can always record its ACK.
  `NothingTakenBack`, `QueueTakesNothingBack`: over any steps, restarts included,
  cursors only grow, a pending update leaves only when superseded or
  acknowledged, and a revision keeps its bytes.
- *Both sides.* `PeersAgree` joins the two ends of the replay window (retired is
  durable at the peer, applied is known to the sender, over memory and store of
  both), that undamaged stores always reconcile, that READY means equal, and that
  two active sessions agree even after one side was erased. `BytesAgree`: one
  revision, one value, on both sides and on the way. `StoresOnly`: every step is
  a legal one of the engines. `IsTransfer`: each direction is the abstract
  register. `Delivered`, `EventuallyConverged`.
- *Packets, payloads, replies.* `FramesArrive`: either end acts on whole frames
  of this session, in order and once. `SameMeaning`: both ends read the same
  fields and values, or both refuse. `ReplyIsWhole`: a reply that counts is whole
  and a plain 200, and a clock sample is its own Date's.
- *Session task.* `OwnerSound`: a borrowed frame stays, a Hello authorizes its own
  session only, durable traffic follows the HelloAck, no wakeup is lost.
- *Pairing.* `EnrollmentSound`: a window is open only for what the tag says, a
  token enrolls once, an answer tells the phone what was saved, and an authorized
  phone is the saved one, with a sync record of its own or of nobody, unless the
  store lost an identity that nobody forgot: an erasure that landed and answered an
  error, or a start that could not read it.
- *Resource client.* `ClientSound`: the client waits for a burst exactly while
  there is one or its outcome, and a station runs only inside a burst unless it
  could not be stopped. `PolicyIsStrict`: what starts is allowed at that moment,
  not when it was chosen. `AnsweredByPhoneAsked`: an answer counts only over the
  live connection its request went out on. `ShutdownEnds`: the tail ends with the
  request over and the station down or given up. `AnswersAreOwn`: the same from
  the phone's end, and one fetch per request that is remembered. `RadioSound`:
  one owner of the radio, memory of a query outlives its callback, and an address is
  the session's own lease, or comes from an event left in the loop that names an
  interface which was at the same place.
- *Update.* `SelectedNeverPartial`, `TrialProtected`, `ConfirmedByItsHome`.
- *The device alone.* `PanelSound`, `PresentedIsShown`: what counts as shown is
  on the glass, and a partial refresh starts from it. `PageSound`, `PageForward`:
  a sleeping device shows a page of its present source and wakes by the end of it,
  unless that could not be known when the wake was planned (the file was not read,
  or the page had just ended); it wakes neither in a loop
  nor too late. `OneOwner`, `NoAutomaticAfterError`, `BrokenLeaves`.
  `TestGivesBack`: between rounds nothing is borrowed, except what the call that
  gives it back failed to stop. `ClockIsTrue`. `ConsoleSound`, `ConfirmedOnly`: an
  answer says what became of the command, and nothing changes without its own
  confirmation. Two interrupts are apart, which may be told `cancelled` of a change
  that was made: during a shutdown (`console_cancel`), and after the owner answered
  an error for a change that landed.
- *Books.* `BooksSound`, `TransferSound`: a book under its name is whole, an
  outcome says what happened to an upload or a removal, work on the store needs the
  lease. Apart is the one outcome the store itself gets wrong, an I/O error for a
  rename or removal that landed (`late`). `IdleIsReal`: a transfer stopped as idle
  was idle, also over the wrap.
- *Endings.* `NothingHangs`: a trial, a launch, a test, a save of the time and a
  request to the phone end without anybody's help, and a tag out of the field
  comes to hold a live token. `RequestsEnd`: a request over the cable is answered
  or cancelled, a transfer ends with radio and lease given back, a Hello is taken.

## 4. Fairness

All of it is weak fairness of steps somebody in the code takes in a loop; no
property assumes that a user, a phone, a server or a driver acts.

- `CompanionSync`: each step of a session, since both owners poll it in a loop and
  GATT callbacks deliver frames; `Connect`, since `CompanionConnectionManager`
  reconnects after a disconnect or a timeout (up to five automatic failures in a
  row; the bound on faults stays below it), and a rejected Hello or a store error
  is followed by the user or the presence service; `ReaderPublishes`, since the
  reader's `Sync` is called again until it succeeds. Loss, drops, failed saves
  and restarts are finitely many, and nobody forgets the phone. With `Prompt` a
  retry fires only if no answer is on its way: without it, a session could time
  out for ever against a peer that answers every time, which no schedule of the
  real clocks (1 s retry against a round trip) does.
- `SessionOwner`: the task, the callback's `GiveEvent` after it released the lock,
  and the host's transmission.
- `ResourceClient`: the task's own steps, which wait for nobody (the tail sleeps
  20 ms between polls), and time.
- `FirmwareUpdate`: `TrialExpires` only, an armed RTC watchdog that nobody feeds.
- `AppShell`: `Start`, and the loop without input. `SelfTest`: a running test
  polls, and the player task ends. `TimeKeeping`: the loop, and time.
- `Gateway`: the session task, the worker, the end of a fetch (the phone's HTTP
  client has a timeout) and a reconnect.
- `Pairing`: the session task and the field task go on, and a retry that was armed
  comes due.
- `HostBooks`: the USB worker's tick and the foreground's idle step.
  `BookTransfer`: the session task, the handler task (a connection that was cut is
  noticed) and time.

## 5. Proofs

TLAPS proves, for any keys, values, revisions, capacity, chunks, timeouts, delays,
phones, tokens, connections, images, drivers, times, requests, applications,
commands, days, quiet hours, books, uploads, clocks, faults and frames in flight:

| Module | Theorem | States |
|---|---|---|
| `StoresProofs` | `EngineTypes`, `EngineStoreSound`, `EngineNeverTakesBack` | types, `StoreSound`, `NothingTakenBack` |
| | `RadioAlwaysSound` | `RadioSound` |
| | `PageAlwaysSound`, `PageGoesForward` | `PageSound`, `PageForward` |
| `KeptProofs` | `QueueAlwaysSound`, `QueueNeverTakesBack` | `QueueSound`, `QueueTakesNothingBack` |
| | `PanelAlwaysSound`, `PanelShowsPresented` | `PanelSound`, `PresentedIsShown` |
| `DurableTransferProofs` | `TransferInvariant`, `TransferInOrder` | what the abstract register promises |
| `CompanionSyncProofs` | `AlwaysFull`, `AlwaysBound`, `PeersAlwaysAgree`, `BytesAlwaysAgree`, `StoresChangeByTheirEngines`, `ImplementsTransfer` | the inductive invariants, `PeersAgree`, `BytesAgree`, `StoresOnly`, `IsTransfer` |
| `LeasesProofs` | `OwnerInvariant`, `OwnerAlwaysSound` | the inductive invariant, `OwnerSound` |
| | `WebInvariant`, `TransferAlwaysSound`, `IdleIsAlwaysReal` | the inductive invariant, `TransferSound`, `IdleIsReal` |
| | `HostInvariant`, `BooksAlwaysSound` | the inductive invariant, `BooksSound` |
| `LinkProofs` | `EnrollmentInvariant`, `EnrollmentTypes`, `EnrollmentAlwaysSound` | the inductive invariant, types, `EnrollmentSound` |
| | `ConsoleTellsTheTruth`, `ChangesAreConfirmed` | `ConsoleSound`, `ConfirmedOnly` |
| `ResourceClientProofs` | `ClientIsSound`, `ClientPolicyIsStrict`, `ClientAnsweredByPhoneAsked` | `ClientSound`, `PolicyIsStrict`, `AnsweredByPhoneAsked` |
| `DeviceProofs` | `UpdateSelectedNeverPartial`, `UpdateTrialProtected`, `UpdateConfirmedByItsHome` | the properties of the same names |
| | `TestAlwaysGivesBack` | `TestGivesBack` |
| | `ClockAlwaysTrue` | `ClockIsTrue` |
| | `GateAnswersAreOwn` | `AnswersAreOwn` |
| | `ShellHasOneOwner`, `ShellStaysManualAfterError` | `OneOwner`, `NoAutomaticAfterError` |

Each is the usual three steps, `Init => IInv`, `IInv /\ [Next]_vars => IInv'` with one
step per action, `IInv =>` the property, combined by temporal reasoning. The
invariants, and why smaller ones are not inductive:

- *Engine.* A failed save that landed leaves the store ahead of memory, so a
  restart shows the record and not what memory was rolled back to: memory is only
  as sound as the record (`RecordLoads`), and the record only as good as the
  memory it was written from (`Sound`, the lemma every operation is checked
  against once). The action properties follow because every operation moves to a
  state that covers the one before (`Covers`), and `Restart` to a record that
  covers memory (`SavedBeforeReported`).
- *Queue.* The same argument over the map and the file, with one lemma for
  `write()` and one per call for "covers the map before".
- *Register.* Retired is applied, applied is retired or on offer, an offer applied
  already has the bytes of the offer: inductive together.
- *Both sides.* `FullInv` has eight parts. `StoresInv` (memory never behind its
  record), so that a restart goes back to something the peer can live with.
  `WindowInv` (retired here is applied there, stored there is known here), which
  an ACK keeps only if it is for something applied (`AcksInv`) and an update only
  if its sender knows it (`StatesInv`). `OneValueInv` (a revision has one value
  wherever it is found), which a new revision keeps only if it was carried by
  nobody (`OwnerInv`). `HandshakeInv` and `CursorInv`: a greeting travels alone, so
  the cursors in it are still its sender's when they arrive. The window of two
  stores is lost when the Note4 forgets the phone, so those parts are conditional
  on `~forgot`; what holds afterwards is `BoundInv`: a handshake compares the
  cursors anew and no frame from before it is taken. Each action is first shown
  to be one of a few kinds of step, and the parts are preserved by the kinds.
- *The engines' part in it* (`StoresOnly`). `RoomInv`: no store lists more keys
  than it has slots, since a session only moves a store by its engine's
  operators, each of which counts slots before it takes one. Hence every reload
  is one `LoadState` or `load()` accepts, every change of a store is a step of
  `SyncEngine` or `DurableQueue` with the same outcome of the save, and only
  forgetting the phone is none.
- *Refinement* (`IsTransfer`). A step of the pair moves the register of each
  direction by an offer, an application, a retirement or the catch-up of a
  handshake, or not at all; `FullInv` says that a retirement is of something
  applied and an application is of the offer.
- *Session task.* `PhaseInv` (what the task holds at each `pc`), `BornInv` (no
  number of a later connection is anywhere, and what carries the live one came
  from a phone that spoke in it), `SeenInv` (what the task saw last is true, or an
  event is given or owed).
- *Pairing.* A window matches the tag because only a published token opens one
  (`TagInv`); a token is used once because the device never keeps a used one
  (`TokenInv`); an answer says what was saved because an identity in RAM is the one in NVS, or
  one that NVS lost with an error, the sync record is that phone's or one's whose
  identity was lost, and only the connected phone is authorized (`IdentityInv`);
  until something is forgotten or lost an identity is never replaced
  (`EnrolledInv`). A save may land and answer an error: then NVS has the identity
  and RAM has none, which keeps the invariant because nobody was told so: the next
  start takes it up, or the next enrollment writes over it.
- *Resource client.* One call of `Poll` changes the client and the backend in
  turn, so the invariant (`Paired`) is stated on a pair of them and carried
  through each step of the call by one lemma: the backend is sound, the client
  waits exactly while a burst runs or its outcome is held, and a cancelled request
  is one whose burst has at most its station left to stop. The last part is what
  makes it inductive: the policy that cancelled may be changed back before the
  burst has ended, and nothing but that mark then keeps the request from being
  answered or sent again. `AnsweredByPhoneAsked` needs besides that a frame taken
  in the step is the only one that leaves the air in it.
- *Update.* `Chain` (neither the running image, nor the selected one, nor the one
  selected once every trial is given up is half written), `OneTrial` (a record on
  trial is the newest one), `Writer` (an image is open only beside a known-good
  one that the next boot would choose too, and in the other slot), `Protection`
  (the trial's watchdog is given up only on a known-good image).
- *Panel.* `PanelInv` says what each flag of the display service may be trusted
  for: while the driver calls its baseline valid the glass shows it (`Knows`), a
  viewport lies in the layout that is laid out (`InLayout`), what the driver keeps
  of a strip is drawn (`StripDrawn`), and what is neither dirty nor owed a refresh
  is on the glass (`NothingStale`). The last is kept by a partial refresh only
  because of the first.
- *Radio.* `WifiInv`: a claim is of one object and comes before anything that
  object starts; the references of a query are one for each party that may still
  touch it; an object with an address, or one the loop still holds an address for,
  is in a session that leased it or whose interface is where an ended one was
  (`Leased`): the code's test of the pointer keeps all other events of an ended
  session out. Releasing an object is safe only because all three hold of the parts
  that outlive it.
- *Self test.* `TestInv`: for every step of every test, what may be out
  (`Borrowed`), and that each way out of the step gives it back (`Returned`) or has
  had an error for it: what may be left `stuck` is only what a failed call was for.
- *Clock.* `ClockInv`: wherever the chip's calendar can be read, it and the stored
  offset together name a time that was given. They are written one after the
  other, so the invariant says besides that the chip is stopped from before the
  first write until after the second.
- *Gateway.* `GateInv`: whatever carries the present sequence number belongs to
  the present request (`Owns`), ids in the table and among the fetches are
  distinct (`Distinct`), and fetches match the entries in flight one to one, in id
  and request (`Matched`). An eviction keeps it because it looks for the oldest
  entry that is not in flight; that a least one exists is the one induction here,
  over the well-founded order of the naturals.
- *Shell.* Inside a turn everything a callback may do keeps `Kept`: a foreground
  exactly while active, everything that was asked is its own, and where automatic
  launches were suppressed when the turn began they still are and nothing opened
  by itself. A lemma per call of the runtime carries it through enter, exit,
  fallback and failsafe. A burst of inputs is a recursive function, and the lemma
  about it takes the least number of inputs that would break it. Between turns
  `ShellInv` adds that an error suppresses, which `Complete` restores: that is what
  the next turn relies on.

- *Console.* Three invariants of its two tasks. `HistoryInv`: the executor waits for
  the latest request or for none, the owner executes that one, until then nothing
  is changed, an error for a change that was made is remembered as such, and what
  was told is final: the slot is empty, or the owner is still
  at work on a request that was given up, and then it was not said to be undone.
  `LineInv`: an outage that may have been missed is latched until the session is
  reset, so that whatever line or input there is was typed in the connection that
  is there; frames come only while the session is binary, which drops its input.
  `PromptInv`: a confirmation that still counts answers the prompt shown last.
  Each step is first shown to be one of a few kinds (`ConsoleSteps`): nothing, a
  cancellation, a command, or a step of the owner or the clock.
- *Edge page.* `PageInv` has one part per promise. A cached page of the present
  generation is of the present source (`SourceInv`), since a new source is a new
  generation and what a burst brings is of the source it was begun for
  (`BurstInv`). The page on a covered panel is the one in the cache (`ShownInv`).
  Where the wake is planned from a page that was read and is still fresh, the plan
  cannot lie behind its end, and from then on both count down together; where it
  was not read, or had ended during the refresh, the device sleeps `blind` and the
  plan says nothing of the page. A device on its way to sleep has something that forbids a download at
  once or a time that is ahead, or it woke no more often than it misread its
  settings (`WakeInv`). The time waited and the time ahead (`Ahead`, which includes
  the quiet hours) stay together within the bound (`TimeInv`): a unit of sleep
  takes one from the second and adds it to the first, which needs the arithmetic
  of quiet hours that go round the day (`PausesTicks`).
- *Books over Wi-Fi.* `Lent`: the server is up only within a session, a session has
  the lease, an upload or a reader is some handler's. `Honest`: what was never begun
  is nowhere, and the request of an upload the phone has an answer to is over;
  without the second part a late commit could belie a refusal. `InTime` measures
  every instant from the start of the session, which ends before the clock has gone
  round: `now` is at most `MaxLag` past the sample of the poll and the last activity
  is not after `now`. `Poll` takes an activity that is younger than its sample for
  none by the sign of a difference; the sign is right because a session, with the
  lateness of its polls on both ends, fits into the clock.
- *Books over the cable.* The property is about the two ends, the client's word and
  the file, and between them lie a script, two lines that cut and lose frames, the
  worker's slot and a session that may be restarted under the client. `HostInv`
  says where a request can be. `SlotInv` and `LineInv`: it is on the line, in the
  slot or with the session, at one of them, and a greeting is the first word of
  a session in which nothing happened yet. `WaitInv`: while the client waits, the
  session of the device is its own, whatever lives is its request, and an answer
  with its number means that nothing lives any more. Hence `SaveInv`, that a
  refusal is final: nobody is left who could still rename the upload or remove the
  book. What a command has done (`Done`, for a removal by a history variable, since a
  later upload may bring the book back) is told as ok, unknown or the store's own
  error, or is in an answer on its way. A session cancelled from the page clears
  what it holds whatever it was doing, and keeps the answer of a commit that has
  already been executed. A cancelled
  or timed out command whose commit may live is one the client calls unknown
  (`LiveInv`). `HandleInv`: upload and reader are the session's or the other
  holder's, a file read part by part cannot change meanwhile, and what is under a
  name is all chunks of one upload. Each action is first shown to be one of a few
  kinds of step (nothing born, an answer taken, a session cleared), and each kind
  to keep the parts.

The radio, the self test, the clock, the gateway, the shell, the console, the
edge page and both ways of the books are proved as parts of the module that runs them: the invariant is
`part = ... => ...Inv`, a step of another part leaves it alone.

Assumptions are only those on the constants: `SyncConstants`, `BoundsOK`,
`NoRecordIsNone` (the model value for "no value" is not an engine state),
`PairingConstants`, `BackendConstants`, `ClientConstants`, `UpdateConstants`,
`EngineConstants`, `WifiConstants` and `PageConstants` of `MCStores` (an interval is at most a
day, quiet hours lie in it), `QueueConstants` of `MCLink`,
`OwnerBounds`, `WebConstants` (a session with the lateness of its polls fits into the
clock: 15 minutes into 49 days; the pause after an upload is no longer than the idle
time) and `CableConstants` (no value is neither an upload nor a content; there is a
book) of `MCLeases`, `ConsoleConstants` of `MCLink` (a command either looks or
changes something, and is none of the words the console reserves), and in `MCDevice` `TestConstants`, `ClockConstants`,
`GateConstants` (sizes are naturals) and `ShellConstants` (no application has the
name that stands for none; a burst has at least one input). TLC evaluates each on
a run that extends its module. `StoreConstants` and `OwnerConstants`, hypotheses of
the theorems about the engine, the queue and the session task, are what
`EngineConstants`, `QueueConstants` and `OwnerBounds` say of those instances.

Only model-checked:

- liveness (`Delivered`, `EventuallyConverged`, `ShutdownEnds`, `NothingHangs`,
  `BrokenLeaves`, `RequestsEnd`): fairness and ENABLED are outside what the prover
  handles;
- `FramesArrive`, `SameMeaning`, `ReplyIsWhole`: what packets, fields and slices of
  a stream add up to is induction over data.

Every other property of a passing run is stated by a theorem.

## 6. Findings

- `sync_reset` / `ResetRecovers`. The contract names forgetting the peer as the
  recovery from a cursor mismatch. The Note4 clears its record; the phone keeps
  its queue file for the same address. From then on its acknowledged cursor is
  ahead of an empty engine and every Hello is refused the same way.
- `session_negotiated` / `StaysNegotiated`. When a reconnect falls between the two
  snapshots of a loop, the Hello of the new session is accepted and answered
  while `protocol_session_id` still names the old one, and the next loop resets
  what was just negotiated. The phone holds an accepted HelloAck of a session
  the Note4 no longer treats as negotiated.
- `resource_backoff` / `BackoffBounded`. `phone_backoff_` and `wifi_backoff_` are set
  by the first failure of a path and never cleared, and `Remaining` compares
  32-bit instants by their signed difference. 24.8 days after the last failure
  the path looks held back again, for up to as long.
- `clock_untrue` / `ClockWasSet`. `Persist` skips the offset when its copy in memory
  equals it. A save that answered an error and had reached the store leaves the
  two different; setting the old offset again then starts the calendar with the
  other one on record, and the next boot shows a time nobody set.

- `console_cancel` / `CancelCertain`. The contract of the console reports an
  interrupted change with no provable result as unknown. A shutdown turns a finished
  change's answer into unknown, and an interrupt that comes then takes only a
  running request or an ok for a change that may be made: the user sees `^C` alone
  for a change that was executed. `ConsoleSound` therefore leaves that case out.
- `page_expired` / `ExpiredPageLeaves`. The documentation says the local lock screen
  comes back when the cached page expires. The cover and the plan of the wake read
  clock and file separately, with a refresh of seconds between: a page that ends in
  between has no wake of its own and stays on the panel. `PageSound` leaves out
  those sleeps (`blind`).

Departures from a comment or a message of the code that are stated in a module, or
follow from it, without a run of their own:

- a record may be published on the tag while a phone is in the field, where
  `note4_enrollment_publisher.h:10` says outside it: the field task clears the edge
  before the session task has looked (`Pairing!PublishesOutsideField`).
  `EnrollmentSound` holds all the same;
- `note4_connectivity_service.cc:268` forgets durable state "before allowing a
  different identity". An erasure of the identity that landed and answered an error
  ends the forgetting there, and a start that could not read the identity has none:
  in both another phone may be enrolled over the old one's sync record
  (`Pairing!ForgetsBeforeAllowing`);
- the page of a Wi-Fi transfer says "The upload was not installed"
  (`note4_book_web.cc:36`), and the cable answers an I/O error, also for a rename
  that landed and then failed (`late` in `BookStore`).

Behaviour met while modelling that no document or comment we found speaks of:

- a failed MTU exchange leaves the previous packet capacity in force
  (`Frames`, `MtuFails`): the stack cuts those packets and the phone drops the frame;
- an address event of an ended session that is still in the loop counts for the next
  one when its interface was allocated at the same place (`WifiDriver!Ours`): the
  session then takes itself for connected before it has a lease;
- stopping the countdown of the real-time clock at the end of its test may fail, and
  nothing repeats it (`note4_self_test.cc:299, 304`): the countdown runs on;
- an owner that answers an error for a change it made lets an interrupt that comes
  before the console takes the answer say `cancelled` (`Maintenance`, `erred`);
- a page that cannot be read when the wake is planned stays on the panel like one
  that has ended (`EdgePage`, `blind`);
- an interval changed in the settings comes into force with the next planned wake
  (`EdgePage!IntervalInForce`);
- a stored time more than a day ahead counts as now (`note4_edge_settings.cc`,
  `PlanWake`), and now in quiet hours is their end: by then the same stored time
  may have come within the day and is waited for once more. Such a download is
  late by the interval, which is why `EdgePage!Punctual` excepts it; the proof
  attempt showed it, on days of four units;
- the NFC self test restores its backup of the tag over a record that was
  published meanwhile (`note4_self_test.cc:540`).

## 7. Not modelled, and the plan

Left out for good: the reader (pagination, ZIP and text decoding), drawing and
layout, fonts, the micro app interpreters, the drivers of board, input, power and
log, the Android screens, and tools: register access, presentation or data
algorithms without a protocol of their own. The service registry initializes and
stops a static table in order, sequentially.

Left out so far, and planned, in this order:

1. `Stop` and `ClearPeerBonds` against each other and against queued commands
   (`note4_connectivity_service.cc:1166`);
2. the bookmarks' 8 entries with `ApplyRemote` and `ResetPeer` under the engine, in
   place of the snapshot in `CompanionSync`;
3. `RadioArbiter`, between sync, bursts and book transfers;
4. the command replay cache of the engine.

Hazards without a property, with the reason, are in `PROJECT.json`.
