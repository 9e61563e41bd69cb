# mesh-client: TLA+ models of its outbox, resends, broadcasts, sidecar, reconnect and GATT sessions

mesh-client is an Electron desktop client for three mesh radio protocols
(Meshtastic, MeshCore, Reticulum). This directory holds TLA+ modules translated
from its source, the TLC configurations that check them on small instances and
proofs, checked by TLAPS, that hold for every value of the constants.

Eight parts of the program are modelled:

* the **durable chat outbox**: the promise made about a MAYDAY, a report, an
  incident acknowledgement or a scheduled message typed while the radio is away;
* the **automatic resend** of messages that failed: a countdown, and a bounded number
  of tries, while their rows are renamed and answered late;
* the **promise chains** that serialise everybody who sends text, and the lane
  they form when the outbox, broadcasts and the composer share one radio;
* the scheduler of **recurring broadcasts**: sent at their time, once, never late;
* the manager of the **Reticulum sidecar**: one child process, started, stopped,
  restarted and flushed by several callers;
* the **RF reconnect** of a Meshtastic radio over TCP: how a lost link comes back;
* the **scan lease** of the Bluetooth adapter, which LoRa and Reticulum share;
* the **GATT sessions** of the Rust sidecar: who owns which radio, through connects,
  lost links, retries, clients that give up and the recovery of a bond.

## 1. The system

| component | state | operations | how it meets the others |
|---|---|---|---|
| Chat outbox (`useChatOutbox.ts`, `chatOutboxDrain.ts`, `useEmergencyOutboxDrain.ts`, `scheduledSend.ts`) | SQLite table `chat_outbox`; per hook: rows, retry timer, `drainingRef`; module-level `drainLocks`, `sendAborts` | queue, retry, cancel, edit, drain, recover, quarantine, soft cap | IPC to the main process; the radio through `sendFn`; `awaitNetworkAck`; asked to drain by announces, reconnects, Incident Command |
| Text send pacing (`meshtasticTextSendPacing.ts`, `chatOutboxDrain.ts`) | two promise chains, time of the last text | ask for the drain lock, ask for a slot, send | the lock is shared by outbox passes and broadcasts, the slots by these and the composer |
| Scheduled broadcasts (`lib/scheduledBroadcasts/`, `scheduled-broadcast-handlers.ts`) | SQLite table, its copy in a zustand store, a timer and a safety interval, `running` and the flags it leaves | tick, claim, deliver, record, skip missed, Send now, edit, clear | every change of the store or of a setting calls `refresh`; power resume events; claims by compare-and-set; sends under the outbox's drain lock |
| Reticulum sidecar manager (`reticulum-sidecar-manager.ts`, watchdog) | child process, handle, token, health state, a shared start and a shared stop | start, ensure for BLE, stop, quit, restart, poll | HTTP to the Rust sidecar, IPC from the renderer, the GATT proxy, quitting |
| RF reconnect (`rfReconnectController.ts`, `loraRfReconnectAttempt.ts`, `useMeshtasticRuntime.ts`) | a controller and the refs of a runtime, each with a flag and a generation | link lost, attempt, connect, disconnect, suspend, resume | `ConnectionDriver`'s chain of opens and teardowns, the one TCP socket of the main process, power events |
| BLE scan lease (`ble-coexistence-coordinator.ts`) | owner and depth of the lease | acquire, release | LoRa's GATT handlers in the main process; Reticulum's picker, RSSI poll and bond recovery in the renderer |
| GATT sessions (`reticulum-sidecar/src/gatt/`) | addresses, owners, sessions, closing locks; the btleplug adapter and its slots | connect with reclaim, DELETE, event pump, pair and unpair, release and restore the adapter | HTTP requests of the main process's GATT proxy, each with a time limit of its own; CoreBluetooth, WinRT or BlueZ |
| Automatic resend (`useAutoResend.ts`, `autoResendController.ts`) | the rows it tracks, a countdown and a timer for each failed one | track, evaluate, resend, re-key, push out, cancel | hears every write of the message store; sends through the three protocols; announces and resends by hand get in its way |
| MQTT managers, MeshCore room login and repeater RPC queues, heartbeat watchdog | timers and queues of their own | see the plan | radios and brokers |
| Reticulum sidecar sessions (Rust) | rncp, RRC, rnsh, voice, games | link events | HTTP and SSE to the client |
| TAK, maps, AI, translation, GPS, updater, flasher, user interface, diagnostics | | | mostly I/O, formatting and views: not modelled |

`PROJECT.json` lists every component with its sources, also those that are not
modelled, and why.

What is hard in this code: the renderer is one event loop, so a function runs
alone until it awaits, but almost every function awaits an IPC, a radio or a
timer in the middle; two hooks work on the same table; React mounts and unmounts
one of them as the user changes tab; the radio may accept, reject or hang; an
IPC may fail; the process may die between any two steps; and times are compared
with a clock that moved on during the await.

What makes each component correct:

* *chat outbox*: no message lost, none sent by two drains at once, none sent
  again after delivery, a cancelled one stays gone, a blocked one stays blocked,
  a bounded number of automatic attempts, a retry never without a timer, a
  message only through the identity it was written for;
* *automatic resend*: a failed row that is tracked has its next resend coming; no
  message is resent more often than allowed, reported twice, or resent after its
  retry was cancelled;
* *pacing*: first come, first served, one send at a time, a gap between texts,
  and neither a failing send nor a missing acknowledgement stops the chain;
* *scheduled broadcasts*: an occurrence is sent or marked missed, once; what was
  missed while the program was off, asleep or switched off is not sent late; the
  store's copy agrees with the table; a timer is always set for the next slot;
* *sidecar manager*: at most one live child and its handle never lost, a status
  that is true, a flush before a quit, a stop that reaches its child, and no
  caller that waits for ever;
* *RF reconnect*: one cycle at a time, which ends; what was superseded never
  reports success; off stays off; no session, socket or flag left behind;
* *BLE scan lease*: LoRa keeps it for as long as one of its operations runs,
  whatever unmatched releases arrive, and Reticulum never leaves it behind;
* *GATT sessions*: a radio has one user, no address is held for nobody, a lost
  link is forgotten, and during a bond recovery the adapter stays down.

## 2. Modules

| module | models | from |
|---|---|---|
| `OutboxPolicy` | a row, and the rules that do not depend on who drains: eligibility, order, back-off, timer, failure, soft cap | `useChatOutbox.ts` 48-381, `scheduledSend.ts`, `chat:outbox:*` handlers of `main/index.ts` |
| `ChatOutbox` | one protocol's table, both drains, the lock, the user, the link, the clock, faults and crashes | `useChatOutbox.ts`, `chatOutboxDrain.ts`, `useEmergencyOutboxDrain.ts`, `App.tsx` |
| `MCChatOutbox` | the sequence-valued constants of the instances | |
| `ChatOutboxProofs` | lemmas about the rules, for every row and every list of delays; the inductive invariants and the theorems | |
| `AutoResend` | the controller over the message store, the sends and what the three protocols answer | `autoResendController.ts`, `useAutoResend.ts`, `messageStore.ts`, `resendFailedReticulumForDestination.ts`, the three runtimes |
| `AutoResendProofs` | its inductive invariants and theorems, for any numbers of rows, sends and resends | |
| `MCAutoResend` | bounds by protocol | |
| `FifoLock` | what a promise chain promises: a lock granted in order of arrival | comments of `chatOutboxDrain.ts`, `meshtasticTextSendPacing.ts` |
| `PromiseChain` | the chain itself: tail, predecessor, settling, clean-up; refined to `FifoLock` | `chatOutboxDrain.ts` |
| `PromiseChainProofs` | the refinement and mutual exclusion of one chain, for any number of calls | |
| `TextSendLane` | two instances of `PromiseChain`, the gap, the row watchdog and the SDK's write, with all their senders | `meshtasticTextSendPacing.ts`, `deliver.ts`, `useChatOutbox.ts`, `TransportManager.ts` |
| `TextSendLaneProofs` | the refinement of both chains as the lane drives them, and the gap, for any senders | |
| `MCTextSendLane` | a pass, a broadcast target and a live text | |
| `BroadcastRule` | recurrence as arithmetic, a slot's row, the compare-and-set of its due time | `recurrence.ts`, `scheduled-broadcast-handlers.ts` |
| `ScheduledBroadcasts` | scheduler, table, copy, user, power, clock, faults, crashes | `scheduler.ts`, `bootScheduler.ts`, `scheduledBroadcastsStore.ts`, the Broadcasts panel and editor, `AppPanel.tsx` (Clear All Local Data) |
| `ScheduledBroadcastsProofs` | two inductive invariants and the theorems, for any number of slots, rules and bounds | |
| `MCScheduledBroadcasts` | rules and stored tables of the instances | |
| `SidecarManager` | the manager, its callers, its children and its watchdog | `reticulum-sidecar-manager.ts`, `reticulumSidecarWatchdog.ts`, `reticulum-handlers.ts` |
| `SidecarManagerProofs` | the inductive invariant and the theorems, for any number of callers, children and commands | |
| `MCSidecarManager` | a page and the GATT proxy as callers | |
| `RfReconnect` | the reconnect machine of one radio over TCP, with the driver's chain and the main process's socket | `rfReconnectController.ts`, `loraRfReconnectAttempt.ts`, `useMeshtasticRuntime.ts`, `ConnectionDriver.ts`, `tcp-bridge.ts`, `connection.ts` |
| `RfReconnectProofs` | the inductive invariant and the theorems, for any numbers of tries, sessions, attempts, teardowns, calls and events | |
| `MCRfReconnect` | its instance | |
| `BleScanLease` | the lease and everybody who takes it | `ble-coexistence-coordinator.ts`, `gatt-sidecar-proxy.ts`, `useReticulumInterfaceDevicePicker.ts`, `useReticulumBleRnodeRssiMap.ts`, `reticulumBleAdapterLease.ts`, `useReticulumRuntime.ts` |
| `MCBleScanLease` | two operations, two scans, two recoveries | |
| `GattManager` | the session manager, its registry, the backend below it and the requests above it | `gatt/manager.rs`, `registry.rs`, `lazy_backend.rs`, `btleplug_backend.rs`, `isolated.rs`, `windows_pairing.rs`, `api/gatt.rs`, `gatt-sidecar-proxy.ts` |
| `BleProofs` | the inductive invariants and the theorems of the last two, for any number of peripherals, requests, operations and scans | |
| `MCGattManager` | the symmetry of its instances | |

### The outbox: state and actions

| variable | in the code |
|---|---|
| `db`, `nextId` | the rows of `chat_outbox` and its AUTOINCREMENT |
| `lock` | `drainLocks` of the protocol: the pass that runs, then those chained behind it |
| `pass[c]` | the local variables of a running `drainChatOutboxOnce`: its listing, the sorted rows left, `attempted`, the abort handle of `sendAborts` |
| `panel` | the mounted `useChatOutbox`: `drainingRef`, its timer, a `setTimeout(drainOnce, 0)`, a reload it was asked for, the rows its mount effect will reset |
| `queueing` | a `queue()` call between two awaits |
| `app` | `useEmergencyOutboxDrain`: `retryAtByProtocol` and a drain owed for a row just added |
| `online`, `identity`, `now` | `isSendAvailable`, the connected identity, `Date.now()` |
| `budget`, `hist` | bounds of the environment; history used only by properties |

One action is one block of the event loop that ends at an await. An IPC takes
effect when it is sent: the main process handles the requests of one renderer in
order, with synchronous SQLite calls. Between choosing its rows and starting the
first of them a pass does not await, so nothing else runs then (`"picked"`).

| action | code |
|---|---|
| `StartOffline`, `List`, `Recover`, `Filter`, `End` | `drainChatOutboxOnce`, with `recoverStuckSendingRows` and what each hook does when its pass returns (`Finish`) or rejects (`Reject`) |
| `Quarantine` | `quarantineLegacyMultipartOutboxRow` |
| `Pace`, `Mark`, `Call` | `withMeshtasticTextSendPacing`; `sendOneOutboxRow` up to `sendFn` |
| `Accept`, `Resolve`, `AckArrives`, `Fails` | what the radio and the network answer; `finalizeSuccessfulOutboxSend`, `recordOutboxSendFailure`, `withOutboxDrainRowTimeout` |
| `ExternalDrain`, `PanelTimer`, `PanelSoon`, `PanelReload`, `AppTimer`, `AppAsks` | everything that asks for a drain or arms a timer |
| `Queue`, `CapList`, `CapBlock`, `QueueDone` | `queue` with `enforceEmergencyOutboxSoftCap` |
| `Retry`, `Cancel`, `AppQueue` | the user's actions in ChatPanel and Incident Command |
| `Mount`, `MountReset`, `Unmount` | the effects of `useChatOutbox` |
| `GoOnline`, `GoOffline`, `SwitchIdentity`, `Tick`, `Crash` | the world |

### What is abstracted in the outbox

* The payload is the *kind* of message the rules tell apart.
* One protocol at a time: table rows, lock and hooks are per protocol.
* The rows a hook keeps for display are the table's.
* A closure's `isSendAvailable` is the current one.
* A send cut by the row watchdog is not aborted in the code and may still
  transmit; the model does not follow that late transmission.
* A multi-row recovery or reset is one step, and fails as a whole.
* The attempt counter saturates where no rule can tell two values apart.
* What Incident Command records when its acknowledgement was sent is left out,
  and so are the handlers' silent returns while the database is closed.
* Editing or rescheduling a scheduled row (and its group) is not modelled yet.
* A row cancelled while it waits its turn in a running pass is still sent once
  (the abort handle exists only while a row is being sent);
  `NeverSentAfterRemoval` exempts cancelled rows for that reason.

### The automatic resend: state and actions

| variable | in the code |
|---|---|
| `proto` | the protocol of the identity: a behaviour is about one |
| `msgs` | the identity's rows in the message store; `autos`, `of` and `quiet` are history |
| `tracked`, `order` | the Map of tracked outbound rows, with the order of its keys |
| `entries`, `timers` | the countdowns in the zustand store, and their `setTimeout`s |
| `told` | outcomes reported, by the message's first row |
| `sends` | sends under way: the row each is for, the id the transport gave it |
| `behind` | the sends that were under way when a countdown began |
| `nextId`, `user` | ids used; clicks and announces so far |

| action | code |
|---|---|
| `Compose`, `ResendByHand`, `Announce` | a message typed, Resend on a bubble, `resendFailedReticulumForDestination` |
| `FireDrops`, `CannotStart`, `FireAnew`, `FireAgain` | `fireResend`: superseded, no send, a row of its own, the same row again |
| `CancelAutoResend` | the button on the countdown |
| `DeviceAcks`, `RoutingError`, `SendFails` | Meshtastic's promise and routing errors; a refusal or an overrun of any protocol |
| `CompanionAccepts`, `Status`, `Silence` | MeshCore's companion, ACKs and hop timers; Reticulum's `lxmf_outbound_status` |
| `Echo`, `Reply`, `Revived`, `LinkTimesOut` | the sidecar's copy of a message, its reply, a propagation node, a link that died |

Each write of the store is evaluated before the controller hears of the row
itself, as its subscriptions are called (`Write`, `Evaluate`, `Add`, `Rename`).
Abstracted: one identity; which failed messages are eligible for a resend; the
texts. A countdown lasts 15 s and Reticulum's deadline for a send is no longer
than that, so a timer fires after the sends that were under way when it began
(`behind`).

### The broadcasts: state and actions

| variable | in the code |
|---|---|
| `db`, `slots` | table `scheduled_broadcasts`; `useScheduledBroadcastsStore` |
| `master` | the `scheduledBroadcastsEnabled` setting |
| `sch` | the scheduler's variables: `started`, the two timers, `running`, `tickPending`, `reconcilePending`, `resumeEpoch`, `lastEnabled`; `subscribed` for the listeners of `bootScheduler.ts` |
| `replies` | IPC replies on their way to the renderer, each with what the awaiting function holds: its row, its run (`tick` or `sendNow`) or its pass (`normalizeSlots`) |
| `deliveries` | `deliverScheduledBroadcast` calls that have not returned |
| `power`, `up`, `user`, `now`, `budget` | the computer, the renderer, the panel's pending request, the clock, the bound on events |
| `hist` | what each occurrence was claimed for (`fate`), the occurrences that had to be skipped (`skip`), the rows edited behind somebody's back (`skewed`) |

The functions of the scheduler call each other inside one block of the event
loop (a reply changes the store, which calls `refresh`, which may start a pass),
so they are operators from the machine's state to its next one (`Arm`, `Refresh`,
`Normalize`, `Fire`, `FinishRun`, `Tick`, ...) named as in the code, and an action
is the block that some event starts.

| action | code |
|---|---|
| `FireClaimed`, `FireRefused`, `Delivered`, `Recorded` | `fireDueSlot`, `deliverAndRecord` between their awaits, `tick`'s loop, `finishRun` |
| `MissClaimed`, `MissRefused`, `Missed`, `Filled` | `normalizeSlots` between its awaits, and how its four callers go on |
| `TimerFires`, `IntervalFires` | the callbacks of `arm` |
| `Sleep`, `Wake`, `PowerResume`, `Boot`, `Crash`, `Clock` | `power:resume`, `onPowerResume`, hydrate and `start`, the world |
| `Save`, `Remove`, `SendNow`, `SetMaster`, `ClearAll`, `ClearTable`, `SettingChanged` | the panel, the editor, Clear All Local Data, any other setting |
| `Saved`, `Removed`, `Cleared` | the store takes a reply over |

Abstracted: a request takes effect when it is sent, and replies come in order,
because the main process handles one renderer's requests one by one with
synchronous SQLite. Any request of the scheduler may fail (`inject`, paid from
`budget`). Rules are a grid of ticks without leaps of the clock. The delivery to
the targets, with its gaps and its drain lock, ends some time and is not looked
into. The panel is a lazily loaded tab, so the user acts after `start`. Results
shown to the user are left out. A save or removal by the user is not made to
fail, nor is the hydration; `stop()` is not modelled, as nothing in the running
program calls it.

### The chains and the lane

`PromiseChain` has no lock variable: as in the code, a call reads the promise at
the tail, hangs its function on it and becomes the tail. `phase` says how far
the call's promises have settled, and the clean-up of the drain lock is an action
of its own because other calls may join before it runs. `FifoLock` is the
abstract lock; the refinement maps the phases and keeps the order of arrival. It
justifies that `ChatOutbox` has its lock as a sequence.

`TextSendLane` composes two chains: `Lock` (drain lock, forgets its tail) and
`Slot` (pacing, keeps it). A holder of the lock asks for slots one after the
other; the composer asks for slots alone. `Send` hands a text to the SDK, whose
write goes on after the slot (`air`): the runtime returns the message's id as soon
as the write has started. `step`, `left` and `since` are the local variables of
`run()` and `lastMeshtasticTextSendAtMs`.

The gap is of the texts that take a slot: those of an outbox pass
(`useChatOutbox.ts:548`), a broadcast (`deliver.ts:212`), the composer
(`ChatComposer.tsx:876`), a signal report (`ChatPanel.tsx:2206`) and an
acknowledgement sent live by Incident Command (`emergencySend.ts:90`); the last two
ask for a slot alone, as the composer does, and are among `Composers`. A manual
resend (`App.tsx:3009`), an automatic one (`autoResendController.ts:202`), a reaction
(`useMeshtasticRuntime.ts:4624`), a MECP rebroadcast (`sendMecpRebroadcast.ts:100`)
and the TAK relay (`takMeshSend.ts:69`) send without one. They are not in the lane,
and nothing is claimed of their distance to other texts.

| action | code |
|---|---|
| `Enter`, `Begin`, `End`, `Settle`, `Forget` | a call of `withChatOutboxDrainLock` and the reactions it leaves |
| `AskLock`, `LeaveLock` | `drainChatOutboxOnce`, `deliverToTarget` |
| `AskSlot`, `TakeSlot`, `Send`, `SendThrows`, `GiveSlot` | `withMeshtasticTextSendPacing` and the `send` it is given |
| `Acknowledged`, `RowTimeout` | `awaitNetworkAck`, `withOutboxDrainRowTimeout` |
| `TurnLock`, `TurnSlot`, `Tick`, `Written` | promise reactions, the clock, the SDK |

### The sidecar: state and actions

| variable | in the code |
|---|---|
| `child` | the processes ever spawned, as the operating system sees them |
| `m` | the manager's fields: `proc`, `authToken`, the status, `bleOnly`, `startAbortRequested`, `quitFastRequested`, `startAttemptGeneration`, `watchdogStop` |
| `so` | `startPromise`: where the one `startOnce` in flight stands, with its local variables |
| `sp` | the `stopProc` calls in flight: that of `stop()` (`stopPromise`) and that of `startOnce` itself |
| `call` | `startProcess` calls: the owner of the start, those that joined it, those that wait for a doomed one |
| `wd` | each child's watchdog: its poll, its failures, the restart it waits for |

| action | code |
|---|---|
| `StartCommand`, `Resume`, `Joined` | `start`, `ensureForBle`, `startProcess` |
| `AwaitedStop`, `ReuseHealthy`, `ReuseSick`, `StaleStopped`, `OldStopped`, `PrespawnFails`, `Spawn`, `HealthOk`, `HealthFails`, `SickStopped`, `LiveStarts`, `LiveFails` | `startOnce`, block by block, and `startLiveStack` |
| `StopCommand`, `PrepareDone`, `FlushDone`, `GraceOver` | `stop`, `stopProc`, `requestGracefulStop`, the SIGKILL timer |
| `Exit` | the `exit` handler of the child |
| `Poll`, `PollOk`, `PollFails`, `Restart`, `WatchdogStarts` | `startSidecarWatchdog`, `restartFn` |

Left out: the event WebSockets and their reconnect timers, the HTTP proxies, the
trackers behind status banners. A `cargo` build, which only a development run
does, is a step of `prespawn`. `PromptExit` assumes that a SIGKILLed child is gone
before the next is spawned: `stopProc` does not wait for that exit, and the exit
handler clears `this.proc` whichever child exited, so with `PromptExit = FALSE`
the late exit of an old child orphans the new one (`NoOrphan` fails). The kernel
ends a killed process in milliseconds and a spawn takes a free-port search and
file checks first, so this is an assumption about time, stated as a constant.

### The reconnect: state and actions

| variable | in the code |
|---|---|
| `rt` | the controller (`cRec`, `cGen`, `dirty`, `active`, `pend`) and the runtime's refs (`rec`, `gen`, `tries`, `deferred`, `inFlight`, `explicit`, `params`, `device`, the driver's identity, the sessions subscribed to, the watchdog) |
| `gate`, `slots` | `ConnectionDriver`: its lifecycle chain of opens and teardowns, its registered sessions |
| `socket` | the one socket of `tcp-bridge.ts` |
| `att`, `lost`, `conn`, `fin` | attempts, teardowns of lost links, `connect()` calls and the `disconnect()` between two awaits |
| `power` | `systemSuspended` and the timer of `usePowerRecovery` |
| `hist` | who has been superseded, who succeeded nevertheless, and whether a call met the leftovers of one the user had ended |

| action | code |
|---|---|
| `Notified`, `WatchdogFires`, `LostClosed`, `LostDropped` | `handleConnectionLost` |
| `RunOwner`, `BackoffDone`, `BackoffAborted`, `BackoffSuspended` | `scheduleOwner`, `runLoraRfReconnectAttempt` up to the open |
| `WorkOpens`, `WorkOpenFails`, `WorkUndone`, `ConfigureDone`, `ConfigureFails` | `runOpenAndAttach` |
| `Deadline`, `AttemptCleaned` | `raceWithDeadline`, `onAttemptError`, the finally of the attempt |
| `Connect`, `ConnectPrepared`, `ConnectOpens`, `ConnectOpenFails`, `ConnectConfigured`, `ConnectConfigureFails`, `ConnectFailed` | `connect`, `prepareRfConnect`, `attachRfSession`, `handleRfConnectFailure` |
| `Disconnect`, `DisconnectEnds` | `disconnect`, `finalizeDisconnect` |
| `SocketDrops`, `Suspend`, `Resume`, `ResumeDue` | the radio, the computer, `usePowerRecovery` |

What is abstracted:

* TCP only. What BLE and serial add is left out: the adapter's busy flag, GATT
  events, the latch after exhaustion, the rediscovery of a port, the recovery
  after a reboot of the radio.
* One identity, which is known while a session of it is; a reconnect always has
  connection parameters.
* A call's turn on the driver's chain and the open it makes are one step; the
  open holds the chain until it ends.
* Times are kept as an order: closing a socket takes milliseconds, a back-off or
  a person seconds (`Prompt`); a back-off notices within half a second that it
  must stop (`Noticed`); the main process gives an open up (20 s) before the budget
  of an attempt (90 s), so the deadline only finds a configure.
* No sleep and no resume timer meets a `connect()` (a guard of `Connect` and
  `Suspend`). Without that bound the two generations, each bumped at places of
  its own, come to agree by accident and `NoLateSuccess` fails.

`hist.crossed` marks a behaviour in which a `connect()` started while an attempt,
a teardown or another connect that the user had just ended was still finishing,
or Cancel came during the open of a connect. `OneOwner`, `OneSession`,
`NothingWedged`, `StatusTruthful` and `LinkKept` exempt it, because the code gives
no guarantee there: the finally of the old attempt clears the in-flight mark of the
new one, a queued teardown destroys whatever session is there when its turn
comes, `attachRfSession` takes the generation of after the Cancel, and a connect
that fails while the next one opens leaves the controller's flag set (see the
table of disagreements). What still holds there is that no superseded work reports
success, that the in-flight and the active mark are given back, and that the cycle
ends.

### The scan lease: state and actions

| variable | in the code |
|---|---|
| `lease` | `scanOwner`, `scanOwnerDepth` of `BleCoexistenceCoordinator` |
| `ops`, `exclusive` | LoRa operations inside `withScan('gatt')`; the proxy's `rnodeBondRecoveryExclusive` |
| `picker`, `scan`, `poll` | the device picker's dialog, its `runBleScan` calls between two awaits, the RSSI poll |
| `rt`, `task` | `useReticulumRuntime`: desync flag, hold latch, recovery generation; its recovery tasks |

| action | code |
|---|---|
| `BeginOp`, `EndOp` | `withScan` around a LoRa scan, connect or pairing |
| `StartScan`, `ScanAcquires`, `ScanRefused`, `ScanEnds`, `ScanReturns`, `Close` | the picker |
| `PollAcquires`, `PollScanned`, `PollEnds` | the RSSI poll |
| `BondRemoved`, `LtkDesync`, `CentralReleased`, `Prepared`, `BondCleared`, `TearDown`, `ExclusiveExpires` | a bond recovery and what calls it off |

Abstracted: `acquireScan` does not await, and no caller ever finds another's
acquire in flight, so an acquire is one step. The main process handles a
renderer's requests in order, so a request takes effect when it is sent.
`ScanRefused` stands for each way a scan may end before it has the lease. What a
scan finds is left out.

### The GATT sessions: state and actions

| variable | in the code |
|---|---|
| `byAddr`, `owner`, `sessions` | `by_address` (an id, or `None` for a reservation), `GattRegistry.owners`, `sessions` |
| `call[c]` | the handler of a `POST /sessions`, and afterwards the session it made: address, profile, the session it looked up, whether it spent an OS disconnect on a reclaim, whether its connect began under an adapter since disposed of |
| `drop[d]` | a call of `drop_session_internal`, by a reclaim, a DELETE, an event pump or a release |
| `pairing` | the `AddressReservation` of a pair or unpair |
| `link`, `conn` | what the operating system has connected; the backend's slot, its event task and a call that runs on after its caller went |
| `central` | `LazyBtleplugBackend`: is there an adapter, is it held |
| `wanted`, `clearing`, `release` | the proxy's latch, and its two requests |

| action | code |
|---|---|
| `Post`, `Look`, `Owner`, `Dangling`, `Undangle`, `Claim`, `Register`, `BackendRefuses`, `BackendBegins`, `Opened`, `ConnectFails`, `ConnectOverruns`, `Insert`, `Name` | `connect` with `reclaim_stale_same_profile`, await by await |
| `TakeClosing`, `TeardownRefused`, `TeardownUnknown`, `TeardownBegins`, `Disconnected`, `DisconnectFails`, `DisconnectOverruns`, `Forget`, `Unmap`, `Unregister` | `drop_session_internal` and `be_disconnect` |
| `AbandonConnect`, `AbandonDelete`, `LateConnects`, `LateDisconnects` | a client that gives up; what `IsolatedExecutor` does with a call nobody waits for |
| `LinkLost`, `StreamEnds`, `Pump` | the radio, the backend's event task, the session's event pump |
| `Delete`, `Pair`, `PairEnds` | DELETE, `reserve_idle_address` and its drop |
| `WantCentral`, `ReleaseBegins`, `ReleaseNext`, `Hold`, `Dispose`, `Unwant`, `ClearHold` | `releaseBleCentral` of the proxy, `release_ble_central`, `dispose_adapter`, `clear_bond_recovery_hold` |

What is abstracted:

* The runtime has several threads: every await is a point where others go on,
  those on a free lock too. A handler dropped by its client is dropped where it
  may wait long: at a closing lock or in the backend.
* The proxy gives up a connect after 45 s. A connect alone takes 41 s at most, so
  only one that spent time on a reclaim's OS disconnect is given up (`slow`). One
  whose reclaim only waited for another's closing lock is not, though it may take
  as long: what its giving up leaves behind is reached by way of its own disconnect.
* `register_external` and `unregister_external` (`manager.rs:446-462`,
  the registry routes of `api/gatt.rs:215-245`) are left out: the application's
  proxy never asks for them.
* A session's id is its request's. A request nothing refers to any more may name
  the next one (`Unused`), so a run has any number of sessions, `Connects` of them
  at once. Ids of requests that leaked something are used up, which is why the
  runs do not ask for the absence of deadlocks.
* A link belongs to an address: who disconnects it disconnects everybody there.
* One release request at a time; clear-bond-recovery does not fail.
* Reads, writes, notifications, RSSI, the scan mutex and the proxy's WebSockets are
  left out.

## 3. Runs

Bounds of the outbox: `MaxRows` ids, `MaxTime` clock ticks, `MaxQueue`
requests on the lock at once (`Room`), `MaxFaults` failing IPCs, `MaxCrashes`;
`PanelLife` says how often ChatPanel mounts and `SlowIPC` whether the clock moves
during an IPC. ChatPanel is only unmounted between its own operations. Two rows
are enough to have one in flight while another is queued, capped, retried or
cancelled; two requests on the lock are one drain of each hook.

| run | instance | shows |
|---|---|---|
| `drains` | two rows (reports, chat messages), receipts, two attempts, soft cap 1, clock stopped | one sender per row; a cancelled row stays gone; the attempt budget; a row that left the table is not sent again from an old listing |
| `failures` | a paced report and a row of an old version to quarantine, a failing IPC, a panel that remounts, fair | rows are removed only when delivered or cancelled, and stay blocked, through faults and remounts (the proofs add crashes); a drain ChatPanel started ends |
| `app` | Incident Command's MAYDAY and ACK, no ChatPanel, two identities (alike: symmetry), one tick (the theorems have the rest), a crash | every row is attempted by the drain it asks for; the App timer is armed no later than any retry ahead |
| `lane` | a pass with an acknowledged and a plain row, a broadcast target, a live text, a gap of two ticks, fair | both chains implement the lock; paced texts keep their gap; everybody is served |
| `broadcasts` | two slots, four ticks, a rule every second tick, three events (edits, sends, switches, a sleep, failures, crashes) | one run (or pass of a resume or a run's end) at a time; an occurrence is claimed once; nothing overdue at a start or resume is sent; table and copy agree; the timer is never lost |
| `sidecar` | two callers (page, GATT proxy), two children, four commands, a watchdog threshold of two, fair | one child; no orphan; a truthful status; a flush before a quit; stops that reach their child; calls that return |
| `rf` | two tries, five events of user, radio and computer, fair | nothing wedged; no late success; one owner; one session; a truthful status; a stale teardown spares the session in use; a cycle ends |
| `scan_lease` | two LoRa operations, two scans of the picker, two recoveries, five clicks and status events | LoRa keeps the lease while it works; Reticulum does not leave it behind |
| `gatt` | one radio, two profiles, two connects, a pairing, fair | one user of an address; nothing held for nobody; a session reported lost is forgotten |
| `gatt_release` | one radio, two connects, a DELETE that may be retried, bond recoveries | what a release found is forgotten before the adapter goes |
| `resend` | each protocol: two messages typed or resent by hand, two sends at a time (one on Reticulum), two resends, two tracked rows | a failed row has its next resend; on Meshtastic and MeshCore a bounded number of resends, one outcome, a cancelled retry stays cancelled |
| `find_resent_twice` | the same | a disagreement, see below |

Bounds of the broadcasts: `MaxTime`, `MaxEvents`, `MaxReplies` (replies pending
when an unrelated setting changes), `MaxSleeps`. Two slots let a run, a pass and
an edit meet on one slot while another is due; a rule every second tick makes
each slot come due twice. `MaxSleeps = 1` keeps a known gap out: a second resume
during the pass of the first sets `reconcilePending`, which `onPowerResume` does
not look at, and a slot overdue by then is sent (`ResumeSkips` fails with
`MaxSleeps = 2`). `MaxCandidates` is above the horizon for a like reason: where
`advancePastDue` gives up, after 1000 occurrences, the stale slot is left overdue
and the next tick sends it. The calendar days that would take are out of reach
of a run; with `MaxCandidates = 1` `ResumeSkips` fails.

`ResumeSkips` speaks of what is overdue when the resume event arrives: a timer may
fire before it. It exempts a slot whose claim was rejected. `StoreMirrorsTable`
exempts the rows of `hist.skewed`: edited, cleared or filled
while a delivery or a pass held them, or claimed by a pass that could not write
its result. Such a row is neither sent nor advanced until it is saved again.

Bounds of the sidecar: `MaxSpawns` children and `MaxCommands` starts and stops.
Two children are a child and its replacement, which is where handles, tokens and
exits can be mistaken; four commands are a start, a stop during it, a start that
waits for both and a stop during that wait. The invariants are proved without
these bounds.

Bounds of the reconnect: `MaxTries` 2 (a try that is not the last and one that
is) and `MaxEvents`, shared by drops, silences, deadlines, sleeps, Connect and
Disconnect; five are a connect, two losses during each other's attempts, a
disconnect and a connect after it. Work that only the program does is not
bounded. `Attempts`, `Losses`, `Connects` and `Sessions` are what may exist at once,
and never bite with five events.

Bounds of the lease: `MaxEvents` five clicks and status events are a scan closed
and started again while a recovery is asked for, called off and asked for again.
Two scans are the one that was closed and the one that is running; two recoveries
likewise. The invariants are proved without these bounds.

Bounds of the automatic resend: `MaxIds` rows ever stored (six; three on Reticulum,
where every send may add two), `MaxSends` (two; one on Reticulum), `MaxUser`, and the program's own
`MaxResends` (2 instead of 3) and `MaxTracked` (2 instead of 500). Two messages
are one that pushes the other out of the tracked ones; two resends are one that
is not the last and one that is. The invariants are proved without these bounds.

Bounds of the GATT sessions: one address, because nothing relates two of them but
the executor's stuck calls and the map's write guard, which two connects of one
address meet as well. Two connects of two profiles are a session, or its reclaim,
and a competitor; a pairing is the third who wants the address. With bond
recoveries (`gatt_release`) the release, the pump and a DELETE are three who want a
session's closing lock, and a request nothing refers to any more may be used
again. The invariants of both runs are proved for any number of each.
Nothing else is bounded: links, retries and recoveries go on for ever.
`NothingLeaks` exempts the address of a connect its client gave up: that is a
disagreement listed below (`ReservationsHaveOwners`). `OneUser` is stated where no bond is recovered.
With bond recovery a session is in the map before its address names it, a release
that takes its list in between frees the reservation, and a second connect may
claim the address then.

The properties are aimed at the hazards listed in `PROJECT.json`. Each is
broken by at least one *mutant*: a definition changed as a plausible bug would
(rows upserted instead of updated, a drain that turns callers away from a busy
lock, an acceptance by the radio taken for a delivery, a `drainingRef` that is not
reset on a failure, a promise chained to the wrong predecessor, a start that does
not await the stop, a deferred link drop that is not flushed, a superseded open
left to itself, ...). Mutants stand beside the definition they change.

`BlockedStaysBlocked` excludes a row that was blocked behind the back of somebody
who had already listed it: a pass that has it in hand and has yet to recover, skip
or send it, and the mount
effect of ChatPanel requeues it. `docs/chat.md` says a paused report is not sent;
the code only keeps that for passes that start later. `AttemptBudget` and
`AppRetryArmed` are checked without failing IPC or (the former) crashes: a failed
`updateStatus` loses the count, and a rejected pass arms no timer at all.

### Fairness

`FairSpec` assumes what the program's own scheduling gives: a pass that can take
a step takes it (promise continuations run), a send in flight has an outcome
(every row is under `withOutboxDrainRowTimeout`, an acknowledgement wait under its
own timeout), timers that are due fire, the reload and the steps of `queue()`
happen. Nothing is assumed of the radio, the link, the user or the clock.

For the lane it assumes that the reactions of the chains run, and of the functions
on them only what bounds them: the gap and the row watchdog are timers, a sender that has its turn goes on, a broadcast's wait for
its settlement times out. No acknowledgement, no end of a write and no new call
is assumed.

For the sidecar: continuations run; every await of `startOnce` and `stopProc` is
under a timer or a fetch timeout; a SIGKILLed process exits. Nothing is assumed of
the user, of the polls, or of a child that got only a SIGTERM.

For the reconnect: microtasks, IPC and timers happen; an open and a configure
end, somehow, within their time-outs (the bridge's and the SDK's). Nothing is
assumed of the radio, the user or the computer.

For the GATT sessions: tasks go on, calls of the backend end or overrun
(`IsolatedExecutor` bounds each), and a lock that becomes free again and again is
granted in the end, because tokio's locks are fair queues (strong fairness of
`TakeClosing` and `Pump`). Nothing is assumed of the radio, of the
user, or of clients that give up.

### Disagreements found

One run is expected to be violated: in `find_resent_twice` a failed message that
the user resent by hand, on Meshtastic or MeshCore, is sent once more by its
countdown. `fireResend` leaves a row alone that is no longer failed
(`autoResendController.ts:192`) and counts a resend by hand among the reasons
(line 191), but such a resend takes a row of its own and leaves the failed one
and its countdown as they were (`App.tsx:3005`).

More comments or documents say what the code does not keep. Each is stated as a
property in its module, for whoever changes that code; no configuration here
runs them, and TLC violates each within seconds on a small instance
(`NothingLeaks` and its neighbours are stated so that they hold in spite of them):

| property | said at | what happens |
|---|---|---|
| `ReportKeepsTrying` (`ChatOutbox`) | `docs/emcomm.md:34` | a report queued while ChatPanel drains is not sent: `drainOnce` drops the request (`useChatOutbox.ts:681`), the running pass does not know the row and arms no timer for it |
| `ResendBudget`, `OneOutcome`, `CancelledIsQuiet` without their first condition (`AutoResend`) | `docs/chat.md:231`, "resent automatically up to three times" | on Reticulum the sidecar's copy of a message is a row of its own, tracked on its own, until the reply renames the message to it; the counts, outcomes and cancels of the two are then mixed, and a message may be resent for ever |
| `StoppedStaysStopped` (`SidecarManager`) | `reticulum-sidecar-manager.ts:233`, "late completions cannot revive an aborted start" | start, stop, start, stop while the first start is before its spawn: the second start waits for the doomed one and then clears the abort flag (line 486), so a child is spawned although the last command was a stop; so does the restart of a watchdog whose poll or stop was in flight |
| `ScansAreSerialized` (`BleScanLease`) | `docs/reticulum-sidecar-ipc.md:85`, "serializes app-requested scans and LoRa connection setup" | closing the picker releases the lease under a scan the sidecar still runs (`useReticulumInterfaceDevicePicker.ts:98`), and a LoRa connect starts into it |
| `ReservationsHaveOwners` (`GattManager`) | `manager.rs:341`, "so reconnect is not stuck on mac_conflict forever" | the handler of a connect given up by the proxy frees nothing (`manager.rs:352`); its address answers `mac_conflict` until the sidecar restarts |
| `DeletedMeansDisconnected` | `manager.rs:538`, "Keep ownership until OS teardown completes" | a DELETE retried after a failed one finds no slot and gives the address up, the radio still linked (`btleplug_backend.rs:989`) |
| `RecoveryHasNoSession` | `manager.rs:580`, "Disconnect every LoRa GATT session" | a connect that was inside the backend when a release took its list becomes a live session during the recovery (`manager.rs:583`) |
| `NothingWedged` without its first condition (`RfReconnect`) | `loraRfReconnectAttempt.ts:164`, "do not leave isReconnecting true with no work" | a connect loses its link while it configures and its failure clears the runtime's flag but not the controller's (`handleRfConnectFailure`), while the user's next connect already opens; that session is used with the controller still in a cycle, and when its link is lost the loss is taken for one of that cycle and nobody schedules an attempt. It takes six events, one more than the instance has |
| `HoldIsLifted` | `gatt-sidecar-proxy.ts:165`, "so a stuck latch cannot brick MeshCore/Meshtastic forever" | a clear-bond-recovery handled while a release still closes sessions is overwritten by it (`lazy_backend.rs:57`); LoRa is refused from then on |

Others were met while modelling and are kept as notes, in the model as
exemptions or bounds of the properties, and in `PROJECT.json` under `hazards`:

* the identity is checked before the pacing wait and an IPC; the send goes to the
  radio connected by then (`useChatOutbox.ts:528`);
* a message scheduled in ChatPanel has no timer once the panel is unmounted, and
  the App-level drain was not told of it (`useChatOutbox.ts:625`);
* after one failed attempt the 24-hour limit of a scheduled message counts from
  its creation (`scheduledSend.ts:45`);
* `editScheduled` adds a row and then removes the old one, and a multi-part message
  is rescheduled one row at a time, each with a rollback (`useChatOutbox.ts:816`);
* a pass of the App-level drain that is rejected arms no timer
  (`useEmergencyOutboxDrain.ts:135`);
* the scan lease belongs to the main process and its Reticulum holders to the
  renderer: a reload of the window in mid scan leaves it behind
  (`ble-coexistence-coordinator.ts:51`);
* `tearDownFromSidecarStop` does not clear the proxy's exclusive latch
  (`useReticulumRuntime.ts:1732`), so LoRa connects are refused for up to ten minutes;
* a slot edited during its own delivery gets the old due time written over its
  copy (`scheduler.ts:226`); no claim matches the table any more;
* the pass of a master switch turned on does not set `running`
  (`scheduler.ts:341`); its first store update arms the timer, whose tick sends
  the third of three overdue slots;
* an enabled row without a due time may be claimed twice for one occurrence: a pass
  that fills it in across the user's save of the row writes the old occurrence back
  after the timer has claimed it (`scheduler.ts:175`), and the next start claims it
  again. A row has none if it was stored so, or if it was disabled when a Send now
  began: its null is written over the copy of the row saved meanwhile
  (`scheduler.ts:373`). No row is stored so in the instance, and the second takes six
  events where the instance has three, so `OneFate` holds there; `AtMostOnce` proves
  it of every behavior in which the enabled rows of the copy have due times;
* the runtime does not await the SDK's write of a text (`TransportManager.ts:34`),
  so the gap runs from its start and not, as `meshtasticTextSendPacing.ts:23-26`
  has it, from its completion;
* a `connect()` that meets an attempt the user ended a moment before may have its
  in-flight mark cleared by it, and two attempts may then run beside each other.

## 4. Proofs

### The outbox

TLAPS checks, for every table size, every list of delays, every number of
identities, faults and crashes, from the named assumptions `PolicyAssumption`
and `OutboxAssumption` (constants have the types their names say):

| theorem | says |
|---|---|
| `TypeCorrect` | `Spec => []TypeOK` |
| `OneSender` | `Spec => []OneSenderPerRow` |
| `CancelIsFinal` | `Spec => []CancelledStaysGone` |
| `NothingIsLost` | `Spec => RemovedOnlyWhenDelivered` |
| `RemovedIsNotSent` | `Spec => NeverSentAfterRemoval`: a row delivered and removed is sent by nobody again; a row cancelled, only by a pass that had it in hand before |
| `BlockedIsFinal` | `Spec => BlockedStaysBlocked`: until a retry or cancel, but for passes and a mount reset that had the row listed before it was blocked |
| `AttemptsAreBounded` | `MaxFaults = 0` and `MaxCrashes = 0` imply `Spec => []AttemptBudget`: of chat messages; reports have no budget |
| `IncidentRowIsDrained` | `MaxFaults = 0` and `PanelLife = "never"` imply `Spec => []AppRowIsDrained` |
| `IncidentRetryIsArmed` | `MaxFaults = 0` and `PanelLife = "never"` imply `Spec => []AppRetryArmed` |

None of them but the first is inductive. The inductive invariant `IInv` adds to
`TypeOK`:

* `LockInv`: a pass beyond its first await is at the head of the promise chain.
  Requests only append to the chain and only its head leaves it, so two passes
  are never under way together, which is `OneSenderPerRow`;
* `WorkInv`: from the pacing slot on, a pass has a row in hand;
* `CopyInv`: every copy a pass holds is of an id that was stored once, and, while
  that id is stored, is the same kind of message;
* `IdInv`: stored and cancelled ids are below the next id, and no cancelled id
  is stored. As writes only touch rows that are there and new rows take
  new ids, nothing comes back;
* `SentInv`: a pass that awaits an outcome has given its row to the radio, so a
  row removed by `Finalize` was sent; by `CopyInv` the acknowledgement the pass
  waited for is the one the stored row needs.

A step of a drain is described once by `DrainFrame` (who took it, what it did to
the table, what its next pass looks like), and preservation is proved from that
frame, from `QuietPreserves` for steps that leave the passes alone, and from one
lemma each for a new row and a cancel. The module's first part proves the rules the
invariant rests on: that the first row of a non-empty finite choice is one of
them, that the timer is the earliest retry ahead, that an update keeps the
message and the types.

`RemovedIsNotSent` and `BlockedIsFinal` need to know what a pass has in hand
(`QInv`): distinct rows, that may be sent once they are picked (`HandsInv`), each of
them still stored or cancelled by the user (`KnownInv`). Only the pass that holds
the lock removes a row it has sent, and it puts its copy aside in the same step,
so no copy outlives a delivery. As for a cancelled row, a pass gets rows in hand
only from the table (`TakenFromTable`), where no cancelled id is (`IdInv`): only one
that had it in hand before the cancel may still send it, and the code promises no
more. `AttemptsAreBounded` counts (`BInv`): a row's transmissions are at most
the attempts its stored copy shows, but for the send in flight (`StoredInv`); the
same holds of the copies in hand (`CopiedInv`), from which a pass judges whether a
row may be sent once more; and an aborted send is of a row that is gone
(`AbortInv`). A failing IPC or a crash between a send and its record loses a count,
which is why the theorem excludes both.

The last two are about the App-level drain while another view than the chat is
open, crashes included. Both properties speak of a drain that is idle; the
invariant `TInv` says what has to hold while one is not. With the radio up, either
another pass is owed (`Again`: a drain was asked for, a request waits behind the
pass under way, or the pass at the head of the lock has yet to list the table), or
the pass under way minds every stored row (`Tended`): before it picks it has the
row as it is stored (`Listing`); at work it still has every untried row of this
identity to do, and the time of every retry that is ahead (`AtWork`), from which it
arms the timer at its end. An identity or a link that changes under a pass makes
another one owed, so a pass that is alone and meets a row it may not send has none
left. A failing IPC ends a pass without arming a timer, and a pass of ChatPanel
arms only its own, which is why the theorems exclude both.

### The automatic resend

From `AutoResendAssumption`, for any numbers of rows, sends, resends and tracked
rows, and every set of protocols:

| theorem | says |
|---|---|
| `Scheduled` | `Spec => []FailedIsScheduled` |
| `Bounded` | `Spec => []ResendBudget` |
| `ToldOnce` | `Spec => []OneOutcome` |
| `StaysCancelled` | `Spec => []CancelledIsQuiet` |

Every action passes the controller's state through several operators (`Evaluate`,
`Write`, `Add`, `Rename`, ...), so the invariants are predicates of such a state,
and each operator has a lemma. `Sound` says that a countdown and its timer are set
and cleared together (`Timed`) and that a tracked row that has failed has one
(`Ready`), which a write breaks and the evaluation that follows restores. The others
are about *lines* of resends: a row that is tracked or has a countdown stands for
the message of its first send, no two for the same one, and nobody has been told
how that message ended (`Lineage`); its automatic resends are counted in what is
known of it (`Budget`); a row whose retry was cancelled is neither tracked nor
counted down (`Quiet`); ids not used yet are in no line (`Clean`). `Sheds` says what
an operator may do to the lines: let go of some, and report only the outcome of
one it lets go of. What the order of the tracked rows is does not matter to any
of it: whichever row `trackOutbound` pushes out, the properties hold.

### The chain and the lane

For any number of calls, from `ChainAssumption` (`None` is no call), which is a
hypothesis of each theorem:

| theorem | says |
|---|---|
| `ForgetsWhenEmpty` | `Spec => []EmptyWhenForgotten` |
| `ChainIsLock` | `Spec => ImplementsLock`: initial states map to initial states and every step to a request, a grant in order, a release or a stutter |
| `OneAtATime` | two functions of one chain never run together |

Nothing in the code says that a call's predecessor is the call before it, so the
invariant does: a call arrives once (`OrderInv`); the tail is the latest arrival,
and no tail means that all have settled (`TailInv`); a call hangs on the one before
it, or all before it have settled (`LinkInv`); a call that has begun has only
settled calls before it (`TurnInv`), which is the guard of the abstract `Grant`.

From `LaneAssumption`, for any passes, targets, composers, numbers of texts and gap:

| theorem | says |
|---|---|
| `LaneChains` | `Spec => ChainsAreLocks` |
| `OneHolder` | `Spec => []OneHolderQueued` |
| `Spaced` | `Spec => SendSpacing`: of the senders that take a pacing slot |

`LaneStepsLock` and `LaneStepsSlot` show that a step of the lane is a step of each
chain or leaves it alone, so the theorems about one chain hold of both, by way of
an instance of `PromiseChainProofs` for each. `OneHolder` adds `SlotUnderLock` (a
holder of the lock leaves it only outside a slot) to the lock's mutual exclusion.
`Spaced` adds `SpacingInv`: the wait computed when a slot was granted and the time
since the last stamp add up to the gap, because mutual exclusion of the slot lets
nobody else stamp meanwhile; and while nobody is past its send, the last text was
handed over no later than the last stamp.

`OneHolderQueued`, which no run checks any more, is what `SendSpacing` does not say: two
holders of the lock are never in the pacing queue together.

### The scheduled broadcasts

From `RuleAssumption` and `BroadcastAssumption`, for any number of slots, any rules
and any bounds:

| theorem | says |
|---|---|
| `BroadcastsTyped` | `Spec => []TypeOK` |
| `RunsAreSerial` | `Spec => []OneRun`: one delivery, or pass of a resume or of a run's end; the passes of `refresh()` and of the start do not set `running`, may overlap and are not counted |
| `WakeUpIsNotLost` | `Spec => []AlarmSet` |
| `StoreFollowsTable` | `Spec => []StoreMirrorsTable` |
| `AtMostOnce` | `Spec /\ []DueTimesKnown => []OneFate` |

A block of the event loop is a composition of operators from machine to machine,
so its lemmas are about machines: `Machine` is their type, `Carries` what all of
them keep, `Aside` what those keep that leave the run alone, and `Lands` what a
block must end in. The invariant `SInv` says of the machine between two blocks:

* `Serial`: while `running` is set there is exactly one delivery or one reply of a
  run under way, and otherwise none. `OneRun` alone does not say that a run that is
  over cleared the flag, without which the next block could not start one;
* `Alarmed`: the timer of a started scheduler is set no later than any slot it may
  send, unless a run or a pass is under way: both end in `arm()`;
* nothing is under way in a renderer that is down, and a reply to the user finds the
  store subscribed, so that its change calls `refresh`.

That `NextDue` exists and is later than now is proved from the division lemmas
(`Remainder`, `Euclid`, `NextDueLater`), for every rule.

`StoreMirrorsTable` speaks of the moments when nothing is on its way, and says
nothing of the rest; its invariant `MInv` says what the page's copy of a slot will
be. Replies are applied in order, so that is decided by the last reply that covers
the slot (a save, a deletion, a clear, a fill), and by the copy itself if none does.
`Mirrors` says, of a slot not in `hist.skewed`, that this row is the table's, or
differs from it in the due time only, and then someone (a claim granted, a delivery
under way, the record of its result) is still to write exactly the table's due time,
and no reply that would overwrite it comes later. Two things are needed for that to
be inductive: that one run or pass at a time holds a slot (`SInv`), and
`Rewritten`, which holds of the slots of `hist.skewed` also: what answers the user
brings the table's row unless a claim follows it. That is why a slot may leave
`hist.skewed` when it is saved, deleted or cleared again.

`OneFate` rests on the compare-and-set of the table: a claim is granted to who names
the row's due time, and moves it past the occurrence it is for. So the invariant
`OInv` (`Once`) says that the row of a settled occurrence is due later. Two writers
could go back: a claim whose next occurrence is not later than its own, which the
calendar excludes (`NextDueLater`, `AdvanceLater`), the second for the due times a
pass computed from the clock it read when it began (`Sure`); and the fill-null branch
of a pass, which writes without a claim. `DueTimesKnown` (each enabled row of the copy
has a due time) excludes the second: a pass begun then never comes to that branch,
whatever is saved or sent while it runs. It is an assumption on behaviors, of a state
the page shows, and not on the constants: the note above says how it comes to be false.

### The sidecar manager

From `SidecarAssumption`, for any number of callers, children and commands:

| theorem | says |
|---|---|
| `TypeCorrect` | `Spec => []TypeOK` |
| `QuitAlwaysFlushes` | `Spec => QuitFlushes` |
| `OneChild` | `PromptExit` implies `Spec => []OneStack` |
| `NoChildIsLost` | `PromptExit` implies `Spec => []NoOrphan` |
| `StatusIsTruthful` | `PromptExit` implies `Spec => []StatusTruthful` |

`PromptExit` is used in one step, `Spawn`, where it excludes a killed child that
has not exited. The inductive invariant `IInv` adds to `TypeOK`:

* `AliveInv`: one child at most has not exited;
* `HandleInv`: the handle `proc` is that of the child nobody told to stop;
* `TermInv`: a child that got SIGTERM is awaited by exactly one `stopProc`;
* `StartInv`: `startOnce` holds no handle between the end of its own stop and its
  spawn, and only its stop states have a stop of its own in flight;
* `GenInv`: a stop under way dooms the start it found, by the abort flag or the
  generation, unless that start still waits for the stop. A doomed start does not
  spawn, so a spawn finds neither stop under way and, by the others, no child;
* `RunInv`: with no stop under way, a running status is about the handle and its
  watchdog.

Each block of `stopProc`, `startOnce` and `startProcess` has a lemma on types and
one on the invariant (`TakeInv`, `StopProcInv`, `FreshInv`, `ProceedInv`,
`LaunchInv`, `StopInv`, ...), which the lemmas on the actions cite.

### The reconnect

From `RfAssumption`, for any numbers of tries, sessions, attempts, teardowns,
`connect()` calls and events:

| theorem | says |
|---|---|
| `TypeCorrect` | `Spec => []TypeOK` |
| `NoLateSuccessHolds` | `Spec => []NoLateSuccess` |
| `NothingWedgedHolds` | `Spec => []NothingWedged` |
| `OneOwnerHolds` | `Spec => []OneOwner` |
| `MarksGivenBack` | `Spec => [](Quiet => ~rt.inFlight /\ ~rt.active)`, whatever calls met |

The inductive invariant is `ReconnectInv`, in three parts. `LateInv`, for
`NoLateSuccess`, orders the two generations: no attempt is of a generation that is
ahead, a superseded one is behind or its cycle is over, and a connect is superseded
exactly where the runtime's generation or its cancel mark says so.

`FlagInv` holds in every behaviour. It says what a mark stands for: the in-flight
mark for an open or a clean-up (`InFlightHeld`), the active mark for an attempt that
will see to what it deferred (`ActiveHeld`), the runtime's flag for one of the
controller (`CycleFlags`), "reconnecting" for a cycle, a sleep or a call that ends
(`Awaited`). `GateInv` is about the driver's chain: an open is queued at most once
for a party that still waits for it, so that with nobody waiting the chain holds no
open, and it is what `NobodyAsks` and `ConnectFree` need.

`CycleInv` holds as long as no call has met the leftovers of another (`Uncrossed`).
Its core is that there is one attempt at a time (`OneAttempt`), that a running cycle
has somebody to move it (`CycleMoves`: the owner's microtask, a teardown, or an
attempt of its generation), that an attempt which outlives its cycle is of an
earlier generation (`EndedStale`), and that a connect which nothing has superseded
runs alone (`ConnectAlone`). For the last one a connect must begin with the link
let go (`LinkOff`, `ExplicitOff`, `LeftoverOff`): a listener left behind would start a
cycle beside it. A connect that begins uncrossed finds no attempt and no teardown
under way, and the person's pace (`Prompt`) that the chain is empty, since whatever
is queued there is asked for by one of them.

The step is by operation: what each block of the code does to the machine (`Cancel`,
`EndAttempt`, `Drop`, `Fails`, `WorkUndoes`, `ConnectFailure`, ...) has a lemma on its
result (`CancelFacts`, `FailsAdds`, ...), each action one on what it leaves alone
(`BackoffDoneFacts`, ...), and each part of the invariant a step lemma that cites
them. A step that marks the behaviour as crossed need keep `FlagInv` only
(`CrossedKept`).

### The scan lease

From `LeaseAssumption` (finite sets of operations, scans and recoveries):

| theorem | says |
|---|---|
| `LeaseTypeCorrect` | `LeaseSpec => []LeaseTypeOK` |
| `LoRaKeepsTheLease` | `LeaseSpec => []GattHoldsLease` |
| `ReticulumReturnsTheLease` | `LeaseSpec => []LeaseIsReturned` |

The depth is compared with the number of those who hold, so the argument counts:
an acquire adds one, a matched release takes one away, and one that nobody matches
only lowers the depth. What the properties lack is `TaskInv`: recoveries carry a
generation that is not ahead, and the one that is current is one at most and
holds the latch, so the latch accounts for its share of the depth.

### The GATT sessions

From `GattAssumption`, for any number of peripherals, profiles and requests:

| theorem | says |
|---|---|
| `TypeCorrect` | `Spec => []TypeOK` |
| `AdapterStaysDown` | `Spec => []HoldKeepsAdapterDown` |
| `ReleaseForgets` | `Spec => []ReleasedAreForgotten` |
| `OneUserAlways` | `~Recovers` implies `Spec => []OneUser` |
| `NothingIsLeftBehind` | `~Recovers` implies `Spec => []NothingLeaks` |

The first three rest on the invariant `RInv`: a call beyond `idle` has an address, a
reclaim is waited for by its connect (`Known`), and a session that a release found
is yet to be dropped, being dropped, or gone (`ReleaseInv`).

`OneUser` is far from inductive. Four parts are added (`UInv`):

* `ClaimInv`: a connect after its claim and a pairing have the address reserved,
  and a reservation has one holder;
* `MapInv`: a live session is what its address names, and an address that names a
  session names one in the map, or one between the two steps of its removal;
* `DropInv`: only live sessions are dropped, one drop at a time holds a session's
  closing lock or the map, and the one that frees an address frees its own;
* `LookInv`: a session looked up was live, and an address found dangling has
  another name by now, so that the clean-up of a reclaim never frees an address
  somebody claimed meanwhile.

What a step of a handler changes is stated once per operator and per handler
(`GoesFacts`, `ConnectMoves`, `DropMoves`, ...); frame lemmas say which part of the
invariant survives what (`MapKept`, `DropKept`, `LookKept`, `ClaimKept`), and each
kind of step has one lemma (`UClaim`, `UInsert`, `UName`, `UUnmap`, ...).

`NothingLeaks` is the converse: where `UInv` says that who holds an address has it
reserved, `LInv` says that a reservation has a holder (`Held`), that who holds an
address is of the profile it is registered for (`Owned`), and that a registry entry
has a holder or a removal that takes it away (`Backed`). It is stated address by
address, because the connect its client gave up excuses its own address only, for
as long as it is there.

### Only proved, only model-checked

The type invariants of `ChatOutbox`, `ScheduledBroadcasts`, `SidecarManager`,
`RfReconnect`, `BleScanLease` and `GattManager`, `EmptyWhenForgotten`, `OneHolderQueued` and
`HoldKeepsAdapterDown` are proved, for every value of the constants, and are in no
run. So is that of `AutoResend` but for the order of the tracked rows: it is filtered
with `SelectSeq`, a recursive definition, of whose results nothing can be proved.

Only model-checked are `ResumeSkips`, and `OneSession`, `StatusTruthful` and `LinkKept`
of the reconnect. `ResumeSkips` does not hold of every instance: the two bounds that
keep its gaps out are named in section 3. The three of the reconnect need more than
its invariant has: which of the sessions the driver holds is that of which attempt,
teardown or connect, and in what order the operations queued on the chain will find
them. Out of the provers' reach, and left to TLC: liveness (`PanelDrainEnds`,
`EveryoneServed`, `StopReaches`, `CallsReturn`, `CycleEnds`, `LostLinkIsForgotten`).

## 5. Not modelled, and the plan

What is not modelled is listed in `PROJECT.json` with its reason. Most of the
repository is views, translations, formatting, packet decoding and thin I/O, with
no protocol of its own to check; the Rust sidecar's sessions are built on a
vendored stack that would have to be modelled as links. Within the modelled
components these are left:

1. `ChatOutbox`: `editScheduled` with its rollback, for one row and a group;
2. the delivery of a broadcast to several targets, with its own gaps;
3. `RfReconnect`: what BLE and serial add, and MeshCore's twin of the machine;
4. the GATT proxy's WebSockets and reservations above `GattManager`, and the
   coordinator's registry of addresses;
5. the MeshCore queues, the MQTT teardown.

Proofs that are next: `OneSession`, `StatusTruthful` and `LinkKept` of the reconnect,
with an invariant on the sessions behind each operation of the chain.
