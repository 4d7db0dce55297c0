# Formal model of the LottoAxe OS / NerdQAxe+ firmware

The firmware (`src/`, C++ on an ESP32-S3 with FreeRTOS) mines bitcoin with BM13xx ASICs for one or
two stratum pools, and can hand work to other miners on a CAN bus. This directory models the parts
of it that are hard to test: the tasks that share state through mutexes, flags, callbacks, timers
and frames that may be lost. TLC checks small instances of the models, TLAPS proves the most
important safety properties for every value of the constants.

    tlc -workers 2 -config MCFailoverSafety.cfg MCFailover     # one run
    tlapm FailoverProofs.tla                                   # one module of proofs

## 1. The system

| Component | State | Operations | Talks to |
|---|---|---|---|
| Stratum tasks (`stratum_task*.cpp`), one per pool | `m_stopFlag`, `m_isConnected`, `m_reconnect`, `m_config`, `m_firstJob`, the transport, a reconnect timer | connect loop, setup requests, receive loop, dispatch, reconnect | manager callbacks under `m_mutex`; timer daemon; network |
| Manager (`stratum_manager.cpp`, `_fallback.cpp`, `_dual_pool.cpp`) | `m_stratumConfig`, `m_selected`, `m_verifyBlockedReason`, balance and error of the dual mode, statistics | connected/disconnected/timer callbacks, `loadSettings`, `reconnectAll`, dispatch of notify and results, `submitShare`, coinbase verification | stratum tasks, job builder, web server, result tasks |
| Job builder (`create_jobs_task.cpp`, `create_jobs_sv2.cpp`, `mining_info_v2.cpp`) | `miningInfo[2]`, `extranonce_2`, the job timer | fill from the pool, build, send to ASIC, store, build for slaves | stratum tasks (mutex, condition variable), ASIC, CAN |
| Job tables (`asic_jobs.h`) and results (`asic_result_task.cpp`) | a ring of jobs per ASIC/slave | store, clone, clean; look a nonce up, test, submit | ASIC serial line, manager |
| CAN master (`can_master_task.cpp`) | registry of slaves in RAM and NVS, reassembly buffers, telemetry | HELLO, nonces, telemetry, timeouts, deletion (web server) | slaves, NVS, hash-rate monitor, manager |
| CAN slave (`can_slave_task.cpp`) | its id, state, job buffer | HELLO every second, ASSIGN, jobs, MASTER_BOOT, 10 s timeout, telemetry | master, ASIC |
| Stratum V1 wire (`stratum_api.cpp`, `stratum_transport.cpp`) | line buffer, request id | send requests, read lines, parse | pool |
| Stratum V2 (`stratum_task_v2.cpp`, `sv2_protocol.c`, `sv2_noise.c`) | channel, target, a ring of pending jobs, ciphers | handshake, open channel, jobs, SetNewPrevHash, SetTarget, shares | pool, job builder |
| Power, fans, temperatures (`power_management_task.cpp`, `fan_controller.cpp`, PID) | cached voltage and frequency, shutdown flag, PID; its mutex is everybody's | periodic control, overheat, fault, shutdown, restart | boards, ASIC, web server, updates |
| Firmware update (`handler_ota.cpp`, `handler_ota_factory.cpp`) | the app slots and otadata, an update in progress | upload, factory update, restart | power management's mutex, bootloader |
| Hash-rate monitor (`hashrate_monitor_task.cpp`), history (`history.cpp`), statistics | last counter of every ASIC; ring of samples, windows of the averages | periodic register reads; push, export | ASIC, CAN master, web |
| Network (`network_manager.cpp`, `connect.cpp`, `w5500.cpp`, wifi health, ping) | which interface has an address, which is preferred, whether WiFi is off for Ethernet | events of both interfaces | both drivers, stratum tasks |
| Web server and its handlers | sessions, OTP enrolment | settings, update, deletion of slaves, restart, shutdown | everything |
| Boards, displays, Influx, Discord, price feeds, captive-portal DNS | registers, widgets | input and output | - |

`PROJECT.json` lists every component with what is and is not modelled, and every hazard at the line
where it bites.

### What makes it hard

* **Two stratum tasks, the timer daemon, the web server** touch the same pool state. Callbacks run
  under `m_mutex`, yet `m_isConnected`, `m_stopFlag` and `m_reconnect` change outside it, and a timer
  command is queued and applied later.
* **The job mutex is released** between building a job, sending it and storing it, so a notify with
  `clean_jobs` or a disconnect can come in between; the condition variable has no predicate.
* **CAN frames are unacknowledged.** Every one may be lost for one node and received by another.
  Master and slaves restart independently; the web server saves the same registry as the receiver.
* **Rings and queues**: 16 job ids for two pools, a timer command queue of fixed length, buffers of
  one message, 7 bits of slave id, eight slots for the future jobs of a V2 pool, a ring of samples.
* **One mutex guards the supply**, and a firmware update holds it for minutes in which nobody looks at
  the temperatures; an upload of the web pages takes it again and again while the board runs. Two kinds
  of update write the same slots; power can go at any moment.
* **The network's flags lag behind the drivers** by the events that are queued, and one handler holds
  all events up for a second.

### What makes each component correct

* failover: a pool that is up gets used; a blocked pool is left; a timer that has to run does; work
  never outlives the session it came from; shutdown ends all sessions.
* job pipeline: a nonce is tested against the job it was found for, with the extranonce and the
  difficulty that job was notified under; abandoned work disappears; new work reaches the ASIC.
* fleet: no two slaves search the same space; what a slave was told survives a restart; slaves come
  back after any loss; the dead go off line and out of the reported hash rate.
* power: a supply that was cut for heat or a fault stays off, a shutdown is final, a board that is too
  hot is switched off, no firmware update runs over a board that has power, and nobody else keeps the
  mutex over one for longer than an access to the flash.
* updates: the selected slot always holds a whole image, an image that was switched to gets booted, and
  an update ends.
* V2: the job that is mined is the one the pool named, on its prev_hash, for its channel's target.
* network: with no event left the flags are right, and a device with an access point gets back on line.
* history: every average is that of the samples in its window, and an export answers what was asked.
* messages on CAN: never a buffer overrun, never a splice of two messages after a small loss, and a
  message that arrives whole is never dropped.

## 2. Modules

| Module | Models | Proofs | Run modules |
|---|---|---|---|
| `Induction` | - (lemmas: induction, recursive functions) | `Induction` | - |
| `IdRegistry` | abstract: whom the ids of slaves are granted to, and who uses them | - | implemented by `CanFleet` |
| `PoolSession` | abstract: the sessions with the pools, the work and the shares | - | implemented by `Failover` |
| `Failover` | both stratum tasks, `StratumManagerFallback`, FreeRTOS timers, settings, verification block, shutdown | `FailoverProofs` | `MCFailover` |
| `JobPipeline` | `MiningInfoV1`, `create_jobs_task`, the job tables | `JobPipelineProofs` | `MCJobPipeline` |
| `CanFleet` | registry, ids, NVS, slaves, deletion, resets | `CanFleetProofs` | `MCDevice` |
| `CanReassembly` | `send_multiframe` and its receivers | `CanReassemblyProofs` | `MCDevice` |
| `LockOrder` | which mutexes every task takes, in which order | `DeviceProofs` | `MCDevice` |
| `DualPool` | dealing jobs out to two pools, the ASIC mask for both | `DeviceProofs` | `MCDevice` |
| `WorkSplit` | the extranonce_2 of the device and of its slaves | `DeviceProofs` | `MCDevice` |
| `PowerGuard` | who switches the ASIC supply on and off | `HostProofs` | `MCHost` |
| `FirmwareUpdate` | uploads of firmware and of web pages, factory updates; extends `PowerGuard` with its mutex held across waits | `HostProofs` | `MCHost` |
| `Sv2Channel` | an extended V2 channel, from messages to work | `HostProofs` | `MCHost` |
| `NetworkManager` | Ethernet with WiFi as its fallback | `HostProofs` | `MCHost` |
| `HistoryRing` | ring of samples, averages, search | `HistoryRingProofs` | `MCHost` |

### PoolSession

What the stratum layer promises of its pools: `session` are the pools in session, `work` those with
valid work, `waiting` those that owe the answer to a share, `chosen` the one whose work is mined. A
session starts with neither work nor shares, both end with it in the same step, and only the chosen pool
gives work. `Failover` implements it (`ImplementsPoolSession`): a task is in session while its `pc` is
inside `protocolLoop` before the last callback, work is a job in `MiningInfo`, `chosen` is `m_selected`.
A share may be of work of an earlier session: the ASIC result task clones the job out of the table, and
nothing it tests afterwards is about the session, so `Submit` asks for a session, not for work of it.
The pool rejects such a share.

### Failover

One step is one critical section of `m_mutex`, or one access to a flag that is read or written
without it. `pc` is where a task stands in `StratumTaskBase::task` and `StratumTaskV1::protocolLoop`:
`load` (top of the loop) → `gate` (stop flag, host) → `dial` (resolve, connect, setup requests) →
`recv` → `connected`/`mark` (first line: `connectedCallback`, then `m_isConnected = true`) → `check`
→ `dispatch` → `recv` …, and `disconnected`/`unmark` on the way out. The FreeRTOS timer service is
modelled as FreeRTOS implements it: `xTimerStart`/`xTimerStop` queue a command, which is dropped when
the queue is full, and `xTimerIsTimerActive` reads the state the daemon has reached. `job[t]` tells
valid work of the running session (`live`) from work left over from an earlier one (`dead`): the
property that there is never any of the latter is `JobsBelongToLiveSession`.

Left out: the watchdog of `StratumManager::task`, which reboots the device when no share was answered
for an hour (stuck states the model finds end there), the ping task, statistics.

### JobPipeline

Stratum V1. `notify[p]` is the work in `MiningInfo` (0 when `ntime` is 0, invalid); jobs are records
of the pool, the notify, the extranonce and the difficulty they were built with. `create_jobs_task`
is the loop `wait` → `build` → `send` → `store` → `slave` → `slavestore`: the mutex is held within a
step and released between them. `asic` is what the ASIC last received for an id. History variables
record what the pool said (`poolSays`, `terms`) and what it has abandoned (`floor`).

Left out: the change of the job interval while waiting, the builder's own suspend on shutdown, V2
(see `Sv2Channel` for what comes before the builder).

### IdRegistry

What a slave is promised while the web server deletes none: an id is granted to one slave, before any
slave uses it and for good, and a slave uses no other. There is no step that takes an id back, so that
restarts, losses and timeouts can only take ids out of use. `CanFleet` implements it
(`ImplementsIdRegistry`): an id is granted when it is in NVS (`owner` is `nvs`), used when a slave has it
(`uses` is `id`). A deletion breaks the promise, as the run `fleet_unique` shows.

### CanFleet

`handle_hello` is cut where the registry is read and written: registering, copying the blob,
writing it, sending ASSIGN are steps of `rx`; the web server's deletion is `web`, with the same steps.
A frame is delivered to any set of nodes. There are no clocks: the receive call may time out and find
any active slot overdue, a slave may find its last job ten seconds old whenever it takes a frame.
`MasterReset` restores the registry from `nvs` and loses everything else.

Left out: NVS writes that fail, the copy of the registry being torn by a concurrent deletion of the
same slot, the figures carried by telemetry, the per-slave configuration.

### CanReassembly

One identifier, one sender, any frame lost. The buffer is abstracted to the message its first frame
came from, its length, and how many frames were lost since. `Channels` gives the payload and the
buffer of the identifiers in use: nonces 9/9, telemetry 49/49, configuration 46/46, jobs 86/128.

### LockOrder

A path is the sequence of sets of mutexes a function holds from entry to exit, read off the
`PThreadGuard` scopes along its calls: `disconnectedCallback`, for example, holds the manager's mutex
throughout, takes the job mutex in `create_job_invalidate` and under that the table's in `cleanJobs`.
A task enters a path, proceeds when the mutexes it wants are free, and leaves it at the end. A set of
tasks is deadlocked when everyone in it wants a mutex that another of them holds.

Left out: every mutex that is never held together with one of these (CAN, display, history, OTP,
power management, Influx, update), and how long a mutex is held.

### DualPool

`create_jobs_task` with `StratumManagerDualPool`: `select` (error diffusion, `getNextActivePool`) →
`build` (the difficulty of both pools, `selectAsicDiff`) → `mask` → `send` → `slaves` (a slave's job
looks at the difficulty of the pool again). The pools notify, disconnect, are blocked and released,
and the ratio is changed at any point. A difficulty is a number; the mask is the largest power of two
up to it, computed as `_largest_power_of_two` does, by halving. History variables count turns since the error was
last reset, and those of them the secondary got.

Left out: the reconnect timers of the dual mode, statistics, `poolDiffErr` (a flag for the web
interface). A balance above 100, which the handlers store unchecked, is outside `0 .. Full`.

### WorkSplit

Each job is a record of who searches it, its count, and the extranonce_2 that is written into the
coinbase. `Leading` is what `snprintf` leaves of a number that is too long for V1, `Lowest` what V2
writes. The assumption `RoomForAll` says that the extranonce_2 has room for every id (four bytes;
pools that leave fewer would make slaves repeat each other's work) and that the device's own counter
has not reached the ids of the slaves (2^25 jobs since the start).

### PowerGuard

A holder of the mutex that does not wait is one step; `powerLock` names the holder that keeps it over a
download. `PowerManagementRound` is one round of the task: apply a new voltage (only when it is not the
cached `last_core_voltage`), read the sensors, and cut the supply when a watched fan channel is too hot
or the buck converter reports a fault. A channel follows the chips, the regulator, or (LINKED) the
hotter of both; the regulator is read only after the buck was initialised. `initAsics` does not look at
the shutdown flag, so a shutdown requested while the device waits for a network is undone by it
(`early`). The settings handler changes voltage and fan settings without the mutex.

Left out: the frequency, fan speeds and their PID controllers, what the round only displays; boards
without a TPS53647.

### FirmwareUpdate

`POST_OTA_update` (web server) and the updater task of the factory image, with the three app slots, the
slot otadata selects and which slots hold a whole image. `beginUpdate` is the part both share: the mutex,
the shutdown, `esp_ota_begin` erasing the slot after the running one. `do_www_update` comes after the
switch and restarts on every error path. `PowerLoss` cuts off anything. `Boot` is the bootloader: the
selected slot if its image is whole, another one otherwise.

`POST_WWW_update` goes another way: it shuts nothing down and restarts nothing. It takes the mutex for
the erase of the partition (`web_erase`) and for every chunk (`web_write`), and gives it back before it
waits for the client (`web`), so that rounds of the power task, and a factory update, may come in between.

Left out: what the web partition holds, `esp_ota_set_boot_partition` failing on a valid image, `ESP_ERROR_CHECK` of `esp_ota_begin` (it reboots,
which `PowerLoss` covers).

### Sv2Channel

Messages of one session arrive in order; a handler that hands over several jobs does it in several
steps, each one critical section of the job mutex, because `create_jobs_task` builds work between them.
`enqueue` and `flush` are where the running handler stands. Jobs and prev_hashes are numbered in the
order the pool sends them; a target stands for its difficulty. History: what the pool wants mined
(`active`), what it has not withdrawn (`future`), and whether it kept to the ring (`orderly`): it names
one of the last eight jobs, and sends no other job before its first SetNewPrevHash.

### NetworkManager

The handlers run one after the other in the task of the default event loop; `events` is its queue. The
drivers are external and post at any time. `backoff` is the second `onWifiDisconnected` sleeps in the
event task, during which everything else waits.

Left out: `AnyIp` callbacks (a change is one event of `Failover`), WiFi health, the access point's own
clients, DHCP details.

### HistoryRing

`History::push` and `HistoryAvg::update` are one step under `m_mutex`. The loop that trims a window is
the least index at which it stops, the running sums are differences of prefix sums (`Totals`), the search
is the recursive bisection, as a recursive function on the range that is left. An answer is the set of the
indices it lists. `pushed` remembers every sample, so that the running sums can be compared with the sums
of what is in the window. The size of the ring is a power of two, which `HistoryAssumption` says and
`NEXT_POWER_OF_TWO` makes it; the search is right for no other reason (see Proofs).

Samples come when `SYSTEM_task` gets to them. Its timer goes off every `SamplePeriod`, whatever the task
does; the task draws its screens and takes the time when it pushes, up to a delay after the tick that
woke it, so that a sample after a late one may follow at once. A tick that finds the task still busy
(the export may hold `m_mutex` against the push) is lost, which `WakingTicks` allows and does not
demand: the timer daemon may be late as well. What keeps the averages right is room in the ring, not a
minimum distance: `HistoryAssumption` asks for a span and the longest delay to fit into it. The device
has 32768 slots of five seconds, 45 hours, for the span of a day.

Left out: temperatures and the exported averages (stored at the same index), conversion to GH/s, the
limit on the size of an answer. The time is that of `esp_timer`, which no clock setting changes.

## 3. Runs

| Run | Properties | Instance |
|---|---|---|
| `failover_safety` | `TypeOK`, `PrimaryTimerStaysArmed`, `JobsBelongToLiveSession`, `ImplementsPoolSession` | one host or none per pool, timer queue of 2, settings and network changes, shares; no shutdown (`RunningSpec`), which the theorems include |
| `failover_live` | `BootFailoverIfUp`, `PrimaryKeepsConnectingIfUp`, `SavedSettingsAreUsed`, `ShutdownParksTasks` | timer queue of 2; one host or none per pool and a shutdown at any moment, or the primary alone with settings and network changes without bound |
| `failover_may_try` | `SecondaryMayTry` is violated | see Findings |
| `failover_submit` | `NoSubmitToBlockedPool` is violated | see Findings |
| `jobs_terms` | `TypeOK`, `JobsUseTheirNotifysTerms`, `AtMostOneAbandonedJob` | one pool, two extranonces, two difficulties, two sessions, a slave |
| `jobs_two_pools` | `TableFollowsAsic`, `AbandonedJobsAreReplaced`, `NotifyReachesAsic` | two pools, ring of 2 |
| `jobs_slave` | `SlaveJobsClearedOnFirstJob` is violated | see Findings |
| `device_safety` | `OneSlotPerSlave`; `NeverOverruns`, `SplicesNeedLongLoss`, `WholeMessagesArrive`; `DeadlockNeedsSettingsAndPing`; `TurnsFollowBalance`, `SharesPassTheMask`; `WorkIsDisjoint` | see Bounds |
| `fleet_live` | `ImplementsIdRegistry`, `HashrateOfActive`, `SlavesComeBack`, `DeadSlotsGoOffline` | two slaves, two slots, a reset of each |
| `fleet_unique` | `IdsAreUnique` is violated | see Findings |
| `host` | `TypesOK`; `TrippedStaysOff`, `ShutdownIsFinal`, `HotBoardIsCut`; `UpdatesRunUnpowered`, `SelectedImageIsWhole`, `SwitchedFirmwareBoots`, `UpdateEnds`; `NamedJobIsMined`, `WorkHasTheChannelsTarget`; `FlagsCatchUp`, `NetworkComesBack`; `WindowsAreExact`, `ExportIsComplete` | see Bounds |
| `locks_deadlock` | `LoadSettingsDoesNotDeadlock` is violated | see Findings |

**Bounds.** One host per pool is enough for failover: only "empty or not" and "changed or not" are
read. The timer queue of 2 makes it overflow (the device has 10), which is the case in which a
start is lost. `failover_live` has two scenes. In `Shutdowns` both pools run and verification may block
them, for good. In `Requests` the primary runs alone, its host is taken away and given back and the
network changes, any number of times and at any point: every save lifts a block and may catch the
task anywhere in its loop. Both pools together with saved settings are checked for safety only
(`failover_safety`): their graph, of more than a million states, is too large for the temporal
properties. What settings do to the primary does not look at the fallback, and the fallback's effect on
the primary, `m_selected`, is in the first scene. A ring of 2 ids comes round after two jobs, and the notifies give an abandoned job, its
successor and one in flight. Two sessions are needed for anything of an earlier session to be left.
Two slaves and two slots give every conflict of two; queues of one frame make frames be lost because
of a full queue as well as on the bus; one reset of each node is a restart at any point. Four messages
on each of four channels (nonces 9/9, telemetry 49/49, configuration 46/46, jobs 86/128) allow a
splice across a whole lost message. One stratum task in `LockOrder` stands for both, which take the
same paths; the proof is for any number. A ratio in thirds and three turns go through every value of
the error; a difficulty inside and one above what the ASICs can be set to make the mask round and
clamp (below, the property promises nothing). Three ids with counters of two bits, in four
rounds, use every value of every counter; the run writes them as V1 does. Two cases the instances do
not reach are covered by the proofs: more slaves than slots (a full registry) and V2's way of writing.

In `MCHost`, two voltages, one above the limit of the board, give every comparison of the cache and of
the limit; the fan settings are channel 0 alone in LINKED mode, and both channels; all sensors, both
kinds of update and power losses are unrestricted. A V2 ring of three slots with six jobs comes round
twice, and three prev_hashes give a first one, one that names a job of the ring and one after it. Four
queued network events are more than any interface leaves behind while a handler sleeps. A history of
four samples wraps with the fifth; samples come every three units of time or up to two late, so that
two may be one apart and ticks get lost. One span is shorter than a period, the other is with the delay
exactly as long as `HistoryAssumption` permits: with one unit more, an instance without the assumption
has wrong averages.

`MCDevice` is the disjoint sum of five components that share no state: `component` says which one
runs, the others stay in one of their initial states. Deadlock is checked in the failover and job
runs; the runs of `MCDevice` state `CHECK_DEADLOCK FALSE`, because bounded messages, turns and rounds
end their components, and because the deadlock of `LockOrder` is a property of its own. `MCHost` is the
same for four parts: power with updates, the V2 channel, the network, the history. Its resting states are
ones in which nothing fair can happen, so that the temporal properties of a part that rests say nothing.

**Fairness.** Failover: FreeRTOS runs every ready task, the timer daemon works through its queue
(`DaemonCatchesUp`) and a timer that nobody stops expires, whatever the other one does
(`ActiveTimerExpires`), a connect returns because it has a timeout, and a pool that accepted a
connection says something or drops it. "Up" (`PoolUp`), the hypothesis of the two promises about a pool,
means that from some time on every connection is accepted and set up, and that the pool does not drop
all of them without a word. `RequestsRest`, that settings and network changes come to an end, is a
hypothesis of `PrimaryKeepsConnectingIfUp`: without it a request could fall between gate and dial of
every session, which then ends before its first line. Jobs: the periodic
timer and the builder run. Fleet: tasks keep running; a slave that says HELLO again and again is
received now and then and, of the ASSIGNs sent to it without end, gets one; there are pauses on the
bus (a frame takes a quarter of a millisecond, a slave sends a few every second) in which the
receive call times out, without which `can_master_task` never looks at timeouts. Power: the task's round
comes every two seconds and gets the mutex (strong: an upload of web pages takes it again and again, but
yields in between, and FreeRTOS hands it to the waiting task of the highest priority; the round also takes the Influx mutex, line 299 of
`power_management_task.cpp`: a report that hangs would hold it up). Updates: an access to the flash, a download or an upload ends
one way or the other; a timeout of `httpd_req_recv` is retried for ever (`handler_ota.cpp:134`), so this
is a promise of the client, who sends or closes. Strong fairness of the updater for the mutex, which
FreeRTOS hands to the task that waits longest among the highest priority. Network: the event loop runs,
an attempt to connect ends, and of endless attempts one succeeds, which is what "there is an access
point" means.

## 4. Findings

* `failover_may_try`: the timer of the fallback is not started when a queued stop is still ahead of
  the timer daemon; the fallback stays off until the primary reconnects and fails again, or the
  hourly watchdog reboots.
* `failover_submit`: shares still go to a pool that has just been blocked, contrary to the comment.
* `jobs_slave`: the slaves' job table is never cleaned, contrary to the comment on the first job.
* `fleet_unique`: a deleted slave keeps its id, and the next slave gets the same.
* `locks_deadlock`: saving changed pool settings holds the manager's mutex and waits for a ping task,
  while that holds its own mutex and waits for the manager's. Every stratum task, the timer daemon and
  the job builder then stop at the manager.

Met while modelling, without a run of their own:

* A shutdown requested before `initAsics` is undone by it: the flag stays set, the supply comes on. The
  power task then no longer applies settings, but still cuts an overheated supply.
* A failed update leaves the device shut down and running, until somebody restarts it; the comments
  (`handler_ota.cpp:120`, `handler_ota_factory.cpp:358`) say "The device will reboot after the update
  anyway".
* In the three seconds between the end of a factory update and its restart the mutex is free; an upload
  accepted then erases the slot that was just selected (`crossed` in `SelectedImageIsWhole`).
* A V2 pool that sends two future jobs before its first SetNewPrevHash has the one it did not name mined.
* The share of a session that has ended is submitted in the next one (`PoolSession`).
* `connectedCallback` of the primary selects it and stops the fallback, but `m_isConnected` is set
  afterwards (`stratum_task.cpp:417-419`). A fallback whose own callback falls in between takes the
  primary for down and selects itself; then it stops, as it was told. The primary is connected and not
  selected, its notifies are not accepted, and nothing but the end of its session changes that
  (`overtaken` in `PrimaryKeepsConnectingIfUp`).
* Settings saved between the copy of the configuration and the reset of `m_reconnect`
  (`stratum_task.cpp:253-256`) are forgotten until the session with the old ones ends by itself (`missed` in
  `SavedSettingsAreUsed`).
* An upload of web pages gives the mutex back between chunks, and a factory update may take it there: the
  rest of the upload is written over what the factory update has written to the same partition, or the
  other way round, unless the restart cuts it off.

## 5. Proofs

Every theorem is about `Spec` for all values of the constants under the module's assumptions.

* `FailoverProofs`: `TypeCorrect`; `JobsNeverOutliveSession`, with the invariant that a connected task
  is in a session (`ConnectedOnlyInSession`), needed because the gate tests nothing but flags;
  `SessionsAreImplemented`, the refinement: with the invariant and `AnswersInSession` every step is one of
  `PoolSession` or a stutter (`RefinementStep`), most of them because they touch neither `pc` nor `job`
  in a way the mapping sees (`MappedStutter`, `SameSession`);
  `PrimaryTimerAlwaysArmed`, with `PrimaryTimer`: no stop for the primary is ever queued, there was
  room in the queue when its task posted the start (both tasks post one command before anything else
  can, hence `TimerQueueLen >= 2`), and the start is queued or applied.
* `JobPipelineProofs`: `TypeCorrect`; `LookupsFollowAsic` and `OneAbandonedJob` from `Tables`, which
  adds that work is dispatched work, that what is being stored is what the ASIC got (`Sent`) and that
  an abandoned job in a table is the one that was in flight (`OneInFlight`); `TermsOfTheirNotify` from
  `TermsKept`, which says what is pending in `MiningInfo` for the next notify.
* `CanFleetProofs`: `TypeCorrect`, `OneSlotAlways`, `IdsAlwaysRegistered`, `IdsUniqueUntilDeletion`.
  The invariant is `Injections` (registry, NVS and the two blobs in flight never hold a slave twice)
  and `Saved` (until a deletion, an id that any slave holds, or any frame or the receiver is about to
  tell it, is registered for it in RAM and NVS, and blobs in flight extend NVS).
  `IdsAreGranted`, the refinement of `IdRegistry` where nothing is deleted, adds `OneUnsaved`: registry and
  NVS differ in the slot of one slave at most, so that a save grants one id and keeps the others
  (`SaveGrants`), and an ASSIGN tells what is saved.
  `HashrateAlwaysOfActive` needs more than the property says (`Reported`): no unused slot is on line,
  because no telemetry still in the master's queue names one, because its sender's id is registered.
* `CanReassemblyProofs`: `BufferHolds`, `NoShortSplice`, `WholeMessagesAlwaysArrive`, under
  `ChannelsAreSane` (a message needs more than one frame and fits the buffer). The invariant `Counts`
  relates the length of the buffer to the frames sent since it began minus those lost.
  `MessagesAlwaysInOrder` from `Ordered`: the buffer begins after everything that was handed on.

* `DeviceProofs`, about three parts of `MCDevice`.
  `DeadlocksNeedSettingsAndPing` (`LockOrder`): mutexes have ranks, and a set of tasks that only wait for
  mutexes above all those they hold is not deadlocked (`NoCycle`: whoever holds the highest waits for
  none). Without the web server the ranking `PingFirst` (a ping task's mutex below the manager's) fits
  every path, without the ping tasks `PingLast` does; a deadlock needs both.
  `SplitIsFair` (`DualPool`): the invariant `Dealt` says that the error is exactly what the secondary is
  owed: turns times its percentage minus a hundred for each turn it got.
  `SharesAlwaysPassTheMask` from `Masked`: the next job's difficulty is the one remembered for its pool,
  and the mask that goes with it suits the easier of both pools (`NextJobKnown`). That the loop which
  halves a difficulty ends at a power of two below it, but not below its half, is `RoundedDown`.
  `NoWorkIsDoneTwice` (`WorkSplit`), under `RoomForAll`: the invariant `Legible` says that a job's
  extranonce_2 is its node's id and its count, so that it determines both.
* `HistoryRingProofs`: `WindowsAlwaysExact`, from `HistoryInv`: every sample has a tick of its own and is
  at most a delay after it (`SamplesFollowTicks`), times rise (`TimesRise`), the ring holds the last
  `RingSize` samples (`RingIsRecent`), and every window begins with the first sample that is young enough
  (`WindowIsExact`). What a window holds is less than a ring (`WindowFits`), so that a sample is still
  there when it leaves: with a ring of samples from the first to the last there would be `RingSize - 1`
  ticks between them, and those periods less the longest delay are no shorter than the span, however
  the samples crowd in between. `ExportAlwaysComplete`: the invariant of the
  bisection is that everything below the range is older and everything above younger than the time asked
  for; a range is at an edge of what the ring holds only with the size it started with, `RingSize`, or one
  less than a power of two, which halves to one less than a power of two and ends at one sample. Only a
  range of two samples has an empty half, and an empty range ends one below itself: for the range at the
  lower edge that would be a slot that holds a sample of the other end. A ring of any other size reads it.
* `Induction`: the library's induction theorems cannot be used here, so `StrongInduction` and
  `SimpleInduction` say the same of sets, from the well-foundedness of finite subsets (`LeastNatural`), and
  `RecursionIsSound` that a recursive function has the values of its definition if each depends on values
  of lower rank only. `TotalsAreSums`, `PowersOfTwo`, `BisectEquation` and `PowerEquation` use it.
* `HostProofs`, about `HostSpec`, `Sv2Spec` and `NetSpec`: `TrippedAlwaysStaysOff`,
  `ShutdownAlwaysFinal`, `UpdatesAlwaysUnpowered`, `SelectedImageAlwaysWhole` from `HostInv`: the mutex is
  held exactly by the firmware update that is between its first and its last sector, or by the access of
  a web upload to the flash (`LockFollowsUpdates`), a firmware update that holds it means a shut-down
  board (`HeldIsShutDown`), a cut supply has no voltage waiting to be
  applied (`NothingToApply`: the cache and the setting agree as soon as the next round would look), and
  the slot that is erased is neither the running nor the selected one (`Images`).
  `NamedJobIsAlwaysMined`, `WorkAlwaysHasTheTarget` from `ChannelInv`: a job that can still be named is
  in its slot (`RingHoldsFutureJobs`, which rests on `SlotsDiffer`: two of the last `PendingSize` jobs
  never share a slot), and the job the pool wants is the next to be handed over or is the work.
  `TypesAlwaysOK`: all five parts of `MCHost` keep their types, whichever runs (`PartsInv`).
  `FlagsAlwaysCatchUp` from `NetInv`: the last queued event of an interface says what its driver is in,
  and with none queued the flags do (`Told`).

Only model-checked: all liveness properties (`BootFailoverIfUp`, `PrimaryKeepsConnectingIfUp`,
`SavedSettingsAreUsed`, `ShutdownParksTasks`, `AbandonedJobsAreReplaced`, `NotifyReachesAsic`,
`SlavesComeBack`, `DeadSlotsGoOffline`, `HotBoardIsCut`, `SwitchedFirmwareBoots`, `UpdateEnds`,
`NetworkComesBack`), which the prover cannot reach. Every invariant and every refinement a passing run
checks is also a theorem. Three theorems state what no run checks: `MessagesAlwaysInOrder`;
`IdsAlwaysRegistered`, which adds the registry in RAM to what `ImplementsIdRegistry` says of NVS; and
`IdsUniqueUntilDeletion`, the limit of which the run `fleet_unique` shows.

## 6. Not modelled, and why

* Watchdogs (an hour without a share answer, the task watchdog): they reboot, and what follows is an
  initial state. Time as such: how long a mutex is held, how old a job is.
* Parsing and formatting (JSON, Stratum lines, coinbase transactions), hashing, the noise cipher, the
  PID controllers (floating point): data, not control.
* Register access, displays, Influx, Discord, price feeds, captive-portal DNS: input and output; nothing
  in the modelled parts depends on their state. The vendored libraries and the web interface are outside
  the firmware's own code. Most of the repository's lines are images and fonts in C arrays, vendored
  libraries and register tables, so that the mapped lines are a small share of them by design.
* Failing NVS writes, failing memory allocation, a torn copy of the CAN registry.
* The hash-rate monitor (differences of 32-bit counters, one register reply at a time) and the one-time
  passwords (hash functions around one session token) are sequential code of a few lines each, within
  the reach of unit tests.

Hazards no property covers:

* `stratum_task.cpp:386`: the receive call blocks while a pool keeps the connection open and stays
  silent; the flags are looked at only afterwards. Liveness assumes the pool says something.
* `stratum_manager.cpp:257`: `submitShare` runs without `m_mutex` while `m_config` and the transport may
  be replaced, and the V2 ciphers are used by two tasks: data races below the level of these models.
* `stratum_manager.cpp:77`: the class of a task (V1 or V2) is chosen at boot, a protocol change in the
  settings takes a restart.
* `stratum_manager.cpp:130`: the hourly watchdog hides stuck states by rebooting.
* `create_jobs_task.cpp:81`: a notify before the answer to mining.subscribe finds no extranonce.
* `can_sender.cpp:18`: nonces, HELLO and ASSIGN are sent without the transmit lock.
* `can_slave_task.cpp:227`: the job timeout is looked at only when a frame arrives.
* `can_master_task.cpp:206`: a registry that cannot be written is used as if it were saved.
* `ping_task.cpp:204`, `influx_task.cpp:199`: a mutex held for as long as the network takes.

## 7. Plan

What is left, the most important first:

1. `StratumRequests`: the line buffer of the transport, ids of requests and answers, and what a late
   answer is taken for.
2. `JobPipeline` fed by `Sv2Channel` instead of notifies, and the dual mode of the manager as a second
   implementation of `PoolSession`.
3. `HashCounter`: differences of 32-bit counters, against their definition.
4. One-time passwords: enrolment, sessions and restarts.
