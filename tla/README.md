# TLA+ models of uvrgw

uvrgw is a gateway daemon between the CAN bus of UVR controllers, Modbus, MQTT,
REST sources and a SunSpec meter interface. All of them exchange *named values*:
a name has one producer and any number of readers. These modules model how the
threads of the daemon exchange, keep, compute and send the values, TLC checks
them on small instances, and TLAPS proves almost every safety property for
every size.

All `src/...:line` references are to the repository's sources.

## 1. Inventory

| Component | State it keeps | Operations | What is hard |
|---|---|---|---|
| value dispatcher, `uvrgw_conf.c` | per name: `last_value`, `valid`, `deadline`, `timed_out`, `received`, `disp_lock`, `last_lock`, callbacks | `uvrgw_conf_disp_val`, `uvrgw_conf_get_val`, watchdog thread, startup, shutdown | every module's thread publishes and reads; the watchdog resets a value while new data arrives |
| configuration, `uvrgw_conf.c` and the `*_conf_*` functions of the modules | the list of dispatchers while it is built: producer, readers, slots | reading the sections, `check_dispatchers`, `uvrgw_conf_reg_cb` | seven modules in a fixed order count, check and fill the same table in different passes |
| persistent counters, `counter.c` | per counter: `accum`, `last_read`, `dirty`, times, power; the state file | source callback, counter thread (integrate, save), load, shutdown | device resets and glitches, crashes, failing saves, changes during a save |
| evals, `eval.c` | pending flags, `next` times, inputs and trigger lists | trigger callback, eval thread, setup checks | triggers during an evaluation, lost wakeups, cyclic references |
| Modbus master, `mb.c` | link, turn (slave, block, output), times, the write queue, register images of bitmask outputs | poll, write, reconnect, `write_schedule`, conversion of registers | values queued during a write, link errors anywhere, starvation, limits of the types |
| CAN, `can.c` | send buffers, send times | `send_value`, TX thread, `iface_rx_handler` | updates while a frame is sent, failing writes, short frames, values that share bytes |
| MQTT, `mqtt.c` | connections (`mosq`, `connected`), subscriptions, state topic | publish, callbacks of the network threads, start/stop | instances destroyed while threads publish; a connection that comes up or is lost while it is stopped; late wills |
| MQTT logger, `mqtt_logger.c` | `next_time` | snapshots at multiples of the interval | the wall clock is set or not synchronised |
| main, `main.c` | which module is up | start order, signals, stop order | a failure or signal at any point |
| REST poller, `rest.c` | per connection: next poll, the document being received | poll, parse chunk by chunk, dispatch | requests that fail late, partial answers, `valid_if` |
| SunSpec server, `sunspec.c` | client slots, register images | accept, answer, image update | full slots, image built from changing values |
| utilities, `utils.c` | - | limiting a number, clocks | part of the modules that use them |
| tinyexpr, buildroot, tests | - | - | not modelled (section 8) |

Components interact in one way only: a producing thread calls
`uvrgw_conf_disp_val`, which stores the pair and calls the callbacks of the
readers *in that thread*, under the `disp_lock` of the name. A counter's callback
takes the counter's lock and publishes its total from there (a nested dispatch);
an eval's callback only marks the eval and wakes the eval thread; CAN, Modbus
and MQTT outputs put the value into a buffer, a queue, or libmosquitto.

What makes the program correct, component by component, is what section 4 lists
as properties; each is tied to a line of code in the `hazards` of
`PROJECT.json`.

## 2. Modules

| Module | Models |
|---|---|
| `Dispatch` | the dispatcher and the watchdog, lock by lock |
| `ValueCell` | abstract: a name is one atomic cell with outputs; what `Dispatch` implements |
| `Config` | `uvrgw_conf_load`: sections, dispatcher table, checks, registration |
| `LockOrder` | extends `Config`: the nested calls and mutexes of the threads that an accepted configuration runs |
| `Counter` | one counter, its source, its thread, its file, crash and restart |
| `Eval` | trigger callbacks and the eval thread |
| `EvalInputs` | `close_inputs`: which outside values decide a value's validity |
| `EvalCycles` | `check_cycles` / `visit_eval`: the search for trigger cycles |
| `ModbusMaster` | one master thread with its slaves, the write queue and the shared register images |
| `RestPoller` | one JSON connection: poll, transfer, values, stale values |
| `Codec` | numbers to integers and back: scale, offset, rounding, limits, two's complement, bits of a word |
| `MbRegisters` | extends `Codec`: what `mb.c` writes into registers and makes of them when it reads |
| `CanLayout` | extends `Codec`: values in the data bytes of a CAN frame, sent and received |
| `CanTx` | the TX thread of a CAN interface and `send_value` |
| `MqttConn` | one broker connection: callbacks, `conn_stop`, state topic, will, subscriptions |
| `SunspecServer` | the thread of a SunSpec server, its client slots and its clients |
| `SunspecImage` | the register image of a meter and the answers made from it |
| `MqttLogger` | the schedule of a logger |
| `Lifecycle` | `main` with start, failure, signal and stop of all modules and the MQTT instances |
| `DispatchProofs`, `CounterProofs`, `EvalProofs`, `LifecycleProofs` | TLAPS proofs about the module of that name |
| `EvalSetupProofs` | proofs about `EvalInputs` and `EvalCycles` |
| `PollersProofs` | proofs about `ModbusMaster` and `RestPoller` |
| `OutputsProofs` | proofs about `CanTx`, `MqttLogger`, `SunspecImage`, `Codec`, `CanLayout` and `MbRegisters` |
| `ConfigProofs` | proofs about `Config` and `LockOrder` |
| `MCDispatch`, `MCCounter`, `MCEval`, `MCModbus`, `MCModbusRefused`, `MCLifecycle`, `MCOutputs`, `MCConfig` | instances for TLC |

State variables carry the names of the C fields. The `map` in `PROJECT.json`
gives the source lines of every definition. Definitions introduced by a comment
that begins with *Mutant:* are wrong on purpose: they are what the code would be
with a plausible mistake, and `PROJECT.json` says which property notices.

### How code becomes actions

* A mutex section that no other thread can look into is one step. Where other
  threads can look in (the `disp_lock` section stores, re-arms and calls each
  callback while readers and the watchdog go on; a value is stored in two
  assignments under `last_lock`), each access is a step.
* A clock read outside of the lock under which it is used is a step of its own
  (`Counter`, `CanTx`, the watchdog's pass, `MqttLogger`).
* A call that blocks (a Modbus transaction, `mosquitto_publish`, writing and
  syncing a file) begins and ends in separate steps.
* A step of an external library has every outcome the code distinguishes: a
  Modbus transaction is answered, refused, answered with nonsense (a bad CRC), not
  answered, or breaks the link.
* Numbers are abstracted to small sets. Only what a property needs is kept: that
  a number is finite or not (`Dispatch`, `Eval`), or its size (`Counter`, where
  energies are integers in a unit finer than the state file's last decimal;
  `Codec`, where numbers are counted in halves so that every rounding case is an
  integer, and words are a few bits wide).

### Composition

`Dispatch` treats a callback as one step; what happens inside is modelled with
its owner (`Counter`, `Eval`, `ModbusMaster`, `CanTx`). In turn these see a
dispatch only as a call of their callback. The one thing this split could hide is
a circular wait through several of them, and `LockOrder` exists for that: it
composes all locks of the nested calls over *every* configuration `Config`
accepts. `MCModbus`, `MCLifecycle`, `MCOutputs` and `MCConfig` put parts that
share no state, and whose questions are alike, into one run: a variable `part`
says which of them a behaviour shows, the others rest in a final or initial
state. Nothing is lost by that, and no interleaving of unrelated threads is paid
for.

## 3. Correspondence

**Dispatch.** A producer: `DispVal` (refusal of non-finite numbers,
`uvrgw_conf.c:885`), `LockName`, `StoreValue`/`StoreValid` (under `last_lock`),
`Arm`, one `FireCb` per callback (the producer's own value is left out),
`UnlockName`. A reader: `ReadValid`, `ReadValue`. The watchdog: `WatchdogPass`
reads the clock once, then for each timed name `WatchdogVisit`, `LockName`,
`WatchdogExpire` or `WatchdogLeave`; a reset goes through the same store and
callbacks. Main: `StartupBegin`/`StartupArm`/`StartupDone` arm every deadline
while MQTT and counter threads already deliver; `ShutdownBegin`/`ShutdownDone`.
A computed name (counter, eval) has no timeout, as the configuration enforces.

**Config / LockOrder.** One step reads one section with any content, or goes on
to the next module; a wrong option is a nondeterministic refusal. Compiling,
triggers, the cycle check, `check_dispatchers` and the registrations follow in
the code's order; an output module registers its callbacks in one step, counters
and evals one element a step. That a step may look up the transitive closure in
place of `check_cycles` is what `CyclesRefused` of `EvalCycles` is for. Then the threads run: a thread is the stack of its calls, each
with the mutex it takes: `disp_val` on a name, `source_update` on a counter,
`trigger_update` and `eval_thread` on the eval lock.

**Counter.** Source thread: `SourceBegin` (clock read), then, under the lock,
`DeviceUpdate`, `PowerUpdate`, `PowerStop` or `SourceIgnored`. Counter thread:
`ThreadWakes`, `ThreadTick` (integrate), `SaveSnapshot` (copy under the lock,
clear `dirty`), `SaveWrite` (temporary file and rename), `SaveFails`, `SaveSync`
(fsync of the directory). `Crash` at any step; what was renamed but not synced
may be lost. `LoadState`/`Startup`, `CounterStop`/`CounterShutdown`/`Exit`. The
conversion `"%.6f"` is `Rounded`.

**Eval.** `InputUpdate` stores a value and then calls `TriggerUpdate` for each
triggered eval; the thread locks, scans (`ScanDue` releases the mutex, reads each
input in a step, publishes, takes the mutex again), waits with a timeout or for a
signal, and may wake up spuriously. `EvalShutdown` clears the flag and signals.
`EvalInputs` is the fixpoint loop of `close_inputs`, one value a step;
`EvalCycles` is the depth first search with an explicit stack in place of the
recursion of `visit_eval`.

**ModbusMaster.** The thread takes one task per pass: connect, write or read for
the slave whose turn it is; a transaction ends as `ReadOutcomes`/`WriteOutcomes`
allow. A write without a valid answer may have been done. `WriteSchedule` comes from other threads at any step. Outputs that are
bits of one register share an `image` that is changed before the write and kept
when it fails, and a write sets the whole register from it. Times are ticks left,
so behaviours are infinite.

**RestPoller.** `PollStart` sets the next poll; `ChunkCompletes` is the chunk with
which the JSON text is complete, before the transfer has ended; `GetFails` and
`GetSucceeds` end it, the latter with the checks for an object and `valid_if`;
`ProcessValue` is one turn of the loop in `conn_task` (dispatch or skip).
`WatchdogLooks` is a round of `watchdog_thread`: it checks the deadlines only if
`CheckPeriod` (`WATCHDOG_CHECK_MS`) has passed since the last check, and then sleeps
for up to `LookPeriod`, so a value stays valid for a while after its deadline. (A check
of all names is one step here; its interleaving is in `Dispatch`.) A number's age
counts from the request it came with.

**MbRegisters.** An output block and an input block map the same registers.
`WriteValue` is the switch of `write_execute` (coil, 16 and 32 bits in both word
orders, bitmask through the shared `valbuf`), `ReadBlock` is
`read_block_registers` or `read_block_bits` with `expect_reg`, `sunspec_na`,
scale factor, scale and offset. `DispatchValue` drops what is not finite
(`mb.c:1054`): a power of ten above `MaxExp` is infinite, and so is every product or
sum beyond `MaxFloat`; below that a double is taken as exact, and its rounding is
left out. Numbers are counted in units of the smallest power of ten a register can
ask for. The device changes its scale factor and model register at any step.

**CanLayout.** `SendValue` is the encoding part of `send_value`, `Receive` is
`iface_rx_handler` for any frame on the bus: the one sent, cut to any length with
anything behind the cut, frames of other ids and extended frames.

**MqttConn.** The network thread connects, runs `connect_callback` in three steps
(flag, "ON", subscriptions) and `disconnect_callback`; `conn_stop` reads the flag,
publishes, disconnects and joins in separate steps. libmosquitto's queue, the
link and the broker are external: packets are lost with the link, the broker
notices a lost session late and then publishes its will, takes an old session
over when the client's id is known, and forgets subscriptions (clean session).

**SunspecServer / SunspecImage.** `SelectAccept` and `SelectOnly` are one pass
through `select` with or without an accepted client, `HandleClient` and `Reply`
handle one ready slot. Clients close, vanish, or send while the server is
elsewhere; keepalive turns a vanished client into a read error. `SunspecImage`
reads one source a step (`SrcGet`) while sources change, then puts the registers
or answers with an exception. That the lengths the models announce add up to the
size of the mapping is an `ASSUME` TLC evaluates.

**CanTx.** `send_value` reads the clock, locks the frame, changes the buffer and
arms the send time; the TX thread sends the timestamp and due frames, then sleeps
(`until_pass`, `IFACE_THREAD_PERIOD_US`). A failing write ends its pass; the frame is
lost, it is sent again only when an update arms it. Time also passes for frames that
are overdue. `send_timeout` and `timestamp_period` are not checked by the code
(`can.c:180`), so they may be anything, also shorter than the sleep.

**MqttLogger.** The thread reads the wall clock and runs `logger_task`; the
environment lets the clock tick, sets it, and changes the synchronisation state.

**Lifecycle.** `StartModule`, `StartFails`, the steps of `mqtt_startup` and
`conn_startup`, the loop, and one stop per label at the end of `main`, while every
running thread may be inside `mosquitto_publish` on any connection.

## 4. Runs

| Run | Properties | Distinct states |
|---|---|---|
| `dispatch` | `OutputsFollowStore`: whenever no dispatch of a name is under way, all outputs hold the stored pair; `DeadlineFitsValue`: a timed out name is reset and disarmed, a valid one armed within its timeout, and once running every timed name is watched or reset; `NoPrematureReset`: a reset comes only after a full timeout without data | 1.5 million |
| `dispatch_cell` | `SilenceIsNoticed`: a silent source ends in a reset at store and outputs; `ImplementsFairCell`: refinement of `ValueCell` with its fairness, so readers never see half a publication, nothing that is not finite is published and each publication reaches every output | 201 000 |
| `counter` | `CleanIsSaved`: what is not dirty is in the file; `NeverOvercounts`: no energy that the device did not meter; `GlitchesAreBounded`: with `max_power`, nonsense adds no more than the time allows; `TotalNeverDecreases`; `BrokenFileIsKept`; `ChangesAreSaved` | 773 000 |
| `counter_rounding` | violation of `NeverOvercounts`: finding A | - |
| `eval` | `NoTriggerLost`, `ScheduleKept`, `ValuesSettle`, `DueEvalRuns`, `ShutdownCompletes` | 259 000 |
| `modbus` | master: `NoWriteLost`: the newest value is in the device, the queue or on the wire; `DeviceNeverGoesBack`: no write, of whatever bit of a register and however often it is repeated, puts an older value back; `BlocksAreServed`; `AcceptedIsWritten`. REST: `AgeIsBounded`: a value that is valid is never older than its timeout, one request, and a check period and a round of the watchdog; `PollIsComplete`: a poll takes every number of its document and nothing else | 156 000 |
| `modbus_refused` | violation of `AcceptedIsWritten`: finding B | - |
| `lifecycle` | `StoppedBeforeDestroyed`, `SavedAfterLastValue`, `NothingLeft`, `SignalEndsProgram`; broker: `PresenceSettles`: when connections are no more lost, the state topic shows the truth for good and all inputs are subscribed; SunSpec: `ClientsAreServed`: no slot stays with a client that is gone, every waiting client is dealt with | 32 000 |
| `lifecycle_mqtt_fails` | violation of `NoUseAfterDestroy`: finding C | - |
| `mqtt_state` | violation of `StoppedIsOff`: finding D | - |
| `outputs` | CAN: `NoUpdateForgotten`; `ArmedIsSent`: an armed frame is tried, even if all writes fail, when the times leave room, and else if a pass gets to its end now and then; `FrameRoundTrip`: what is received is the number the type can hold that is nearest to the one sent, for all values of a frame at once; Modbus: `WrittenReadsBack`, the same for registers, and a number is missing only if the block is not the expected one, it is marked as not implemented, or it is not finite; SunSpec: `AnswerIsCurrent`: a data answer holds numbers that were valid since the request; logger: `NextIsNear`, `SlotsIncrease` | 307 000 |
| `configuration` | `SourcesAreSound`: an accepted configuration has one producer per name and no current power read from an input that may freeze (powers an eval computes are not checked, `uvrgw_conf.h:262`); `SlotsFilled`; `NoCircularWait` for every interleaving of its threads; `ClosureExact`: `close_inputs` computes the least closed sets; `CyclesRefused`: `check_cycles` refuses exactly the trigger relations with a cycle | 937 000 |

Type invariants are stated in the modules; most of them are part of the inductive
invariants of section 6.

### Bounds

* `dispatch`: two names, a computed one with one callback and a timed one with
  two, the watchdog and two producers. `DataHorizon` is the last time at which a dispatch
  begins, `MaxTime` where the clock stops; timeouts and the check period are one
  tick, so data, expiry and a second pass all fit. Every property is about one
  name and the threads that meet at it; the second name is there so that the
  watchdog's pass has a time older than the data it meets. The safety
  properties do not depend on the bounds at all (section 6).
* `dispatch_cell`: one name with two outputs, a producer, the watchdog and a
  reader, data in a later tick than startup.
* `counter`: worlds of `MCCounter` bound energy, time, device resets, failed
  writes and starts of the program (`energy`, `time`, `resets`, `fails`,
  `loads`). One device reset, one failed write, and one crash with restart reach
  every pair of those events; counters share nothing but the file's directory.
* `eval`: a chain of two triggered evals ordered so that it needs two scans, and
  a periodic one. `MaxUpdates` counts input changes and spurious wakeups: two
  let one arrive during the evaluation the other caused. `MaxTime` is one
  period.
* `modbus`: two slaves (one dead), two blocks on the other and two outputs that
  are bits of one register; versions 0 (at the start), 1 and 2 of a value
  (`MaxVersion`): an old one in the device, a newer one on the wire, the newest
  queued. REST: two values, so that one can be missing beside the other;
  `GetTimeout` < `PollInterval` < `JsonStale`, as a sensible file has it, and a
  timeout longer than the interval would only make polls rarer. `CheckPeriod` 3 and
  `LookPeriod` 2: a deadline falls at every distance from a check, and a check at
  every distance from its time; ages up to two ticks below the bound are reached.
* `lifecycle`: two connections, since one must fail after another one runs;
  `MaxCalls` bounds the threads inside `mosquitto_publish` at once. Each
  property is about one call at a time; what further calls could add is a later
  join, and three of them keep the joins of several modules waiting. Broker:
  `MaxLosses` = 2 lets the session after a lost session be lost as well. SunSpec:
  three clients for one slot (`MaxClients`), so one holds it, one waits and one is
  rejected.
* `outputs`: two frames, one value each, one dispatching thread; `MaxLag` is how
  far a thread may fall behind its clock reading. The second frame is armed again and
  again with the same value (`Updates`), which keeps the contents of one frame apart
  from the timing of two. `Timings` are pairs of `send_timeout` and `timestamp_period`:
  no timestamps, a timestamp due at every pass, a period that leaves room for the
  first frame, and times that leave room for both. Logger: `MaxClock` spans more
  than two intervals, `MaxSets` two changes of the clock. Layouts: every pair of
  types at every position of a frame of five bytes of two bits (`DataLen`,
  `ByteBits`: the widest type and one byte more; nothing in the code depends on
  the width), with a negative scale on one of them, and numbers far outside of
  every range, at limits, and halves. Registers: two bits (`WordBits`), six blocks that
  between them have every type, both word orders, bitmasks, coils, scale factor,
  `expect_reg` and `sunspec_na`. `MaxExp` and `MaxFloat` are so small that a scale
  factor of ten is already infinite and that the largest raw numbers overflow when
  they are scaled. Image: two phases, summed.
* `configuration`: every eval of three values with an outside value (a closure
  treats outside values one by one), and every relation between four evals:
  cycles of each length, diamonds, and cycles that are reached from outside.
  Loading and running: `MaxSections` value, counter and eval sections over three names,
  each expression with `MaxReads` names and each trigger list with `MaxTriggers`.
  The file is chosen section by section. Three sections reach an input, its
  counter and a counter or eval on top of it, and two evals on one input. Names
  are interchangeable, hence the symmetry. Only here a behaviour may end without
  a successor: a refused configuration ends the program, so deadlock is not
  checked by TLC, and `NoCircularWait` says what a deadlock would be.

### Fairness

Safety properties are checked without it. The fair specifications say that a
thread that can go on does so (the daemon's threads are never suspended) and
that time passes. Beyond that:

* mutexes need not be fair, with one exception each in `Dispatch` and `CanTx`:
  whoever waits for `last_lock` or a frame's lock gets it eventually (strong
  fairness of `StoreValue`, `SendStore`), as its holders take it for a few
  instructions and then sleep or wait;
* in `ModbusMaster` a connection that can be made, and a write that can succeed,
  does so some time; a value the device always refuses has no such outcome;
* in `Lifecycle` a thread to be joined comes to the end of its pass, and `select`
  reports the eventfd;
* in `MqttConn` the broker answers, does not refuse a client for ever, and notices
  a lost session some time (keepalive); the number of losses is bounded;
* in `SunspecServer` keepalive gives up on a client that does not answer
  (`accept_client` enables it), and `accept` does not fail for ever.

No producer is forced to publish, no value to be queued, and main never to stop.
Failing writes of `CanTx` may fail for ever; only for times that leave no room for a
frame (`Roomy`) does `ArmedIsSent` ask that a pass is not cut short every time.

## 5. Findings and observations

* **A** (`src/counter.c:610`, run `counter_rounding`): the state file has six
  decimals. If `last_read` is rounded up, the unchanged reading after a restart
  is below it and is counted in full as a device reset.
* **B** (`src/mb.c:754`, run `modbus_refused`): a value that a device keeps
  refusing is retried first each time, and the values behind it in the list of
  that slave are never written.
* **C** (`src/mqtt.c:377`, run `lifecycle_mqtt_fails`): if a later connection
  fails to start, the network thread of an earlier one may be publishing on the
  instance that is destroyed. Once MQTT is up, `StoppedBeforeDestroyed` holds on
  every path.

* **D** (`src/mqtt.c:467`, run `mqtt_state`): `conn_stop` looks at `connected`
  once. A connection that comes up just then publishes "ON" after the "OFF", or
  with no "OFF" at all, and the orderly DISCONNECT that follows cancels the will:
  the state topic shows a program that has ended.

Met while modelling, not the subject of a run:

* **E** (`src/counter.c:282`, `:389`): the clock is read before the lock. If the
  counter thread integrates in between, the older time is stored as
  `integrated_ts`, which `counter.h:74` describes as "time (ms) integrated up
  to", and that stretch (the wait for the lock) is integrated again.
  `TotalNeverDecreases` holds nevertheless.
* **F** (`src/mqtt_logger.c:221`): the schedule is realigned when the clock is
  more than one interval before the next slot. A step back of less than an
  interval causes that when it passes the last slot; the comment on line 220
  says "clock jumped back (more than one interval)". A
  slot may then be logged again; `SlotsIncrease` is stated for a clock that is
  not set back.
* `src/can.c:180`, `:530`: `timestamp_period` and `send_timeout` have no lower limit. With
  a period of at most `IFACE_THREAD_PERIOD_US` the timestamp is due at every pass; if it
  cannot be written each time, no frame is ever tried, and a frame that is always due
  does the same to the frames behind it. `ArmedIsSent` says which times exclude that
  (`Roomy`); without that condition TLC shows the starving frame.
* `client_id` may be left out (`src/uvrgw_conf.c:97`); the broker then gives a new
  id to every connection and cannot take the old session over. Its will may come
  after the "ON" of the new connection, and the state topic stays "OFF" while the
  program is connected. `PresenceSettles` is checked for a given id (`KeepsId`);
  with `KeepsId = FALSE` TLC shows that case.
* `README.md:479` of the repository comments the `scale = 10.0` of an output with
  "stored as integer × 10"; the code divides by `scale`, so a tenth is stored.
* Bitmask outputs of the same register share an image only within a block
  (`src/mb.c:256`): two output blocks that map the same register overwrite each
  other's bits. `MbRegisters` assumes one block.
* `src/mb.c:1179`: if `modbus_set_slave` failed in a write, the value taken from
  the queue would be dropped. Slave ids are checked when the configuration is
  read, so it cannot fail there.

## 6. Proofs

Every theorem below holds for every value of the constants that satisfies the
named `ASSUME`s of its module, which say no more than what the configuration
checks, what makes model values distinct, or a fact of arithmetic. Each is proved from an inductive
invariant: a conjunction of named parts, shown for the initial state and for each
action. The bounds of the runs (`MaxTime`, `MaxSections`, `MaxVersion`, ...) are
constants too: the theorems hold for all of them.

**Dispatch** (`DispatchProofs`), any number of names, producers, readers,
callbacks, any timeouts.

* `TypeCorrect`: `Spec => []TypeOK`; in particular the store holds only finite
  numbers. Types alone are not inductive: that a stored number is of an existing
  name depends on where a thread is. `TypeControl` adds `ControlInv`: which program
  counters each kind of thread has (`PcInv`), that a `disp_lock` is owned by
  exactly the thread inside its section (`LockInv`), and what the frame of a
  dispatch holds (`FrameInv`).
* `OutputsInStep`: `Spec => []OutputsFollowStore`. `SyncInv` says what is true
  *inside* a dispatch: a name whose owner has stored nothing yet is in step, and a
  thread past that point has stored its number (`ValueStored`), its validity
  (`ValidStored`), and has given the pair to every output behind it
  (`FiredSoFar`). `OneOwner` (two threads are never in the section of one name)
  keeps a step of one thread from disturbing what is said of another.
* `DeadlinesFit`: `Spec => []DeadlineFitsValue`, and `ResetsAreDue`:
  `Spec => NoPrematureReset`. The properties speak of names at rest; `WatchInv`
  says what holds while a dispatch is under way. `Armed`: the deadline is behind
  the last data by less than a timeout only while its owner is between storing
  and re-arming (`Renewing`). `Fits`: the stored pair goes with `timed_out` as long
  as nothing has been changed (`Quiet`), and `timed_out` stays set while the
  watchdog stores and delivers its reset. The premature reset is excluded since
  the pass's time is at most the clock's, and the deadline is read under the lock.
* `DispatchImplementsCell`: `Spec => Cell!Spec`, the safety part of the
  refinement of `ValueCell`. `ReadInv` says that `last_lock` is held between the two
  halves of a store and of a read. `CellsAre` computes the refinement mapping
  (`CellPair`, `Waiting`) from the one thread that is inside a name's section, and
  each action is then a step of one cell or a stutter.

**Config, LockOrder** (`ConfigProofs`), any names, any number and order of
sections, any number of threads.

* `AcceptedSourcesAreSound`: `Spec => []SourcesAreSound`. `ProducerInv` counts: the
  inputs, counters and evals that publish a name are one if its `producer` is set
  and none otherwise; `ReaderInv`: who needs current power is a `timeout_reader`.
* `SlotsAreExact`: `Spec => []SlotsFilled`. `SlotInv` splits `value_count` by who
  reserved a slot (outputs, counters on the name, triggers of the evals compiled so
  far), `FilledInv` gives the length of `value_cbs` at each point of the
  registration. The rest is counting, with `FiniteSetTheorems`.
* `NobodyWaitsInCircle`: `Spec => []NoCircularWait`. `Rank` orders the mutexes: names
  of inputs and evals, counters, names of totals, the eval lock. `LockInv`: the
  calls in a thread's stack take mutexes of increasing rank (`Ordered`), and who
  owns a mutex has it in its stack. The step from a counter to its total needs
  that no counter reads another counter's total (`CheckInv`: the load has refused
  such a file) and that a counter's callback is only registered at its source
  (`CbInv`). Of a circle the thread waiting for the highest rank would wait for
  one that waits for a still higher one.

**Counter** (`CounterProofs`), any device, power, sign, times, crashes and
restarts.

* `ChangesAreMarked`: `Spec => []CleanIsSaved`. During a save the clean state is the
  copy being written, not yet the file (`CleanIsKept`); and what a crash leaves
  must read and write back unchanged (`Stable`), for which the lemma
  `FileIsStable` shows that the rounding of `"%.6f"` is idempotent.
* `TotalsOnlyGrow`: `Spec => TotalNeverDecreases`; what was published is at most the
  total in memory.
* `BrokenFilesAreKept`: `Spec => BrokenFileIsKept`; a broken file has disabled the
  counter, and nothing is dirty (`BrokenDisables`).
* `EnergyIsMetered`: `Grain = 1 /\ Spec => []NeverOvercounts`. `Honest` strengthens
  the bound: the total *and what the device's present reading would add to it* is
  not above the energy, for the state in memory, the copy being written, the file
  and what a crash may bring back. `Grain = 1` says that readings are no finer than
  the file's last decimal. It cannot be dropped: finding A is the counterexample.
* `NonsenseIsBounded`: `Spec => []GlitchesAreBounded`, for readings and nonsense of any
  size. The bound on the total grows with the clock; what is inductive is the bound
  up to the last accepted change (`Plausible`, with `change_ts` for `now`): the next
  reading may add `max_power` for exactly the time since then (`TwoStretches`).
  `GlitchInv` adds that a first run begins without a total, that the clock reading in
  flight lies between the last change and now, and that nonsense is taken as a whole
  only while nothing was taken before.

**Eval** (`EvalProofs`), any evals, triggers, periods.

* `TriggersAreKept`: `Spec => []NoTriggerLost`. `NoneForgotten`: an eval that shows an
  old result is requested (flag set, or a dispatch has still to call its
  callback) or being read; `ReadsFresh`: what an evaluation has read so far is
  stored still, or it is requested again; `NoneSkipped`: a scan that has evaluated
  nothing has left no flag behind.
* `ScheduleIsFixed`: `Spec => []ScheduleKept`; the next time is a whole number of
  periods after the start (`OnSchedule`), with the arithmetic of the division in
  `NextOf` as lemmas.

**EvalInputs, EvalCycles** (`EvalSetupProofs`), any number of values, evals and
references.

* `Exact`: `CloseSpec => []ClosureExact`, from `Complete` and `Least`. The invariant is
  `QuietPrefix`: a pass that has not changed anything so far has left all values
  before `val_idx` closed.
* `CycleCheckIsExact`: `CyclesSpec => []CyclesRefused`. A cycle is a nonempty set of
  evals each triggered by one of the set, so that no induction over paths is needed.
  The evals marked 1 are the path, each triggering the next (`PathMarked`), so
  meeting one again is a cycle; what a done eval triggers is done (`DoneClosed`),
  and among the done evals there is no such set (`DoneAcyclic`).

**ModbusMaster, RestPoller** (`PollersProofs`), any slaves, outputs, outcomes, any
times and documents.

* `WritesAreKept`: `Spec => []NoWriteLost`, and `NumbersGoForward`:
  `Spec => DeviceNeverGoesBack`. `Stages`: the versions of an output in device, image,
  queue and dispatcher never overtake one another; `WriteUnderWay`: the image holds
  what was taken from the queue.
* `NumbersAreFresh`: `RestSpec => []AgeIsBounded`. `AgeAtReset`: before the deadline the
  age plus the time left is at most `JsonStale + GetTimeout`; behind it the age plus the
  longest wait for the next check (`CheckWait`: until the check is due, and one round of
  the watchdog) is at most the bound, as every tick takes from that wait what it adds to
  the age. `PollsAreComplete`: `RestSpec => []PollIsComplete`; the loop
  has dispatched the numbers it has passed.

**CanTx, MqttLogger, SunspecImage, CanLayout, MbRegisters** (`OutputsProofs`), any
number of frames, slots, threads, phases, any interval and clock, any layout of frames
and blocks, any numbers, scales and offsets, bytes and registers of any size.

* `UpdatesAreSent`: `Spec => []NoUpdateForgotten`; the frame being written is disarmed
  *before* the write (`WritingIsDisarmed`).
* `SnapshotIsNear`: `LoggerSpec => []NextIsNear`, and `SlotsAreLoggedOnce`:
  `LoggerSpec => SlotsIncrease`; as long as the clock was not set back, the next
  snapshot is later than the last one and needs no realignment (`LoggerInv`).
* `AnswersAreCurrent`: `ImageSpec => []AnswerIsCurrent`; what has been read so far is
  something the source had since the request (`ReadIsSeen`).
* `FramesRoundTrip`: `LayoutSpec => []FrameRoundTrip`. The invariant is `BytesKept`: the
  bytes (or the bit) of every value sent so far still hold the number sent last,
  whatever has been sent as the values beside it. `WriteKeeps` shows this for the
  value written, `WriteSpares` for the others, byte against byte, byte against bit and
  bit against bit of one byte. A receiver takes a frame only if `min_dlc` covers all
  its values (`DlcCovers`), hence reads only bytes that were received.
* `WrittenIsRead`: `RegistersSpec => []WrittenReadsBack`. The invariant is `RegsKept`:
  the registers of every value written so far hold its number, and the register of
  a bitmask is the image its bitmasks share. `MbStoredIs` shows that a raw integer
  looks like SunSpec's "not implemented" exactly if it is the reserved one. The
  power of ten of a scale factor is never computed, so the theorem holds for all
  exponents, and for any limits `MaxExp` and `MaxFloat` of a double; what lies beyond
  them is dropped and is the third reason for a missing number (`AnswerIs`).
* Both rest on lemmas about `Codec`, for all integers: rounding is off by at most one
  half (`RoundError`) and limiting keeps to the nearest side, so what is stored is
  the nearest number of the type (`StoredIsNearest`); the conversion to unsigned and
  back is the identity on the type (`ConvertedBack`); bytes are put together to what
  they were taken from (`BytesRead`, a telescoping sum of `DigitStep`); setting a bit
  sets this bit and no other (`BitSet`, `OtherBits`).
* The provers know `^` only as an operator. `PowerLaw(b, n)` says what it means for
  exponents up to `n`, and `LayoutPowers` and `RegisterPowers` assume it for two (up
  to the bits of a byte or register) and for the number of values of a byte or
  register (up to the words of the longest type). These are facts of arithmetic, and
  TLC evaluates them for the instance. The induction over exponents, and the maximum in
  `min_dlc`, are done with a least counterexample (`LeastElement`, from the library's
  well-founded induction), which needs no operator as a parameter.

**Lifecycle** (`LifecycleProofs`), any number of connections and threads.

* `ThreadsStopFirst`, `CountersAreSavedLast`, `MainLeavesNothing`:
  `Spec => []` of `StoppedBeforeDestroyed`, `SavedAfterLastValue`, `NothingLeft`, all
  from `LifeInv`: for each position of `main` which threads may run (`RunInv`) and
  which instances exist (`InstanceInv`), and that a thread inside
  `mosquitto_publish` runs and uses one of these (`CallInv`). The condition that MQTT
  has come up is what finding C needs.

Only model-checked:

* all liveness properties (`SilenceIsNoticed`, `ChangesAreSaved`, `ValuesSettle`,
  `DueEvalRuns`, `ShutdownCompletes`, `BlocksAreServed`, `AcceptedIsWritten`,
  `SignalEndsProgram`, `PresenceSettles`, `ClientsAreServed`, `ArmedIsSent`) and the
  fairness that `ImplementsFairCell` adds to the refinement: the prover does not
  handle fairness and `ENABLED`;
* the properties of the runs that expect a violation: the code does not have them
  (section 5).

## 7. Plan

1. Done: `Dispatch` with `ValueCell`, then its clients in the order of what a
   mistake costs: `Counter`, `Eval` with its setup checks, `ModbusMaster`,
   `Lifecycle`, the outputs `CanTx` and `MqttLogger`, and `Config` with `LockOrder`,
   which ties them together.
2. Done: the rest of the program: the REST poller, the SunSpec server and its
   image, the register codecs, the CAN layout and reception, and the broker
   connection with its faults.
3. Done: every invariant and every safety property of the passing runs is a theorem
   (section 6).
4. Left: the float registers of Modbus and SunSpec, which need a model of IEEE
   arithmetic.

## 8. Not modelled

* The look-up of a path in a JSON document (`json_path_lookup`): `RestPoller`
  knows only what is found there. The float formulas of the SunSpec image
  (apparent power, power factor, phase-to-phase voltages) and `f32` registers: IEEE
  arithmetic is out of TLC's reach.
* Option parsing and ranges, file syntax: a refusal in `Config`. libconfuse,
  libmodbus, libmosquitto, libcurl are external; only the outcomes the code
  distinguishes are kept.
* Expressions: tinyexpr is vendored; the models keep which names an expression
  reads and whether its result is finite. The functions `eval.c` adds (`if`,
  `min`, `max`, `clamp`, `hyst`) are stateless formulas and not modelled.
* Parsing and formatting of MQTT payloads, topics, log lines and JSON. The flags
  that only limit logging (`get_failed`, `too_short`, `accept_failed`, ...) are
  left out.
* The buildroot image and the tests contain no logic of the daemon. The tests
  were read for the behaviour they expect.
