# car-can-proxy: TLA+ models, model checking and proofs

car-can-proxy reads a vehicle through a plugin (OBD-II, UDS, a game's telemetry,
a script) and puts a fixed set of nine CAN frames, the *contract*, on a second bus
for an instrument cluster. What makes it correct is mostly about time and about
threads: a cluster must not be shown values that are old, must be told when the
vehicle is gone, must not be flooded or starved, and the daemon must start and stop
its three threads so that none uses what another has released. This directory
models those parts in TLA+, checks them with TLC and proves the most important
results with TLAPS for all values of the parameters.

`PROJECT.json` lists the components, the runs, the source lines every definition
stands for, a mutation of the code for every property, the hazards and the
theorems.

## 1. Inventory

| component | source | state | operations | interacts with |
|---|---|---|---|---|
| wire contract | `contract/can_proxy_contract.h` | none | frame ids, cycles, stale windows, encoders and decoders | mapping, consumers |
| mapping | `core/Mapping.cpp`, `include/canproxy/plugin.h` | none | `framesFrom`, `capabilitiesFrom` | publisher |
| state store, publisher | `core/Publisher.*` | last vehicle state and its time, link; slot deadlines, heartbeat counter, `m_running` | `publish`, `setLink`, `snapshot`; `start`, `arm`, `tick`, `nextDeadline`, `stop` | the host callbacks of plugin threads write, the publisher thread reads and sends |
| plugin interface | `include/canproxy/plugin.h` | none | vehicle state, host table (`publish`, `set_link`, `log`), plugin table | every plugin, host |
| plugin host | `core/PluginHost.*` | handle, descriptor, instance, started | `load`, `create`, `start`, `stop`, `unload`; callbacks `publish`, `set_link`, `log` | main calls down, the plugin's thread calls back |
| main | `core/main.cpp` | `g_stop`, its position | start-up, wait, shutdown, error returns | owns bus, host, publisher; signals |
| configuration, logging, contract socket | `core/Config.*`, `Log.*`, `CanSocket.*` | options; level; descriptor | parse; log; open, send, close | main |
| obd2-ice plugin | `plugins/obd2-ice/obd2_ice.cpp` | supported PIDs, values, poller, lamps, publish time, running flag | discover, poll, drop fillers, notice loss, publish, stop | libobd, host callbacks |
| poller | `libobd/src/Poller.cpp` | items with intervals, last request, last answer; unanswered streak | `add`, `remove`, `clear`, `nextDue`, `markRequested`, `markAnswered`, `fresh`, `nextDeadline` | obd2-ice, emu-ev |
| J1979 client and codec | `libobd/src/J1979Client.cpp`, `J1979.cpp` | the ECU that answered | discover, query, idle; build and parse | vehicle bus |
| ISO-TP, UDS | `libobd/src/IsoTp.cpp`, `Uds.cpp` | socket | transact, read DID | emu-ev |
| CAN channel, recording | `libobd/src/CanChannel.cpp` | socket, log file | open, send, receive | J1979 client |
| emu-ev plugin | `plugins/emu-ev/` | DIDs per ECU, values, freshness | discover, poll, publish, loss | ISO-TP |
| forza plugin | `plugins/forza/` | UDP socket, last packet time | receive, publish, silence | host callbacks |
| sim plugin | `plugins/sim/sim.cpp` | script phase, link switch | generate, publish | host callbacks |
| tools | `tools/` | replay position; last frame times | replay, answer requests; dump, check timing | buses |

Three threads run in the daemon: main, the publisher's, and the plugin's. They
share the state store (one mutex) and two running flags. The behaviours that are
hard, and the properties that make each part correct:

* **Publisher** – the clock is read outside the store's mutex on both sides; one
  thread serves nine slots of five different periods from one sleep and may wake
  late. Correct means: bounded age of what is on the bus, link loss shown in
  bounded time, no burst after a delay, no drift, no gap beyond a stale window, a
  heartbeat counter without jumps, capabilities that stay.
* **Plugin host and main** – threads, code and socket are created and released one
  after the other while signals arrive and steps fail. Correct means: no callback
  into unmapped code or without a running publisher, no send on a closed socket,
  every path out joins both threads, and every join ends.
* **obd2-ice** – a thread that blocks in requests against a vehicle that comes,
  leaves, loses requests, and answers with filler values. Correct means: what it
  calls valid is recent, loss and return are noticed in bounded time, and what it
  advertises stays.
* **emu-ev** – the same thread against two ECUs on two sockets, one of which may be
  silent, late or refuse. Correct means: an old record is never taken for a new one, a
  silent battery ECU neither takes the link down nor starves the speed for longer than a
  round of timeouts, and what is polled is what is advertised.
* **libobd** – several ECUs answer one request, answers come after their timeout, the
  socket holds what nobody has read. Correct means: one ECU is listened to, a discovery
  is no mixture, a request ends, and a late answer is used only as far behind as requests
  were given up.
* **Wire contract** – clamps, roundings and "signal not available" codes at the ends of
  ranges, bytes of neighbouring fields. Correct means: a consumer sees what was measured,
  to the field's resolution, and never takes a value for SNA or SNA for a value.
* **forza, sim** – silence of a game, a thread that is delayed, a script of phases.
  Correct means: the link follows the game both ways, and the script keeps to the clock
  and to its lamps for every tick.
* **Tools** – a recorded session is only useful if it replays, and a verdict on lost
  frames only if it is right with a one-byte counter.

## 2. Plan

Most important behaviour first; modules marked * are in place.

1. `Contract`*, `Schedule`*, `ScheduleTimes`*, `Mapping`*, `Publisher`*: the data
   path from a plugin's call to the bus, and its timing; proofs of the bounds.*
2. `PluginHost`*, `Daemon`* (composes host, publisher thread and signals); proofs of
   safe callbacks and clean exit.*
3. `Poller`*, `Obd2Ice`*: the main plugin.
4. `EmuEv`*: discovery of two ECUs, per-DID failure, late replies on the ISO-TP socket.
5. `J1979Client`*: several ECUs, the block chain, late answers in the receive queue.
6. `PluginSession`*: what the publisher may rely on from a plugin, as an abstract
   specification; `Obd2Ice`*, `Forza`* and `Sim`* refine it. `StateStore`* is the
   publisher's side of the same calls, shared by `Publisher` and the plugins' properties.
7. `Wire`*, `ContractDump`*: the contract's numbers, from the field of a vehicle state to
   a consumer, and the consumer's verdict on lost frames; `Replay`*: recording and replay.
   `Bench`* composes the programs that read a bus beside the daemon.
8. `Feeds`* composes forza, sim and the derived proxy state.

9. Proofs, for all values of the constants: of the consumer and the wire's numbers, the
   J1979 client and the replay (`BenchProofs`*), of `Publisher`'s history*, of forza and
   sim (`FeedsProofs`*), of the poller's operations (`PollerProofs`*) and, on top of
   them, of every property of `Obd2Ice` (`Obd2IceProofs`*) and of every property of
   `EmuEv` that holds (`EmuEvProofs`*).

Left, in this order:

10. A bound on how late a slow PID is polled when every query takes its whole timeout, for
    any number of items: `SpeedPolled` of `EmuEv` is that bound for the first item only.
11. A weaker session that `EmuEv` refines too. As stated it does not: section 7.
12. The options of `Config`.

## 3. Modules and the code they model

**Contract** holds the nine frames, `canproxy_cycle_ms`, `canproxy_stale_ms`, the
proxy states and the schedule order `kOrder`.

**Mapping** translates `framesFrom`. A vehicle state is abstracted to four sets: the
signals it is capable of, the signals that are valid, the enumerated signals whose
field holds no value of the enumeration, and the lit lamps. A frame is abstracted to
the signals it shows as values and the lamps it shows as lit; a lamp without a telltale
bit is shown nowhere.

**Schedule** is the publisher thread: `start`, `arm`, the wake-up, `tick` as one
clock read, one snapshot and one step per slot served in slot order, `stop`, the loop's
exit. `NextDue` is the deadline arithmetic with its resynchronisation.
**ScheduleTimes** adds history variables for what a consumer can measure: the clock of
the last tick that served a slot, and, as frames leave later than that clock was read, when
the last three frames of a slot were sent (`sentAt`, for the slots in `Watched`; all of
them in the proofs).

**StateStore** is `StateStore::Snapshot` and `derive`, the proxy state of a snapshot.
**PluginSession** is the other side of the host table, as an abstract specification: a
plugin reports the vehicle before it hands over anything, hands over a current value only
while it reports a vehicle and only of a signal it advertises, and is silent once it has
been joined. `publishedAt` makes handing over the same state again a step.

**Publisher** adds the data: `HostPublish` (clock read) and `StorePublish` (the
locked write) are separate steps, because `hostPublish` reads the clock before it
takes the lock; `SetLink`; `derive`; the frames of a tick, built from the snapshot
and the tick's clock; the counter. Time may pass between any two steps. Plugin
threads call only while the publisher runs: that is `CallbacksSafe` of `Daemon`.
`bus`, `heartbeat` and `downSince` are history variables.

**PluginHost** has the four fields of the host and an external plugin: its
running flag and a thread which is in its loop or in a host callback, also after the
flag has been cleared until the next look at it. A call of
the host is one step except where it joins the plugin's thread; `joining` names the
call that waits. Every failure of `load`, `create` and `start` is a choice.

**Daemon** extends PluginHost with `main` statement by statement, every early return,
the publisher as a flag and a thread, both signals at any time (a signal without a
handler kills the process), and the destructors in their order.

**Poller** has the poller's operations as operators on a record. **Obd2Ice** is the
plugin's thread: blocking calls are states in which time passes, everything between
two of them takes no time. A value is the time at which the vehicle answered it. The
vehicle is external: one ECU, present or not; `heard` says that it has received the
outstanding request and will answer; with `Lossy` a present vehicle may leave a
request unanswered; with `BusErrors` sending or receiving may fail at once; PIDs in
`Fillers` may answer implausibly. `Promise` is its refinement mapping to `PluginSession`:
the variables are its own, and the session is over at `pc = "done"`.
Lamp broadcasts queue in the socket (`inbox`, at most
`MaxQueue`) whatever the thread does, and count as new when a blocking call reads them.

**EmuEv** is the thread of emu-ev and emu-hybrid against two external ECUs that come
and leave alone or together (`Movers`). The engine ECU is asked over the raw socket as in
`Obd2Ice`: `Blocks` is what each block of its chain advertises, `block` and `found` are how
far a discovery has come; each block is a request with its own timeout, the first one
unanswered fails the discovery and a later one ends it with what was found
(`DiscoverCutShort`). The speed, PID 0x0D, can only be in the first block. The battery ECU is asked over
ISO-TP: `owed` are the requests it has not answered, `rx` the replies in the socket;
`transact` drops what is left over, sends, and reads one reply; with `Late` a reply may
come after its timeout, when another DID is being asked for. `record` holds what the last
decode left in a DID's fields: a record that is too short leaves them alone, one out of
range is stored and then refused. `MCEmuEv` has the vehicles.

**J1979Client** is the client of libobd over its socket, with several external ECUs that
all receive a functional request and answer it late, in part or never; the socket keeps
what arrives. The caller discovers, queries, idles, closes and opens in any order, except
that it queries only after a successful discovery, as both plugins do. Both plugin
modules have the client with one ECU and an answer that comes in time or not at all; this
module is where the rest of it is.

**Replay** records the session of such a client (`CanChannel`'s log), builds
`can-replay --respond`'s table from it and lets a new client use the answers.

**Wire** has the numbers: a quantity is an integer number of 1/400 of its unit, a quarter
of the finest step on the wire, so every rounding case occurs. `codeOf` is what
`framesFrom` and the encoders make of it, clamps in the code's order; `pack` and `unpack`
work on bytes. **ContractDump** sends what `pack` makes of a snapshot over a bus that
loses frames to the tool that decodes it, or counts the gaps of the status counter.

**Bench** composes the client, the replay and the consumer, one per behaviour; they share
nothing. **Forza** and **Sim** are the two plugins without a vehicle bus; a datagram is
what `parse` makes of it, with its time of arrival. The return of forza's `poll()` and the
reading of the clock after it are separate steps, between which time may pass and datagrams
arrive, as are the reading of a packet and the publish and check that follow. Sim's script
is its phases with their lamps. **Feeds** composes them, one per behaviour as `--plugin` loads one, with `derive` of what they told the host.

Operators whose comment begins with *Mutant* are plausible bugs of the definition
that follows. They are used by nothing; each is substituted for that definition to
show that a property fails then.

## 4. Runs

| run | question | instance | distinct states |
|---|---|---|---|
| schedule | Is the nine-frame schedule free of bursts, drift, stale gaps and stalls when the thread is late? | the contract's cycles and windows at 50 ms per unit; lag up to 4 units (200 ms, the largest that fits the shortest stale window); 9 units; the sends of the first 50 ms slot recorded | 577 thousand |
| publisher | How old can what a consumer is told be, how fast does a lost link show, does the status frame keep its promises? | STATUS, TELLTALES and the optional ASSIST at 100 ms per unit, one plugin thread, a vehicle with a lamp and driver assist and one without, lag 1, 4 units, counter modulo 3 | 2.2 million |
| plugin_host | Any order of host calls, any failure | no constants | 312 |
| daemon | Start-up, shutdown, signals, failures | no constants | 438 |
| obd2_poll | Are valid values recent, is loss noticed, does the layout hold, is the publisher kept supplied, and is the session's promise kept, with losses, bus errors and fillers? | two blocks, one fast PID and one filler PID, two moves of the vehicle, 10 units | 2.1 million |
| obd2_recovery | Is return noticed in time although the thread wakes late, and how old can a lamp be that is handed over as lit? | one block, one lamp, lag 1, two moves, 9 units | 8.1 million |
| emu_late | Is a late, short or negative reply ever taken for a new record; does a slow battery ECU cost the link or the speed? | one PID; PACK and ASSIST served, RANGE and DRIVE answered negatively; 6 units | 3.5 million |
| emu_loss | Is the loss of both ECUs noticed, wherever in a discovery they leave, and does polling agree with what is advertised after rediscoveries? | two blocks, one PID polled, PACK served, the engine ECU or both move twice, 11 units | 3.8 million |
| emu_lamps | How old can a broadcast lamp be that waited in the socket during a retry pause? | two blocks with a polled PID each, no DID, one lamp, 8 units | 2.4 million |
| emu_refused | finding (section 7) | all DIDs served, good and refused records | violation |
| feeds | Does forza's link follow the game both ways, does sim keep to its script and clock, and do both keep the session's promise? | forza: timeout 4, polls of 2, lag 1, 11 units; sim: four drivetrains, ticks of 2 and 3 thirds of a second, delays of 4, a stall, 140 units | 4.8 million |
| bench | Does a client stay with one ECU and one discovery, does a recorded session replay, does a consumer see what was measured, is the verdict on lost frames right? | two ECUs, one with a chain of two blocks, 4 requests, 2 frames in the socket; logs of 7 frames; every field at both sides of each boundary; up to 257 frames lost in a row | 2.8 million |

**Bounds.** `MaxTime` stops the clock; every other variable is bounded by it. Nine units
of the schedule hold two resynchronisations of the 50 ms slots at the largest lag, three
at a smaller one, and several services of the 100 ms and 200 ms slots; slots of 500 ms and
1 s are served once, and the proofs cover all cycles and unlimited time. The times of
sending are recorded for one slot, one of the two with the shortest cycle, in which most
frames are sent and missed. Four units of `publisher` hold a publish, its timeout, a link
loss and its report on all three frames, and a wrap of the counter, which is modulo 3 so
that a repeated value, the next one and a skipped one are three different ones; several
plugin threads at once are covered by the proofs only. Ten units of `obd2_poll` hold a
discovery, a loss of five requests and a failed rediscovery, at lag 0; the slow tiers'
three-interval windows are longer than that, so `ValidRecent` is exercised on the fast
PID, whose window is three units. Nine units of `obd2_recovery` hold loss, pause and
return, and a lamp that waits through the pause; its lamp window is one unit, so that a
lamp that stays lit for ever exceeds its bound within the nine. `MaxQueue` 1 is enough for
the age of a lamp, since the oldest broadcast is the one that counts; `emu_late` has 2, so
that a late reply can lie in the socket with another behind it. Six units of `emu_late`
hold a discovery with both probes and a round of polls with late replies; eleven of
`emu_loss` a discovery that both ECUs leave after the first block, the timeouts of the
second block and of the probe, and the eight unanswered polls: the bound is attained. Its
second block has a PID that emu-ev does not poll, which keeps the run small: that
`PolledIsAdvertised` also holds when a polled PID is lost with its block is the theorem's,
which is for any chain. In `emu_lamps` no DID is served, so the term for a round of DID
polls in that bound is not exercised; the pause and the window are, and the largest age
that occurs is one unit, the discovery timeout, below the bound: the two add up only when
the window holds eight polls. In `feeds` 140 thirds of a second are one drive cycle of 44
s and the beginning of the next, with a tick that divides no phase of odd length; 11 units
of forza hold a game that starts, falls silent, is reported lost and returns, with other
datagrams in between, and a thread that is late at each of its steps; both bounds of forza
are attained. In `bench` four requests are a discovery of two blocks, a query that is
given up and one that meets its late answer, or two discoveries; the window of the replay
is 4 frames instead of 16 so that logs of 7 frames have answers out of reach; 257 lost
frames in a row are one more than the counter can show; the 32-bit odometer is cut to 24
bits because TLC's integers have 32. Time scales are shrunk, ratios of timeouts kept in
order (fast interval <= discovery timeout < retry pause).

**Lag.** `MaxLag` is the assumption about the operating system: how late a thread may
leave a sleep or a blocking call, or serve a slot. Every bound contains it.

**Deadlock** is checked in every run; `Terminated` and `Finished` are the only states in
which nothing need happen.

**Fairness.** `schedule`: weak fairness of the publisher thread and of time.
`plugin_host`, `daemon`: weak fairness of main, of the publisher's send and exit, and of
the return from a host callback (the callbacks take one mutex for a bounded time); strong
fairness of the plugin thread's exit, because a round of its loop makes finitely many
callbacks and blocking calls, all with timeouts, before it looks at its flag again. No
fairness is assumed of signals, of the vehicle, or of a plugin's start.

### Properties

* `NoBurst`, `NoDrift`, `NeverStale`, `KeepsServing` – what a consumer can
  measure of the schedule, under a late thread; `RateBound`, which follows, is only proved.
  `NoBurst` is about the times at which frames are sent, and its number is four: a slot's
  frame can be delayed after the clock was read, and the tick missed meanwhile and the one
  due by then follow at once, so that three leave together; the fourth is at least a cycle
  after the first.
* `BusFresh` – whatever any frame asserts was handed over at most the plugin timeout, one
  cycle and the lag ago. `LinkLossReported` – one cycle and the lag after `set_link(0)`
  no frame shows a value and the status says no-vehicle, although a tick may have taken
  its snapshot just before. Both leave out the driver-assist frame, which stops being
  sent when its capability goes: a consumer drops its last content by the stale window.
* `CounterContinuity` – each status frame carries the counter of the one before plus one;
  it is about every status frame that is sent, so that a repeated value is a violation as
  well as a skipped one. `CapabilitiesStay`, `NeverOlder` – what successive frames never do.
* `HostInv` (types, `Nested`, `NoOrphan`), `QuietAfterStop`, `CallsReturn` – the host
  under any caller.
* `CallbacksSafe`, `SendsOnOpenBus`, `CleanExit`, `ShutdownCompletes`,
  `FailedStartExits` – the process.
* `IceSession`, `FeedSession` – obd2-ice, and forza and sim, implement `PluginSession`.
  `KeepsPublishing` – while obd2-ice reports a vehicle it hands over a state often enough
  that only a plugin timeout below that bound makes values flicker, and the first state of
  a new session comes no later after `set_link(1)`.
* `LossReported`: at most max(fast interval, discovery timeout) + 5 fast intervals
  + 6 lags (the vehicle may leave in the middle of a discovery).
  `RecoveryReported`: at most the attempt and the pause that the vehicle just missed, or
  the query that ends the streak, whichever is longer, then one timeout per block, and the
  lags. `ValidRecent`: three intervals of the PID. `LayoutHolds`: the first block's signals
  stay advertised. `LampsRecent`: the retry pause, in which the socket is not read, plus
  the lamp window, plus a discovery timeout (a failed discovery publishes with the clock it
  read before the attempt), plus lags; it holds while the bus works. The last two terms do
  add up: a lamp that waited through the pause counts as new, and when five fast timeouts
  fit into the lamp window the vehicle can be lost again before the window has passed. When
  every send fails at once the socket is not read at all, and a lamp waits as long as that
  lasts.
* Of `EmuEv`: `RecordsRecent` – a DID handed over as valid was sent at most three of its
  intervals ago although replies come late. `SpeedPolled` – between two polls of the speed
  each other item is polled at most once, so with n items the speed is at most two fast
  intervals, or just under n + 1 of them when every poll takes its whole timeout, and n + 1
  lags old; with a silent battery ECU that is longer than the three intervals for which the
  speed counts as valid, so it flickers. It is n + 1 and not n because the first of those
  polls may begin just before the speed is due. `LinkHolds` – a silent battery ECU
  does not take the link down. `LossReported` – both ECUs gone show after eight polls and,
  if they left in the middle of a discovery, the timeouts of a later block and of a probe
  before them; an engine ECU that leaves alone does not take the link down while the
  battery ECU answers. `PolledIsAdvertised` – poller and capabilities agree after any order of
  discoveries, complete or cut short. `LampsRecent` – as above, with the probes and polls of the DIDs as further
  times in which the raw socket is not read. It is about a vehicle that advertises the
  speed: section 7 says what happens without.
* Of `Feeds`: `GameTracked` – forza reports the game gone within its timeout, a poll and
  four delays of its thread, whatever other datagrams arrive, and nothing is shown as live
  without a game that sends. `NoFalseLoss` – it never does while telemetry keeps coming at most the timeout
  less the thread's delay apart. The delay has to be subtracted: `poll()` may return without
  a datagram and the clock be read late, and that delay counts as silence although telemetry
  arrives in it (section 7). `ScriptKept` – sim's lamps are those of its phase for every
  tick and cycle, its time keeps up with the clock although its thread is delayed, and its
  stall ends in a publisher without a live value.
* Of `Bench`: `ClientInv` – one ECU is used from discovery to discovery and a request
  ends by its deadline in any flood of frames. `DiscoveryCoherent` – a discovery reports
  the first blocks of one ECU's chain and no mixture. `LagIsPaidFor` – the client matches
  an answer by PID alone, so a late answer can be taken for the next request's; it is then
  behind by at most the requests for this PID that were given up in this session.
  `SessionReplays` – every PID of a one-ECU session whose answer lies in the window is
  answered on replay, with nothing older than the recorded client used last.
  `ShownIsMeasured` – a consumer knows a signal exactly when it was live, valid, capable
  and, if enumerated, in the enumeration, and sees its nearest code, or the end of the
  range. `VerdictRight` – `--require-counter` fails exactly when frames were lost, but for
  multiples of 256.

## 5. Proofs

All theorems hold for every value of the constants that satisfies the named assumptions,
all of which TLC evaluates:

* `OrderAssumption` (the schedule lists distinct frames, at least one), `TimingAssumption`
  (cycles positive, lag natural), `StaleAssumption`, `WatchedAssumption` (the watched slots
  are slots), `PublisherAssumption` (timeout
  natural, counter modulus positive, capable signals exist, only enumerated signals can
  hold an unknown value);
* `VehicleAssumption` (the vehicle has at least one block of PIDs that the plugin knows;
  only the two PIDs that the code tests for plausibility have fillers),
  `PollTimingAssumption` (durations natural, those of calls and pauses positive; no order
  among them is assumed);
* `EcuAssumption` of `EmuEv` (the engine ECU has at least one block of PIDs that the plugin
  knows, and the speed in none but the first; which DIDs are served, the kinds of record, and the lamps
  each DID can call for, as `publish` reads them) and its `PollTimingAssumption`, as above;
* `FeedsAssumption` (durations natural, a tick of sim at most a second, and of forza the
  order of the code's constants: publish gap <= wait for a datagram <= timeout);
* `BenchAssumption` (the ECUs, their chains of blocks and the timeouts have their types),
  `MeasuredAssumption` (what is measured are integers), `U32TopAssumption` (the largest
  code of the 32-bit field is one, so that the theorem covers its full width and the run
  the width that TLC's integers allow), `ConsumerAssumption`.

One theorem has a hypothesis of its own: `LampsAreRecent` of obd2-ice assumes `~BusErrors`;
section 4 says what happens without it.

| theorem | statement |
|---|---|
| `ScheduleTimesProofs!ScheduleInvariant` | deadlines lie between the lag in the past and one cycle in the future |
| `ScheduleTimesProofs!Invariance`, `TypeCorrect`, `DriftFree`, `StaleFree`, `BurstFree`, `RateBounded` | `Inv`, types, `NoDrift`, `NeverStale`, `NoBurst`, `RateBound` |
| `PublisherProofs!Invariance`, `TypeCorrect`, `BoundedAge`, `LossReported` | `Inv`, types, `BusFresh`, `LinkLossReported`, for any number of plugin threads |
| `PublisherProofs!HistoryInvariance`, `CounterAdvances`, `CapabilitiesKept`, `NothingOlder` | `HistoryInv`; `CounterContinuity`, `CapabilitiesStay`, `NeverOlder` |
| `DaemonProofs!HostInvariant`, `Quiet` | `HostInv` (types, `Nested`, `NoOrphan`); `QuietAfterStop` |
| `DaemonProofs!Invariance`, `SafeCallbacks`, `OpenBusSends`, `ExitsClean` | `Inv`, `CallbacksSafe`, `SendsOnOpenBus`, `CleanExit` |
| `Obd2IceProofs!StateInvariance`, `Invariance` | the thread's invariant; `Inv` (`TypeOK`, `LossReported`) |
| `Obd2IceProofs!ValidIsRecent`, `LayoutIsHeld`, `LampsAreRecent`, `IceIsSession` | `ValidRecent`, `LayoutHolds`, `LampsRecent`; `Obd2Ice` implements `PluginSession` |
| `Obd2IceProofs!PublishingIsKept`, `RecoveryIsReported` | `KeepsPublishing`, `RecoveryReported` |
| `EmuEvProofs!StateInvariance`, `TypeCorrect`, `Invariance` | the thread's invariant; types; `Inv` (`TypeOK`, `LossReported`) |
| `EmuEvProofs!PolledAdvertised`, `RecordsInvariance`, `RecordsAreRecent` | `PolledIsAdvertised`; what waits in the ISO-TP socket; `RecordsRecent` |
| `EmuEvProofs!LinkStaysUp`, `SpeedIsPolled`, `LampsAreRecent` | `LinkHolds`, `SpeedPolled`, `LampsRecent` |
| `FeedsProofs!FeedsInvariance`, `GameIsTracked`, `NoneFalselyLost`, `ScriptIsKept`, `FeedsAreSessions` | `FeedsInv`; `GameTracked`, `NoFalseLoss`, `ScriptKept`; forza and sim implement `PluginSession` |
| `BenchProofs!ClientInvariance`, `ClientSafe`, `DiscoveryIsCoherent` | the client's invariant; `ClientInv`, `DiscoveryCoherent` |
| `BenchProofs!LagInvariance`, `LagIsPaid` | the invariant of the answers in flight; `LagIsPaidFor` |
| `BenchProofs!ReplayInvariance`, `SessionIsReplayed` | the recorder's and replayer's invariant; `SessionReplays` |
| `BenchProofs!ConsumerInvariance`, `MeasuredIsShown`, `VerdictIsRight` | the consumer's invariant; `ShownIsMeasured`, `VerdictRight` |

`RateBound` and the inductive invariants of the schedule, the publisher and the
daemon are proved and not repeated in a run.

*Schedule.* (`ScheduleTimesProofs`; `PublisherProofs` repeats the lemmas it needs, for its
own instance of the schedule.) `DeadlineInv` is not inductive alone: a service moves the deadline by the
tick's clock, so `TickInv` keeps that clock in the past and the slots still to be served
due by it. `NextDueBounds` is the one lemma on the arithmetic of `NextDue`. `TimesInv`
relates each deadline to the number of services and to the last tick; the properties
follow from it by arithmetic. For `NoBurst` it has `SendsInv`: of the times of sending only
order is known, each before the clock of the next tick that serves the slot; but each
service moves the deadline a cycle beyond what the tick before it had read, so that the
third last send is at least a cycle before the deadline, and the next send is after it.

*Publisher.* `NextIsSchedule` shows that each step is a step of the schedule or leaves it
alone, so the schedule's invariant is inherited. `FreshInv` says that the deadline of a
slot whose last frame asserts something is at most a timeout and a cycle after the data
was handed over; `LinkInv` that a snapshot or frame which does not know of a lost link is
from a tick no later than the loss. With `DeadlineInv` (time never passes a deadline by
more than the lag) they give the two bounds. Neither bound follows from the state of the
store alone, which is why the deadline appears in the invariants. `HistoryInv` relates
the frames already sent to what is still on its way to them, a snapshot taken and a
publish whose clock has been read: the counter is one ahead of the last status frame, so
that the next one sent continues it, whatever is on its way is no older than what has been sent, and has capabilities if that
had. With several plugin threads the second part fails, as two of them can write in the
other order than they read the clock; `NeverOlder` is therefore about one thread.

*Host and daemon.* `NoOrphan` contains that a call waits in a join only while the plugin
is started; `LocationInv` says what exists at each statement of `main`. Each action of
`main` is shown to preserve the host's invariant by the host's own lemmas.

*Poller.* `PollerOk` (types, each PID once) is preserved by every operation, and for each
a lemma says what becomes of every item. `nextDue` chooses the most overdue item;
`BestExists` proves by the least-number principle that there is one and `OverdueOrder`
that the comparison by cross-multiplication is an order.

*obd2-ice.* `StateInv` has the thread's place, clocks, call, layout, items and lamps. The
parts the properties need beyond types: in `LayoutInv`, what a discovery has found so far
includes the first block, and nothing has been advertised unless the first block without
its fillers is supported; in `ItemsInv`, an item's last answer is the time of the value in
the other map, unless it has none, and its interval is that of its tier, from which
`ValidRecent` follows. `PublishInv`, `RecoveryInv` and `StaleInv` bound, at each place of
the thread, when its call ends by the last sign of life given to the host (`LastSign`), by
the vehicle's return (`Meets`, `Takes`), and by the age of the broadcasts that wait.
`LossReported` needs the most: `SilentStreak` bounds both the clock and the next request of
a fast PID by the number of requests unanswered so far (`Asked` while one is outstanding,
`Waited` between two), and is inductive only with `SilentBlock` (a later block of a
discovery that the vehicle left unanswered) and `DueInv` (an idle call does not outlast the
deadline of a fast PID). That `DueInv` holds depends on the loop reading its clock
where it does.

*emu-ev.* `StateInv` has the same parts for two ECUs on two sockets. `PolledInv` says at
each place of a discovery which keys have been added, from which `PolledIsAdvertised`
follows. `IsoInv` bounds how long the first reply in the ISO-TP socket has waited while the
thread reads it, which is true only because `transact` has dropped what was there before;
hence `RecordsInv`: the last answer of a DID is at most a lag younger than its record.

`LinkHolds` and `SpeedPolled` rest on the order in which the poller chooses. The speed is
the first item (`FirstInv`) and has the shortest interval, so whenever it is overdue only an
item that was due before it can go first (`FirstGoesFirst`), and an item last polled since
the speed was (`SinceItem`) is not due before it. `Others` is the set of those items: it
grows with each poll of another item, and a poll of the speed empties it. Hence at most one
round of polls lies between two polls of the speed. For the link: only DIDs can be
unanswered while the engine ECU answers, and `LinkInv` bounds the streak by the number of
those polled since the speed was, at most four, so it does not reach eight. For the
speed: `Round` bounds the end of the outstanding call by the last answer, a fast interval
and one timeout and lag for each member of `Others`; the case distinction in it is the one
of the `Max` in the property. The induction is over the steps of the thread, so no bound on
the number of rounds is needed.

`LossReported` is as in obd2-ice, with eight polls and the DRIVE DID as second fast item
(`SilentStreak`), and with `GoneInv` for ECUs that leave in the middle of a discovery: a
later block that was asked for before they left ends within a discovery timeout, the probe
that follows within two. `ChainInv` has the place in the chain; that what has been found
after the first block includes it is what keeps the speed polled after a discovery that was
cut short.
`LampsRecent` bounds the age of the oldest broadcast that waits, place by place
(`StaleInv`): with the speed advertised the raw socket is read at least once a round, and
the DIDs polled since the speed was are again members of `Others`.

*forza and sim.* Of forza, `QueueInv` says that what waits in the socket is in order of
arrival and no older than a delay, `SeenInv` how the clock read with the last telemetry
relates to its arrival and to what waits, `SilenceInv` when the silence is looked at next.
For `NoFalseLoss` the clock of the check is at most a delay old. Of sim, simulated time equals the
time the next step is due, so delays do not add up, and from the first step on the lamps are those of the phase.

*Client, replay, consumer.* The client's invariant says whose answers can be in the
socket and that a discovery under way holds the first blocks of the ECU it has chosen.
`LagInv` adds, for `LagIsPaidFor`, what is in flight: each answer in the socket and each
request an ECU still owes names a request made and its PID, and those of one ECU are in
order (`Flight`); and, in a session, the requests for a PID from any one in flight on are no
more than those without an answer (`PaidInv`). A request that is sent adds to both sides;
giving it up changes neither, as it was without answer before; an answer that is used takes
one from the right side, and from the left of every later one, since answers are used in
order. Only that a session begins with the answer to its very last request makes it true at
the start. The replayer's invariant says that what it used
answers its request with no other request between; the first answer in a window is found
by the least-number principle. The consumer's rests on the numbers of `Wire`: `codeOf` stays
within the codes of its field and off the SNA pattern, packing and unpacking are inverse
byte by byte, and the code conveys the value. The counters
of the proxy, of the frame on the bus and of the last frame read differ by the frames lost
in between, modulo 256.

**Only model-checked.** Liveness (`KeepsServing`, `CallsReturn`, `ShutdownCompletes`,
`FailedStartExits`), which needs fairness and `ENABLED`, is beyond this prover. Every other
property of a passing run has a theorem. What a recursive definition computes for every
input cannot be proved here; no property that has a theorem rests on one (`pollerFor` of
`Obd2Ice` and of `EmuEv` are chains of seven conditional additions).

## 6. Not modelled, and why

* `Config`: sequential string handling. One edge is worth knowing: the plugin timeout is
  parsed as `long` and stored as `unsigned` (`core/Config.cpp:63`), so 2^32 is accepted and
  becomes 0. The models take any natural timeout.
* The numeric scalings of J1979, of the DIDs and of forza's packets, and the ISO-TP frames:
  straight-line formulas without state. That a filler, short or out-of-range record is
  recognised is modelled, not how.
* Doubles are exact in `Wire`: neither representation error nor NaN is modelled. The
  structure of the frames' reserved bits is not either.
* Of the tools, `can-replay --timed` and its broadcast thread, the log's text format and
  time stamps, and contract-dump's jitter and rate statistics, which are measurements
  without effect on the bus.
* The byte order of `CanSocket` and the kernel's filters; a socket is open or not and
  delivers what passes the filter.
* The sim's waveforms, logging, and `scripts/`, `systemd/`: output or
  deployment without control.
* A failed send on the contract bus: it is logged and changes no state.
* The last proxy state that the publisher remembers for its log.

## 7. Findings

`emu_refused`: `decodePack`, `decodeDrive` and `decodeAssist`
(`plugins/emu-ev/EmuProfile.h:30`, `:49`, `:60`) store the fields before they refuse a
record out of range, and `publish` hands them over while the answer before is still
fresh. `docs/plugin-authoring.md:43`: "Set a `valid` bit only when the field holds a
current measurement."

Observations made while modelling, without a run:

* obd2-ice: only `markAnswered` clears the poller's count of requests. An answer dropped as
  an implausible filler is not marked (`obd2_ice.cpp:201`), so the vehicle can be declared
  gone after fewer than "five unanswered requests in a row" (`:15-16`).
* obd2-ice: a PID that is dropped "for the session" (`:22-24`) is advertised again after
  the next discovery, which replaces the supported set (`:116`). `LayoutHolds` therefore
  leaves the filler PIDs out.
* emu-ev: every discovery starts with `bmsPresent = false` (`EmuPlugin.cpp:103`), so a
  battery ECU that is silent at a rediscovery loses its capability bits, where
  `docs/emulator-ev-profile.md:112-113` says that its signals "go unknown while the
  capability bits hold".
* emu-ev: a failed discovery clears the PIDs' values but not the poller
  (`EmuPlugin.cpp:238-240`), so a slow DID that is still within its three intervals is
  handed over as valid right after `set_link(0)`. The publisher shows nothing without a
  link, so no consumer sees it, but it is why emu-ev does not implement `PluginSession`.
* emu-ev: the raw socket is read by `request` and `idle` only. With a silent battery ECU and
  no PID due, as on a vehicle that does not advertise the speed, the polls of the DIDs, each
  of which takes its whole timeout, can follow one another without an idle call; lamp
  broadcasts then wait in the socket, and count as new when a slow PID is polled at last
  (`EmuPlugin.cpp:245-266`). `LampsRecent` is therefore about a vehicle that advertises it,
  as both of `docs/emulator-ev-profile.md:93` do.
* forza: the clock is read after `poll()` has returned (`forza.cpp:102-103`). If the thread
  is delayed there after a `poll()` that found nothing, the delay is taken for silence and
  the vehicle reported gone (`:126`) although telemetry has arrived meanwhile and waits in
  the socket: a game that pauses its telemetry for less than the timeout can be lost. The
  next pass reports it again.
* emu-ev: ECUs that leave between two blocks of a discovery are still reported as found
  (`J1979Client.cpp:76-80`), and gone only after the timeouts of that block and of the
  probe and eight polls.
* publisher: after a delay between its clock and its sends, three frames of one slot can
  leave together (`Publisher.cpp:116-126,142`); the resynchronisation keeps it at three.
* forza: the line for a packet that is no telemetry is logged once per run, not once per
  silence as its comment says (`forza.cpp:121-123`); the distance becomes the
  odometer (`:87`) without the finiteness check of the other quantities.
* can-replay: a request is paired with the first response of *any* ECU within 16 frames
  (`can-replay.cpp:118-120`). A log in which several ECUs answered may hold different ECUs
  for different PIDs, of which a client uses only one; `SessionReplays` is about one ECU.
* An unknown collision risk is sent as "none", not as not available; `forgetEcu` is not
  called by anything.

## 8. Running

`tlc -config MCSchedule.cfg MCSchedule` and likewise for the other configurations
(`MCPublisher.cfg` with `MCPublisher`, `Obd2Ice*.cfg` with `MCObd2Ice`, `EmuEv*.cfg` with
`MCEmuEv`, `Bench.cfg` with `MCBench`, `Feeds.cfg`, `PluginHost.cfg`,
`Daemon.cfg`); `tlapm DaemonProofs.tla` and likewise for the other `*Proofs` modules.
