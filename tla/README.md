# linbuskit: a verification project

linbuskit is a Go toolkit for LIN diagnostics: a LIN transport protocol
(`tplin`), a UDS client on top of it (`uds_client`), hardware drivers below it
(`driver`) and ready-made combinations (`preset`). This directory holds TLA+
models of that code, the TLC configurations that check them and the TLAPS proofs
about them.

## 1. Inventory

| Part | State | Operations | Talks to |
|---|---|---|---|
| Framing, `tplin/transport.go:395-445` | none | `buildFrames` | called by `Transmit` |
| Reassembly, `transport.go:312-362, 449-562` | `currentFrameData`, `currentSID`, `currentNAD`, `currentFrameCounter`, `remainingBytes`, `rxQueue`, `receiveErrors` | `receiveFromDriver`, `resetState`, `deliverMessage`, `checkMultiFrameTimeout`, `Receive` | fed by `execute`, emptied by callers |
| Transport, master role, `transport.go:40-393` | lifecycle flags, `txQueue`, `awaitingSlaveResponse`, `wake`, three mutexes, `done` | `Run`, `Close`, `execute`, `Transmit`, `SetAwaiting...`, `StopAwaiting...`, `Receive`, `ReceiveBlocking` | a background goroutine, any number of callers, the driver |
| Transport, slave role, `transport.go:244-255, 452-465` | `scheduledTxEvent` | schedule a response, take its TX confirmation | driver, `LinSlave` |
| Slave node, `tplin/slave.go` | NAD, saved NAD, identification | `Run`, `Stop`, `simulate`, the three SID handlers | its transport |
| Simulated bus, `tplin/simulation.go` | one pending response per channel and frame ID, one event queue per driver and channel | `writeMessage`, `requestSlaveResponse`, `scheduleSlaveResponse`, `ReadEvent` | master and slave transports |
| Node configuration API, `tplin/master.go` | none of its own | `AssignSlaveNad`, `ReadByIdentifier`, ... | a master transport it does not serialise access to |
| UDS client, `uds_client/client_lin.go` | `requestMu`, attempt counter, wait context | `SendAndRec*`, `Close` | a `LinMaster` |
| Preset, `preset/preset.go` | `closed`, `operationMu`, `closeOnce` | `Request*`, `MasterRead`, `Write`, `Close` | the UDS client and, past it, the driver |
| Drivers, `driver/pcan.go`, `vector.go`, `tsmaster.go`, `toomoss.go`, `toomoss_darwin.go` | handles, event queues per channel, `callMu`, `closed`, `closeOnce`, `masterReadLocks`; Toomoss: `stateMu`, `toomossInstanceActive`, `elinsChannels` | `New*`, `ReadEvent`, `WriteMessage`, `RequestSlaveResponse`, `ScheduleSlaveResponse`, `MasterRead`, `Reset`, `Close` | vendor DLLs, callbacks, polling goroutines |

What is hard here: the loop and its callers share six pieces of state under
three mutexes and one atomic; a stop request has to meet the loop at a barrier;
closing races with everything; frames get lost, repeated or spoilt and only a
4-bit counter notices; answers arrive after the request they belong to was given
up; two nodes may answer one broadcast.

What makes each part correct:

* Framing and reassembly: what arrives was sent, nothing of an abandoned
  message survives into the next one, a message whose frames all arrive is
  delivered.
* Master transport: a queued message leaves whole and unmixed, no call blocks
  for ever, a stopped transport keeps off the driver, a closed one is quiet.
* Slave role and bus: the frames a slave queues reach the master in order,
  without loss, and a slave never waits for a confirmation that cannot come.
* UDS client: a non-repeatable service is sent once, an answer belongs to the
  request, a request ends, and when answers come in time an old one is not taken
  for a new one.
* Preset: the transport does not take what `MasterRead` waits for, a `MasterRead`
  returns the answer to its own header, the device is closed after its last user.
* Drivers: nobody is inside a library that Close has taken away, a failed
  constructor and a Close leave nothing behind (TSMaster: no receive loop), frames
  of a channel come in order, concurrent `MasterRead`s get their own answers, a
  header made of several library calls is sent as it was prepared, the receive loop
  sends nothing on a closed queue. On Toomoss: a closed object does not reach the
  adapter of its successor, and Close leaves no ELINS channel started.

## 2. Modules

| Module | Models | Kind |
|---|---|---|
| `LinFrames` | `buildFrames`: the frames of a message | operators |
| `Reassembly` | the receiver, one action per PCI type, the timeout, the queues | component |
| `MessageChannel` | what a link promises about whole messages | abstract |
| `TpLink` | sender, lossy link and receiver together | composition |
| `MasterTransport` | the goroutines of a master transport | component |
| `LinBus` | slave nodes on their transports, the simulated network, one master | component |
| `UdsService` | what a client promises when answers come in time | abstract |
| `UdsClient` | the callers of a UDS client over a transport of whole messages | component |
| `Preset` | operations and Close of a preset over one driver queue, with the transport loop below | component |
| `DriverCalls` | what calls into a driver share: goroutines, `callMu`, event queues, channel locks, `closeOnce`, the bus | base of the next three |
| `PcanDriver`, `VectorDriver`, `TsmasterDriver` | one driver each: constructor, calls, Close | components |
| `ToomossDriver` | the Windows and the macOS build: several driver objects, one after the other, over one library and adapter | component |
| `TpLinkProofs` (also the receiver alone), `MasterTransportProofs`, `LinBusProofs`, `UdsClientProofs`, `PresetProofs` | theorems | proofs |
| `DriverCallsProofs` | the frames and answers of PCAN, Vector and TSMaster, as lemmas about `DriverCalls` | proofs |
| `ToomossDriverProofs` | theorems about `ToomossDriver`, any number of objects | proofs |
| `DriversProofs` | theorems about all four drivers, on the two above | proofs |
| `MC*` | instances for TLC | checking |

`LinFrames` follows `buildFrames` byte by byte: padding with 0xFF, the length
over the PCI nibble and the byte after it, the counter modulo 16. `Reassembly`
has one operator per branch of `receiveFromDriver` (`ReceiveSF`, `ReceiveFF`,
`ReceiveCF`, `Ignored`), named parts for each early return (`ValidSF`,
`ValidFF`, `AcceptsCF`), and keeps the order of the code: a single or first
frame resets an open reception before it is checked.

`MasterTransport` cuts the code at the points at which another goroutine can
interfere. The loop's program counter is `loop`: `select`, then through
`execute` (closed check, timeout check, activity check, the read loop, one
write or one request) and `report` for `reportError`. A caller's is `pc`. That
the loop holds `executeMu` is the same as `loop \in ExecutePcs`, that a caller
holds `txMu` is `pc[c] \in TxPcs`; the locks need no variables of their own. An
event's effect on the reception is taken from `Reassembly` and reduced to
whether a reception is open (`partial`) and whether a message was completed.
The driver and the slaves are external: a header is answered by one frame of
any kind, possibly late, or by none, and a full driver queue drops it.

`LinBus` takes the bus as a whole. A slave's goroutine (`at`) ticks, reads its
driver until nothing is left (`read`), schedules a frame, and hands at most one
message to its handlers (`app`). The network is one slot for the pending
response, since all slaves answer on 0x3D of one channel, and one bounded event
queue per slave. A request frame reaches all slaves under the network's lock
(`writeMessage`); a header takes the response for the master and then tells the
slaves one by one without it (`requestSlaveResponse`, `notifySlave`). The
master is reduced to one request at a time: its frames, its reception
(`hearing`, the frames themselves, so that a mixed message can be recognised),
its response queue, and a wait that skips what does not match. Requests carry
at most 5 data bytes, so they are single frames and the slave-side reassembly,
which is the same code as the master's, is not repeated here.

`UdsClient` has a caller go through lock, drain, send, wait and stop; holding
`requestMu` is being at one of the last four points. An attempt that times out
goes back to the drain if the service may be repeated. Below it is the transport
in whole messages: `txQueue`, the driver, `rxQueue`, `receiveErrors`,
`awaiting`, and nodes that act on a request and then answer, one message per
header, by one of a set of scripts. An answer of several frames is its first frame
and then the whole message; between the two a reception is open (`ongoing`), which
keeps the loop active although nobody awaits anything, and so does the option
`ContinuousSlavePoll` (`shouldRequestSlaveResponse`, `Active`). A first frame without
a message is an answer that broke off; the reception timeout ends it (`Expire`). A
full `rxQueue` loses the message and reports `ErrRxQueueFull` as an error (`Read`),
which ends the wait of whoever is waiting. What a given-up attempt leaves behind stays
where it is, so a message still queued is sent later and an answer still at the
driver is read later. Close is two steps: `Transmit` refuses from the first,
waiting callers are released by the second. `SetAwaitingSlaveResponse` and the
barrier of `StopAwaiting` are in `MasterTransport`.

`Preset` is about who uses the driver when. A caller goes through
`lockOperation`, the steps of its operation and the deferred unlock; a `Close`
goes through `closeOnce`, the end of the client and the release of the driver.
`MasterRead` is the preset's and, below it, `readMasterResponse` of
`driver/common.go`. The client and its transport are reduced to what reaches the
driver: queued frames, the awaiting flag, an open reception and the loop's two
phases inside `execute`, reading (`"reading"`) and then writing or requesting
(`"acting"`). An event carries the number of the header that asked for it, which
the code does not see and only the properties read.

The driver modules have goroutines (`pc`) that run one call each (`op`, `ch`),
among them the one whose constructor makes the driver. A step is what happens
between two points at which another goroutine can interfere: a library call
under `callMu` is one, the echo a write queues after its unlock another. The
vendor library is external: it may refuse any call, and it holds one queue of
received frames for all channels (`rxQueue`), fed by answers to headers (`bus`)
and by frames nobody asked for. A frame is its number, its channel, whether the
driver rejects it, and the number of the `MasterRead` it answers, which only the
properties and `readMasterResponse`'s comparison of IDs (is it zero?) read. A
closed driver refuses a call at its start without any effect, so such calls are
not in the model; the second look, with `callMu` held, is.

* `PcanDriver`: what the driver notes of the library (`client`,
  `connectedHardware`) beside what the library has (`registered`, `attached`);
  `Reset`; a reader that takes a frame of another channel passes it on.
* `VectorDriver`: in addition the response a channel has installed for an ID and
  whether it is enabled, which a write, a request and `ScheduleSlaveResponse`
  change in two or three library calls before the header goes out.
* `TsmasterDriver`: a thread of the library that reports frames (`callback`), the
  loop that reads them from the FIFO (`loop`, `batch`), the filter for frames
  that come both ways (`last`), and `panicked`, once a step sends on a closed
  queue or dereferences the loader Close has taken. A callback is two steps:
  `onLinEvent` filters the frame and looks up its queue, `SendEvent` sends, and
  between them (`inCallback`) anything may happen. `disconnect` ignores what the
  library answers, as the code does: registration and connection may stay, and
  frames the library has still to report may be kept even if it unregistered the
  callback. `closed` is here `connected = false` together with `loader = nil`, set
  under `mu` at once.

`ToomossDriver` stands on its own: handles and the loaded library are global
(`loaded`, `deviceOpen`, `active`), and a process may make an object, close it,
make another and still call the first, so goroutines call a numbered object
(`object`). `callMu` of an object is held at the points `CallPcs`, `stateMu`
beyond a step only by `ConfigureELINS`, which starts one channel per step and
rolls back (`ELINSInit`, `rollback`). `platform` chooses the build: ELINS is there
on Windows only, where also freeing the library may fail; on macOS a `ReadEvent`
sees to the library before it takes `callMu` (`ensureToomossLoaded`).

`MCDrivers` chooses one of the four at the start.

History variables: `clean`, `arrived`, `torn`, `onBus` in `TpLink`; `written`
and `stop` in `MasterTransport`; `outcome`, `due`, `queued`, `taken`, `deaf` in
`LinBus`; `served`, `mine`, `executed`, `answers` in `UdsClient`; `got`, `late`, `stolen`, `left`
in `Preset`; `newest`, `late`, `passed`, `stolen`, `overlapped`, `reporting` and `tried` in the drivers. No guard of a modelled handler reads one.

Definitions named as mutants (`...KeepingCounter`, `TxMuIgnored`, ...) are
deliberately wrong variants of the definition that follows them; with the
variant in its place the property PROJECT.json names fails.

## 3. Runs

| Run | What it checks | Size |
|---|---|---|
| `tp_link` | accounting, clean delivery, integrity, refinement of `MessageChannel` | 165 402 states |
| `master` | safety of loop and callers | 3.6 million states |
| `master_liveness` | calls return, queued frames leave, the transport falls silent | 40 684 states |
| `lin_bus` | one slave, impatient master: types, no waiting in vain, order | 521 567 states |
| `bus_unicast` | two slaves asked in turn: each request and its answer | 156 547 states |
| `bus_broadcast` | the documented promise about broadcasts, refuted | |
| `uds` | two callers, anything early, late or failing: repetition, order, polling | 1 166 724 states (symmetry) |
| `uds_timely` | refinement of `UdsService`; calls return | 30 906 states |
| `uds_pending` | endless response pending against context and Close | 44 292 states |
| `preset` | two callers and the loop over one driver queue: release, answers, every call returns | 182 765 states |
| `preset_idle` | the documented promises about MasterRead and StopAwaiting, refuted | |
| `drivers` | PCAN, Vector, TSMaster and Toomoss: the library under calls and Close, order, answers, headers, closed queues, what Close releases | 3.58 million states (symmetry) |

### Bounds and why they are enough

* `tp_link`: four messages: a single frame, two of the same shape with one
  consecutive frame (so that one can complete the other), and one of 112 data
  bytes with 18 consecutive frames, on which the counter wraps. Up to three
  messages, one repetition, any number of malformed frames and timeouts. Two
  losses are needed to lose the end of one message and the start of the next, 18
  allow the 16 in a row that the counter cannot see. First frames of other
  lengths, up to 4095, are left to the proofs.
* `master`: two callers, three queue slots and messages of one or two frames
  make the room check fail and succeed; `MaxOps` 4 allows run, transmit, stop
  and close in any interleaving; one failing driver call and two answers reach
  every branch of the loop. Receive and error queues of one slot overflow. The
  callers are symmetric.
* `master_liveness` uses no symmetry; one answer and no failing driver call keep
  it small. Each message has two frames, so the queue of two is full with one.
* `lin_bus`: every way through the slave's handlers, answers of one and three
  frames, an event queue of two that overflows, a message queue of one that
  overflows, and a master that may give up at any moment; three requests are
  needed for one to be given up, one to be dropped and one to be answered.
* `bus_unicast`: the real event queue length, 20; requests to both nodes, before
  and after one gets a new NAD. `Patient` means that the master's timeouts are
  longer than the bus takes: a request or a reception is given up only when
  nothing can come any more. Without it `AnswersMatch` cannot hold: the answer
  to a request given up has the NAD and SID the next one looks for, and nothing
  in a LIN response tells them apart.
* `uds`: two callers are what the mutex is about; two calls with up to two
  attempts each put two messages of one request and one of the next into the
  queue. One failing driver call; one slot for received messages and errors, so
  both overflow. A broadcast is answered by either node. Answers of several frames
  leave a reception open in which the caller gives up.
* `uds_timely`: nodes say at most one final thing, and `Patient` again means
  that waits and contexts end only when nothing can come any more. Answers of one
  frame and of several, answers that break off, and none. `rxQueue` has room for
  all a node says to one request; with less, `ErrRxQueueFull` would end a wait
  while the answer still comes, and the client would not be the service.
* `uds_pending`: `Endless` lets a node say response pending again and again, and
  the nodes are polled always (`ContinuousSlavePoll`), which ends no wait.
* `preset`, `preset_idle`: two callers and three operations (`MaxOps`), so that a
  request, a `MasterRead` and a third call, `Close` included, meet in any order;
  requests of one and two frames for a queue of two, the second of which fills
  what a given-up request has left. One header of the loop (`MaxPolls`) leaves one
  answer behind, early, late or never. One diagnostic and one other frame ID.
* `drivers`: two goroutines, so that any two calls, or a call and Close, overlap,
  and a third call (on TSMaster, whose library has threads of its own, two
  suffice) for what an earlier one has left; two channels, so that a reader meets
  frames of the other one; event queues of one, so that they overflow; two
  received frames, the least that can come in the wrong order. Toomoss has two
  objects and five calls (make, configure, close, make again, and a call of the
  first object) and three frames, for a batch and one more. Goroutines are
  symmetric, and so are channels.
* Deadlock is not checked where calls and frames run out by design. That no
  slave node stops answering is `NeverStuck`; for more than one node it rests on
  its proof.

### Fairness

Weak fairness of the loop and of what a caller does inside a call: goroutines
that can run do run. Strong fairness of four steps: leaving `select` once the
context is cancelled (Go chooses among ready cases at random), taking `txMu`
and passing the `executeMu` barrier (a `sync.Mutex` goes into starvation mode
and hands the lock over after a millisecond), and expiring a reception that
stays open (its age only grows). No fairness is assumed of calls an application
may make, of slaves, or of a caller's own context.

In `LinBus`: weak fairness of the master's steps, of each slave's goroutine, of
starting a node that was made, and of a request's timeout. Without the timeout's
a request to a stopped node would wait for ever; `RequestEnds` is none the less
about the bus, because a patient timeout strikes only when no slave holds back a
frame.

In `UdsClient`: weak fairness of the loop and of each caller; strong fairness of
taking `requestMu` and of the two `select` cases that must win some day against
a queue that is never empty, the context and Close. None is assumed of the
reception timeout: a caller's own timers end its wait. `CallsReturn` also assumes
that callers let their contexts end; `WaitsEnd` does not.

In `Preset`: weak fairness of the loop and of each call; strong fairness of
taking `operationMu`, in operations and in `Close`, and of passing the
`executeMu` barrier.

### Disagreements with the documentation

`Preset.FunctionRequest` promises (preset.go:137-138) that the NAD returned for
a broadcast "identifies the responding node", and README.md:153 that the source
of a response can be told from it. When two nodes of the simulated network
answer with more than one frame, it does not. Their frames share one slot and
overwrite each other (simulation.go:110), each takes the other's TX event for
its own (transport.go:453), and the master does not compare the NAD of
consecutive frames with that of the first. Run `bus_broadcast` ends with a
message whose parts are of two nodes. With unicast requests
`WholeAnswers` holds (`bus_unicast`, and `WholeAnswersSafe` for any nodes), and
`NeverStuck`, which is proved too, shows that sharing the slot at least silences
nobody.

`Preset.MasterRead` promises (preset.go:145-146) that "the UDS transport is idle
before MasterRead starts". `operationMu` makes sure only that no request is under
way. What a request that timed out has left in `txQueue`, or a reception still
open, keeps the loop active, and the loop takes events from the queue from which
`MasterRead` expects its answer. Run `preset_idle` shows it. For the same reason
`LinMaster.StopAwaitingSlaveResponse` does not keep what it promises
(master.go:67-68), "the driver receive path is idle when this method returns":
`execute` counts queued frames (transport.go:218) and an open reception
(transport.go:282) as activity, whoever waits for them. What holds, and is
proved, are `NoTheft`, the loop takes such an answer only if the last request
left something behind, and `StopQuiesces`, a stop that finds the queue empty and
no reception open leaves a loop that keeps off the driver until the next request.

The comment at client_lin.go:159 says that after a session, however it ended, the
idle polling of 0x3D stops unless `ContinuousSlavePoll` is set. That is true of the
flag the deferred call clears. A reception still open keeps the loop requesting 0x3D
until it is complete or times out (transport.go:282), which is the divergence above
once more; `PolledWhileWaiting` names it as one of the reasons to go on.

Three things in the drivers contradict no document but are worth knowing.
`TSMaster.Close` does not wait for calls that are between their look at
`connected` and their last use of the loader or the event queue: `WriteMessage`
queues its echo after the unlock (tsmaster.go:753), `errorText` and `LinBreak`
use `t.loader` after it may have become nil (934, 964). Nor does it wait for a
callback that runs, or look at whether the library unregistered it and
disconnected (891-901): a callback then sends on a queue that is closed (630, 912),
without any call that overlaps Close. `PanicOnlyIfOverlapped` says that it takes one
of the two, an overlapped call or a library that was not done with callbacks when
the queues were closed; the receive loop, for which Close waits, is never the one.

`TSMaster.Close` returns nil also if the library refused to unregister the callback
or to disconnect (918), and it does not undo `initialize_lib_tsmaster`. `ClosedCleanly`
therefore says of TSMaster no more than that the receive loop is gone; of PCAN and
Vector it says that a Close without an error has undone everything.

And on macOS a `ReadEvent` of
Toomoss that has just seen its object open loads the library again after Close
has freed it (toomoss_darwin.go:691-694), then finds the object closed and leaves
the library loaded; `Released` says that this takes a `ReadEvent` which Close
overlaps.

Where the code depends on what a vendor's library returns, nothing in the
repository settles it. The results of the Toomoss library are `uintptr`s, so
`ret <= 0` (toomoss.go:915, 954, 974, 995, 1086) holds of zero only, and a
negative code would count as success; a 32-bit -1 returned to a 64-bit build
would pass `int(ret) < 0` (1179) as well and turn into 512 empty frames.
`SyncReturns` and `Fetched` allow both. A second `Close` on macOS returns nil
though the first one failed (toomoss_darwin.go:657), on Windows it returns the
error again.

## 4. Proofs

All theorems are for every value of the constants; the assumptions are the
named `ASSUME`s of the modules (queue sizes at least one, payloads of at most 8
bytes).

* `MasterTransportProofs`. `TypeCorrect` goes action by action. `CloseSafe`
  needs that the steps of `Close` happen in order: past the cancel step the
  context is cancelled, `done` implies closed, and a closed transport starts no
  loop. `TransmitSafe` rests on `TxInv`: at most one caller is at a `TxPcs`
  point (`txMu` excludes), and since the loop only drains, the room that caller
  counted cannot shrink except by its own pushes. `StreamSafe` adds that the
  last frame queued is either the end of a message or the frame before the one
  the holder of `txMu` pushes next. `StopSafe` follows what can wake an idle
  loop: only `awaiting`, a queued frame or an open reception.
* `TpLinkProofs` starts with the receiver alone, on a bus that carries anything
  (`RxTypeCorrect`). `AccountingCorrect` is inductive together with the types:
  each accepted full consecutive frame adds 6 to the buffer and 1 to the
  counter. Lemmas state what a PCI byte, a part of a frame and an accepted
  consecutive frame contribute.
* `TpLinkProofs`, sender, link and receiver, for any messages the code accepts (so for every length up to 4094
  bytes), any malformed frames and any number of losses and repetitions. First come
  lemmas about bytes: what the frames of `buildFrames` say (`SingleFacts`,
  `FirstFacts`, `ConsecutiveFacts`, `CountFacts`) and what `receiveFromDriver` makes
  of them. The inductive invariant `LinkInv` reads off the number of missing bytes
  how many frames `q` of the current message were accepted. Outside a torn channel
  an open reception is always of that message (`Follows`): `q` may lag behind the
  bus, by a multiple of 16 if the last frame got through, and as the last bytes are
  wanted only at `q + 1 = NumFrames`, a reception that lags cannot complete. Nothing
  is torn before the second loss (`Losses`), and without a disturbance the receiver
  is in step (`Clean`). From it follow `TypeCorrect`, `AccountingKept`,
  `CleanDelivered`, `IntactSafe`, and, since every step is one of the message
  channel or none, the refinement `ChannelImplemented`.
* `LinBusProofs`. `NeverStuckSafe` is inductive with the types: each step that
  takes the last sign of a coming TX event from a slave (a slot emptied, a slave
  told, an event read) either leaves the next sign or is the slave's own step,
  which clears or renews `scheduled`. `InOrderAlone` is for `N = 1`; with two
  slaves it is false. It needs `OnePlace`: what the slave waits for is in the
  slot, or being announced, or announced by the only TX event in its queue, never
  two of these, and in any of these cases the slave waits. So it finds the slot
  empty whenever it schedules.

  `WholeAnswersSafe`, `AnswersMatchSafe` and `NotGivenUpSafe` are about any number of
  slaves that are asked in turn, under the premise `Unicast`: a request times out only
  when nothing can come any more, none goes to all nodes, and no two nodes can ever
  have the same NAD (the one they start with or one they may be assigned). Without
  it the answers do get mixed, which `bus_broadcast` shows. The invariant `BusInv`
  says that the bus is in one of two states. `Still`: no frame of a response is
  anywhere, and a running slave has either nothing that only it could answer
  (`NoneLeft`) or the request of the master behind everything else (`Expecting`).
  `Speaks`: one slave has a response of `n` frames on its way, of which it has
  scheduled `j`, the master was sent `g` and has heard `h`, with `h <= g <= j`, each
  step at most one; the three numbers say what is in `txQueue`, slot, `masterRx`,
  `hearing` and `inbox`, and there is one TX event for the frame that left (`Told`),
  in whatever order the others are told. A slave's handler leads from the first
  state to the second, the accepted answer or a timeout back.

  `NotGivenUpSafe` also needs `Roomy`: `rxQueue` holds as many messages as there are
  requests, and an event queue holds what all requests but the last and their
  responses can bring it (`Bound`), one request and at most `TxQueueSize` TX events
  each. A slave whose goroutine is not scheduled for that long does lose requests:
  with `RxQueueSize = 1`, or with `EventQueueSize = 4` where `Roomy` asks for 6, TLC
  finds `bus_unicast` violating `NotGivenUp`. `DueInv` says that a request somebody
  was to answer is either being answered or before a slave that will (`Answers`). That
  slave cannot lose it: requests reach it in the order of their numbers and a message
  at place `i` of `rxQueue` has at least the number `i` (`Ids`), so the queue is never
  full when the last one comes; the number of events is bounded by `Still` and
  `Within`. While one `Answers`, the master's patience does not run out (`NotQuiet`).
  The instance of `bus_unicast` satisfies all premises (queues of 3 and 20, of which 2
  and 6 are needed), and TLC found both invariants kept there before the proof.
* `UdsClientProofs`. `PolledSafe` rests on `Flagged`, that the awaiting flag is set
  while a caller waits and is always some waiting caller's, which is inductive with
  types and mutual exclusion; what else keeps the loop active is read off `Active`.
  `OrderSafe` adds that what nodes acted on followed by what is queued never goes
  back to an earlier request, and that the mutex is held for the latest one.
  `RepetitionSafe` counts: messages of a request in the nodes' hands and in
  `txQueue` together are at most the attempts its caller has made, a message that
  leaves the queue never counts twice, and a new request starts from none because
  of `OrderInv`. The counting lemmas say what one more element at either end of a
  sequence does to the number of times a value occurs in it.

  `ServiceImplemented` is the refinement of `UdsService`, step by step: each step of a
  caller, the loop or a node is one of `Begin`, `Execute`, `Answer`, `Fail`, or leaves
  the service as it is. Its premise `Timely` is what "in time" means: a wait ends only
  when nothing can come any more, drivers do not fail, requests go to nodes that
  exist, one each, a node says nothing after its final answer and only finitely much
  before it, and `rxQueue` has room for all a node says to one request. Without the
  last a full queue reports `ErrRxQueueFull`, which ends a wait while the answer
  still comes; `Fits` shows that with it the queue never fills. Those are the
  constants of `uds_timely`. `TimelyInv` says that outside a wait nothing is under way,
  and that in a wait the request, still queued, or else the answers to it are all
  there is, the final one last (`OnTheWay`), so that whatever ends the wait leaves
  nothing for the next request. That a node acts no more often than allowed comes
  from `RepetitionSafe`'s invariant.
* `PresetProofs`. `ReleasedLast` and `CloseIsClosed` rest on `LockInv` (the caller
  that holds `operationMu`, and only it, is inside an operation) and `CloseInv`
  (the steps of `Close` happen in order and one caller makes them; past the join
  the loop is gone; whoever takes the lock once `closed` is set leaves again).
  `TheftOnlyIfLeft` follows what wakes an idle loop: while nothing was left
  behind and nobody is inside a request, the queue is empty, no reception is open
  and nothing is awaited. `FreshSafe` rests on `BusInv`: of a frame ID that is not
  the diagnostic one and of which no answer was given up, at most one answer is to
  come or in the queue, and the `MasterRead` that asked for it waits. `operationMu`
  lets one `MasterRead` wait at a time, so nothing is under way when the next one
  sends its header.
* `DriverCallsProofs`, lemmas only: what the drivers that share `DriverCalls` keep
  of frames and answers, whatever they do with their libraries. `CallsInv`: each
  `MasterRead` has a number of its own and, once it has begun, its channel's lock;
  a `ReadEvent` reads its channel alone. A frame is *fair* if the `MasterRead` it
  answers, should it still be there, reads that frame's channel and is past the
  lock. `FramesInv` says that every frame is fair wherever it is (on the bus, in the
  library's FIFO, in an event queue, in a hand) and that nothing was stolen: with
  one lock per channel, whoever else returns a frame of that channel cannot have it
  while the asker waits. `InOrder` says that what the FIFO still holds of a channel
  is newer than what has left it, and that a frame its own reader has in hand is
  newer than the one he returned last; a frame that was passed on escapes it, which
  is why `OvertakenOnlyIfPassedOn` has its exception. The lemmas go operator by
  operator (`Bus`, `Dispatch`, `Deliver`, `Begin`, ...); `FramesStep` lists the ways
  a step may use them.
* `ToomossDriverProofs`. `TypeCorrect`, `OwnDeviceSafe`, `ReleasedSafe` and
  `ReadsInOrder` are for any number of objects made one after the other,
  goroutines and channels. Their inductive invariant (`Inv`) says that one goroutine
  at a time makes an object (`OneMaker`), is inside its calls (`OneCalls`) and closes
  it (`OneCloses`), and that objects follow each other (`Generations`): who gets
  `callMu` of an object that is not closed has the newest one, and keeps it so until
  `Close` has had `callMu` too, before which no successor is made. `ReleasedSafe`
  adds `Elins` (what the adapter has started is what the object has recorded, but
  for a `ConfigureELINS` or `Close` under way) and `Freed` (from the last library
  call of `Close` on nothing is open, and the library is loaded only if a `ReadEvent`
  overlapped on macOS). `ReadsInOrder` has an invariant of its own: a channel has
  one reader at a time (`OneReader`), and along the way of its frames, from the one
  returned last over the one in hand, the event queue and the rest of a batch to the
  adapter, the numbers only rise (`InOrder`), echoes and answers, which have the number
  zero, left out. The batch in hand goes into an event queue that holds no numbered
  frame then: `readOne` fetches only after it found the queue empty, and only the
  reader itself puts frames with a number there.
* `DriversProofs`, about the composition `MCDrivers` that the run `drivers` checks,
  with the same invariants under the same names and every constant free but for the
  number of Toomoss objects, which is two there. Each driver keeps an invariant of
  its own. PCAN and Vector: `callMu` belongs to whoever is between lock and unlock
  (`PcanMuHeld`); the constructor runs alone; `closeOnce` lets one caller tear down
  (`PcanOneCloses`); the driver has noted everything the library has (`PcanNoted`), so
  a tear-down without errors undoes it all (`PcanUndone`). `LibraryPresent` is not
  inductive without the first: a second holder of the mutex could unload the library.
  Vector adds `VectorPrepared`, that whoever is about to send a header holds `callMu`
  and finds the channel as it left it. TSMaster: past the wait for the loop it is
  gone (`TsmasterStopped`); unless the library was still reporting when the queues
  were closed it reports nothing afterwards (`TsmasterQuiet`); any other panic needs
  another call, which `TsmasterCalm` says has been overlapped. Frames on their way in
  a batch or a callback are fair too (`TsmasterFair`). The order of
  frames is not claimed of TSMaster, whose two ways overtake each other.
  `DriversInv` is the invariant of the driver that was chosen; `DriversAlways` and
  `DriversGood` give all eight theorems.

Every safety property that a passing run checks, and both refinements, are stated by
a theorem. Only model-checked is liveness (`RequestEnds`, `CallsReturn`, `QueueDrains`,
`ComesToRest`, `WaitsEnd`): TLAPS 1.4.5 has no ENABLED, by which fairness is defined.
`WholeAnswers`, `AnswersMatch`, `NotGivenUp`, `InOrder` and `ImplementsService` are
proved under the premises given above, which their runs satisfy.

## 5. Not modelled

Wall-clock time (timeouts may strike whenever the code would look at a clock),
log texts, the `errors` channel (nobody's control depends on it; it is filled
and closed together with `receiveErrors`), the names of the negative response
codes (a constant table for error texts), the look-up of the vendors' libraries
(registry, search paths) and their tables, entry points missing from a library
(ELINS is taken to be complete or absent), an `ELINS_Stop` that fails (the code
ignores it), an `ELINS_Init` that fails and has started the channel none the less
(neither the roll-back nor Close would stop it, so `Released` is about channels the
adapter says it has started), a vendor library that runs two callbacks of TSMaster
at once, `ErrRxQueueFull` of the bus master in `LinBus` (an impatient timeout ends
its wait as early; a patient one keeps one message at most), the exported `UsbScan` and `UsbOpen` called beside a driver object,
and for now the parts of the plan below.

## 6. Plan

`LinMaster`: concurrent unserialised requests, which lack what `UdsClient` shows
`requestMu` to be for.
