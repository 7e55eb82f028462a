# Verification of MeshArranger

TLA+ models of the MeshArranger code (`src/`), the TLC configurations that check
them on small instances, and TLAPS proofs of the properties that matter most.
`PROJECT.json` lists components, runs, mutants, theorems and hazards, and maps
each definition to the source lines it stands for.

    tlc -workers 2 -config MCLighthouseRx.cfg MCLighthouseRx   # one run
    tlapm LighthouseRxProofs.tla                               # proofs of one module

## 1. The system

MeshArranger runs MicroPython nodes that form an ESP-NOW mesh. A gateway node
offers the mesh to a browser; packages are installed over the mesh; nodes
execute flows.

    browser -- server.js -- HTTP -- RestInterface -- MessagingEndpoint -- registry
                                                          |
    fetch_to_file <-> GatewayMIPService               LighthouseMesh <-> radio
              \___________________________________________/ 
    text -> parse_dsl -> dsl_to_ir -> execution_ir -> executionEngine (inside one node)
    mp_usbnet_plugin (IP over USB)

| Component | Code | State | Operations | Speaks to |
|---|---|---|---|---|
| Transmit | `dnet/code/signalling/LighthouseMesh.py` | fragment queue (96), fragment in flight, last driver statistics, message id, counters | `send_raw`, `_enqueue_tx_frame`, `_pump_tx_queue`, `_update_tx_completion` | the ESP-NOW driver; called by the run loop, senders and the receive callback |
| Receive | same file | receive queue (32), reassembly buffers per (sender, message id) | `_drain_incoming`, `_ingest_rx_packet`, `_expire_fragment_buffers`, `recv_raw`, `run` | driver FIFO; hands payloads to subclasses |
| Messaging | `dnet/code/messaging/*.py` | capability registry: nodes, and an index service to nodes | `validate`, `encode_*`, `decode`, `poll`, `register_*`, `find_service`, `send_*` | uses LighthouseMesh |
| REST gateway | `dnet_gtwy/code/RestInterface.py` | message log (250), its sequence number | mesh task, `/status`, `/nodes`, `/messages`, `start`, `stop` | polls the endpoint, answers HTTP |
| Web UI server | `gtwy_webui/server.js` | per stream: last nodes sent, timer | poll, event stream, proxy | asks the gateway, feeds the browser |
| ednet_mip | `ednet_mip/*.py` | client: id, chunks in wait, file; gateway: request at work | `install`, `fetch_to_file`, `_handle_once` | messages over LighthouseMesh |
| Classic flow engine | `dnet/code/execution/src/executionEngine.py` | `_running`, per node `_is_executing`, `_waiting_for_event`, `_event_received` | `execute`, `publish`, `execute_flow_async`, `stop` | threads inside one process |
| DSL compiler, IR validation | `dsl_implementation_example.py`, `dsl_to_ir.py`, `execution_ir.py` | none: a text becomes a graph or an error | `parse_dsl`, `compile_dsl_to_ir`, `validate_*` | hands graphs to the IR engine |
| IR engine | `executionEngine.py` (`IrExecutionEngine`) | `_running`, `_running_ir`, threads, each with its node and wait; subscriptions | `run_ir`, `publish_event`, `stop`, `_run_ir_graph` | one thread per entry node and per callback |
| USB network plugin | `micropython_modules/firmware/components/mp_usbnet_plugin/*.c` | up/running flags, interface pointers, one transmit slot, suspended receive | start, stop, transmit, receive, post-task hook | lwIP above it, TinyUSB and the host below |

What is hard, component by component (the full list, at its lines, is `hazards`):

* **Interleaving.** The ESP-NOW callback runs the same pump and the same
  reassembly as the run loop, between any two bytecodes of it, with no lock.
  Flow threads and event callbacks share the nodes. Browser polls overlap.
  Three tasks of the USB plugin share its flags, and one resets the transmit
  slot without the lock the others take.
* **Unreliable delivery, stale answers.** Fragments are lost, repeated,
  reordered; ids repeat after a restart, a wrap or a new installation; the
  driver reports completions as bare counters.
* **Limits.** Queues that drop their oldest entry, 8-bit fragment counts,
  16-bit ids, a tick counter that wraps.
* **Partial failure.** A send raises in the middle of a message; one of three
  requests of a poll fails; a child node fails.
* **Progress.** The driver may never answer, the callback may never come, a
  gateway may never reply, an event may never be published.

What makes each part correct: transmit - no fragment disappears in silence, is
repeated or overtakes another, every completion is backed by a response, the
queue drains; receive - a payload is whole, from one sender and one message,
and delivered once; ednet_mip - a file is the one asked for, and installation
ends; flow engine - one execution of a node at a time, released afterwards, no
lost and no invented wake-up; IR engine - rules of one text do not run into one
another, a wait returns an event of its own, timed waits end; gateway - the log loses only its oldest entries,
a message reaches a browser once, the registry's two halves agree; USB plugin -
the newest frame goes out once, the slot is never blocked for good, nothing of a
session outlives its stop, and a host that was held back is let in again.

## 2. Modules

| Module | Models | Composed with |
|---|---|---|
| `FragmentFifo` | abstract: a queue whose items go on the air in order, at most once | refined by `LighthouseTx` |
| `LighthouseTx` (`MCLighthouseTx`) | transmit side | instantiates `FragmentFifo` |
| `LighthouseTxProofs` | theorems about `LighthouseTx` | extends it and TLAPS |
| `LighthouseRx` (`MCLighthouseRx`) | receive side | receives what `LighthouseTx` can put on the air: repeated and overtaken packets |
| `LighthouseRxProofs` | theorems about `LighthouseRx` | extends it and TLAPS |
| `MipTransfer` (`MCMipTransfer`) | `ednet_mip` client and gateway | runs over a mesh that may do what the two modules above may |
| `MipTransferProofs` | theorems about `MipTransfer` | extends it and `NaturalsOrder` |
| `FlowEngine` (`MCFlowEngine`) | classic execution engine | |
| `FlowEngineProofs` | theorems about `FlowEngine` | extends it and TLAPS |
| `ExecutionIr` | graphs, and what validation accepts, as operators | extended by `DslToIr` |
| `DslToIr` | the line parser and the compiler as operators | extended by `IrEngine` |
| `IrEngine` (`MCIrEngine`) | IR execution engine | runs what the two modules above make of its sources |
| `IrEngineProofs` | theorems about `IrEngine`, `DslToIr` and `ExecutionIr` | extends `IrEngine` and `NaturalsOrder` |
| `Codec` | validators, encoders and decoder as operators on JSON values | extended by `Registry` |
| `Registry` | the registry and `poll` as operators on a value | extended by `Gateway` |
| `Gateway` (`MCGateway`) | RestInterface and server.js | extends `Registry` |
| `GatewayProofs` | theorems about `Gateway`, `Registry` and `Codec` | extends `Gateway` and `NaturalsOrder` |
| `Mailbox` | abstract: a slot for one frame, of which the newest goes out, at most once | refined by `UsbNet` |
| `UsbNet` | the USB network plugin with its raw TinyUSB backend | instantiates `Mailbox` |
| `UsbNetProofs` | theorems about `UsbNet` | extends it and TLAPS |
| `NaturalsOrder` | least elements, induction and recursion as facts about sets | used by the proofs |

### LighthouseTx

`"main"` is the asyncio thread, `"irq"` the callback. In MicroPython the ESP-NOW
receive callback is a scheduled function: it runs between two bytecodes of
main, is never nested, and main stands still while it runs. The pump is
therefore cut wherever it tests, fetches or changes shared state, and each
piece is an action of either context: `pc[c]` is where a context is, `loc[c]`
its locals. `At(c, l)` says that main does not move while the callback is inside.
A counter's `+= 1` is two pieces, the load at its label (`"sent"`) and the store at
the one with a plus (`"sent+"`), and the remembered statistics are compared and
stored one after the other. `irqOn` says whether the port delivers the callback at
all; it never changes. `torn` is a history: the callback has come while main was
inside `_tx_sent_frames += 1` (`"sent"`), or between its comparison of the
statistics and its last store of them (`"stats"`).

| Actions | Code (`LighthouseMesh.py`) |
|---|---|
| `SendDirect`, `SendFragmented` | `send_raw`, `_send_fragmented` |
| `EnqTest`, `EnqDropOldest`, `EnqAppend`, `EnqCounted` | `_enqueue_tx_frame` |
| `ReadStats` ... `TestCredited`, `Take`, `Clear`, `CreditOk`, `CreditFailed` | `_update_tx_completion` |
| `TestInflight`, `TestElapsed`, `Take`, `Clear`, `CountTimeout`, `TestQueue` ... `MarkInflight` | `_pump_tx_queue` |
| `CountLoad`, `Store` | the two halves of each `self._tx_... += 1` |
| `WaitPump`, `IrqPump` | the pump's callers: `_wait_for_rx`, `_on_espnow_irq` |
| `DriverAnswers`, `TimePasses` | external: driver, clock |

An exception is modelled where Python raises one: subscripting a frame that the
other context has set to `None`, or index 0 of a list that has become empty.
`Raise` ends the run-loop task when main was in `_wait_for_rx`, which has no
`try`. Fragments are (id, total, index); their bytes are not modelled.

### LighthouseRx

The same two contexts. Reassembly buffers are objects that a context may hold
while the other unlinks them, so they live in a heap of slots, and `Reachable`
forgets those no reference reaches. Time is a clock of steps during which
packets are handled; `TicksDiff` is the wrapping difference of the tick
counter. A message has a sender, an era (the boot it was sent in), an id and a
count; the code sees all of them except the era, and the model uses the era to
state what a payload was put together from. `Arrive` covers loss (a packet is
never chosen), repetition (up to `MaxDups`) and any order.

`endpoint` says whether `run` was given one, which decides what an exception does.
With an endpoint `poll` is called in a `try`: an exception of the reassembly, or a
payload the endpoint cannot decode (`AfterPayload`), is logged and the loop waits
again. Without one `recv_raw` (231) stands in no `try`, and the exception ends `run`:
main stays at `"dead"` (`AfterException`). So does an exception of the pump in
`_wait_for_rx` in either program (`PumpRaises`), which `LighthouseTx` shows possible
on ports with the callback.

### MipTransfer

Messages ever sent stay in `air`: they can arrive at any time, in any order,
any number of times, or never. Each message remembers the request it answers
(`req.n`, which the code does not have), so that taking a wrong answer can be
expressed. Answers go to the requester: `send` with `peer=None` addresses the
last peer heard, which with a single client is the requester. `install` makes a
new fetcher whose ids start again; `hook` is mip's replaced download function.

### FlowEngine

A thread is a stack of calls of `Node.execute`, one action per access of shared
state. `Enter` is atomic because the test of `_is_executing` is made under the
node's lock; `Publish` because the event manager holds its own. A published
event starts a callback thread for each subscriber, which tests
`_waiting_for_event` in one step and sets the event in a later one. In
`StopReturns` each `join` waits one second, so the flows still alive afterwards
are in a long action or in a wait. Links, children and subscriptions are
constants: the application sets them up before it starts a flow.

### ExecutionIr, DslToIr, IrEngine

A text is a sequence of lines, a line its keyword and words; a graph is a
sequence of nodes. `ParseDsl`, `CompileDslToIr` and `ValidateExecutionIr` are
`parse_dsl`, `compile_dsl_to_ir` and the pydantic validators; every error is a
`ValueError` and becomes `Rejected`. An id is the sequence of the words the code
joins with `_`, so ids that collide in the code collide in the model. `IrAssumption`
says of a source what `str.split`, the callers' lists and the models' field types give
it (`TypedSource`), nothing about whether it is accepted. What the engine picks from a
list by its order is given by places: the names of a wait are the set of their places
in the node's list, and the first is the least.

| Actions | Code (`executionEngine.py`) |
|---|---|
| `RunIr`, `RunIrRaises`, `StopCalled`, `StopReturns`, `PublishEvent` | `run_ir`, `stop`, `publish_event` |
| `LoopEnds`, `WaitEvent`, `Action`, `Emit`, `Parallel`, `WaitMulti` | the branches of `_run_ir_graph` |
| `ActionFails`, `ActionSucceeds`, `ActionRaises` | `_execute_action`, which calls a handler up to three times |
| `MultiLoop` | the loop of `_wait_for_multi_options` |
| `Subscribe`, `Wake`, `Unsubscribe`, `Callback` | `_wait_for_events` and its `on_event` |
| `Tick` | the clock, for each WAIT_MULTI |

A thread is a stack of calls of `_run_ir_graph`, because PARALLEL calls it for
each branch on its own thread. A callback knows the wait that subscribed it
(`wait`): the code has a closure per wait, and a callback that runs late writes
to a box nobody reads. `hist.since` is the number of events published when a
wait began, so that `TriggerIsFresh` can say what "fresh" means.

`run_ir` takes `entry_nodes` from its payload, and neither a dict nor an
`ExecutionIr` has them there: `RunIrRaises`. `RunIr` is the same call with a
payload that does pass them on (a subclass of `ExecutionIr` with two
properties); `Payloads` says which of the two a configuration gives. The rest
of the engine is only reachable that way.

### Codec, Registry, Gateway

A payload is the JSON value of its text, tagged with its JSON type, since the
validators test types, presence and ranges. `Encode...` give the payloads that
nodes can send, `Decode` what a receiver makes of any payload. `PayloadAssumption`
says that `NodeIds`, `Services` and `Hashes` name everything valid payloads name;
the code takes any name, so these sets are the universe of names, not a limit on
payloads (`MCGateway` checks it of its payloads). The registry
changes a node's entry in place and takes service ids out of a profile half way
through; `RegisterProfile` says what an entry without an id would leave behind.

On the gateway one thread runs everything, so a handler, or the mesh task
between two awaits, is one action. `MeshTaskRuns` captures as many messages as
there are, one by one (`CaptureAll`), and stops at a payload that cannot
be decoded (its `poll` raises); `Drain` goes on after it. `Stop` and `Start`
keep the log and the registry, which belong to the object; without a server
every request fails. In server.js the three requests of a poll are answered in
any order, may fail before or after the gateway handled them, and polls overlap
(`Polls`).

### UsbNet

Three tasks, each a program counter of its own: `app` calls `usbnet.start` and
`usbnet.stop`; `usb` is the loop of TinyUSB (as in the ping probe's
`usb_device_task`), which calls back for received frames and runs
`mp_usbd_post_task_hook`; `lwip` is the TCP/IP task. The code is cut at each read
or write of a flag that another task can tell apart. Two things keep tasks from
each other. `usb` and `lwip` use the slot under `s_raw_lock`, so each locked part
is one action (`usb.pc = "copy"` means that `usb` holds the lock during the copy);
`app` resets the slot without it. And esp_netif starts and stops an interface in
the TCP/IP task, so `StopDown` waits for a transmission under way.

| Actions | Code |
|---|---|
| `Start`, `StartAttach` ... `StartFails`, `Stop`, `StopDown`, `StopDetach`, `StopDestroy` | `mp_usbnet.c`, `usb_netif_glue.c` |
| `StartReset`, `StartMark`, `StopPending` ... `StopUnmark` | `mp_usbnet_tinyusb_net_start`, `_stop` |
| `RecvCallback` ... `RecvRenew` | `tud_network_recv_cb`, `usb_netif_glue_on_usb_rx` |
| `HookTest`, `HookPending`, `HookRenew`, `HookClear` | `mp_usbd_post_task_hook`: the reads of the two flags of line 140, the renewal, the clearing |
| `TryTest` ... `Recover` | `usbnet_raw_try_xmit_queued`, `tud_network_xmit_cb` |
| `Tx`, `TxPut`, `TxWait` | `mp_usbnet_tinyusb_net_tx` |
| `HostAttaches` ... `HostTakes` | external: the host behind TinyUSB |

Frames are numbered as they are accepted, which the code does not do, so that
`NewestIsSent` can say which one goes out.

## 3. Runs

| Run | Instance | Shows |
|---|---|---|
| `tx` | queue of 2, a failed delivery; on a polled port messages of 2 and 3 fragments and one too long, an unfragmented one; on a port with the callback a message of 2 fragments | polled: `NoSilentLoss`, `SentIsSettled`, `OneFragmentOutstanding`, refinement of `FragmentFifo`, `PolledQueueDrains` even if the driver never answers; both: `FramesAccountedFor`, `LossesArePaidFor`, `CompletionsBacked` |
| `rx` | all kinds of packets, expiry, tick wrap, queue of 1; with and without the callback, with and without an endpoint | `FullMeansWhole`, `JoinsFreshBuffer`, `NoPacketVanishes`, `ReceiverCatchesUp` |
| `rx_peers` | two peers with one id, a restart, a repeated packet; with an endpoint, since a loop that goes on after an exception can do all that one it ends can | `PayloadsSound`, `AtMostOnce` |
| `mip` | a file of two chunks and an empty one, three requests, ids that wrap at 3 | `WrittenInOrder`, `FetchedRight`, `InstallEnds` |
| `flow` | four nodes: parallel, sequential, a shared looping consumer, a step; two flows | `OneExecutionPerNode`, `PassesBackedByEvents`, `WaiterIsWoken`, `NodesAreReleased` |
| `ir` | 1115 sources: one and two rules from 4 ids, 5 UNTILs and 5 endings, texts that are no rules, graphs by hand; six of them run with one or two threads, three events, a stop and one second run | `RulesRunApart`, `TriggerIsFresh`, `WaitsEnd` |
| `gateway` | log of 1, drains of 1 and 2, one browser with two overlapping polls, 19 payloads of which the codec accepts a few, one request that fails or one stop | `LogHasNoGap`, `SentOnce`, `ServicesFindNodes`, `BrowsersCatchUp` |
| `usb` | two sessions, three frames of two lengths and one too long, a host that comes, sleeps and goes | `PendingIsClaimed`, `StoppedIsEmpty`, `QueuedIsSent`, `ReceivingResumes`, refinement of `Mailbox` |

Why the bounds are enough to be interesting. Two messages and a queue shorter
than the two together make overflow drop a fragment of the message being
queued. The races of the pump need two fragments: one that both contexts send, and
one that is popped in its place, or credited with the first one's answer. Reassembly needs two parts per message and a third free slot, so
that both contexts can create a buffer while one is still held. Ids modulo 3
come back after two requests. Two rules that wait for the same event, and a third
event, let a callback of the first wait come late, in the second. A log of 1 overflows with the second message.
Two USB sessions let the hook of the first meet the start of the second; three
frames of two lengths let one replace another unseen, and an old one come back.
Counters (`MaxFrames`, `MaxDirect`, `MaxFails`, `MaxDups`, `FifoMax`, `MaxAge`,
`MaxRequests`, `Threads`, `Flows`, `MaxPublish`, `Polls`, `RxMax`,
`MaxArrivals`, `MaxTroubles`, `MaxStarts`, `MaxMs`, `Slots`, `Calls`) bound what the
environment does, never what the code does. Ages beyond `MaxAge` are alike: with a timeout of 0 and a period of 4
steps, 0 is fresh, 1 stale and 2 looks negative. `CHECK_DEADLOCK FALSE` stands
only in the receive, flow, IR and gateway configurations: a run loop that an exception
has ended, an application that has started its flows or graphs, and a gateway whose
browser has left, really stop.

### Where the code disagrees with its own words

Four runs are expected to end in a violation; `findings` quotes the lines.

* `tx_irq_kills_run_loop` (`QueueDrains`): with the callback delivered, the pump
  in `_wait_for_rx` can find `_tx_inflight` or the queue emptied between test
  and use; the exception ends the run loop, and the queue is never drained.
* `mip_late_answer` (`KeepsCollecting`): ids start at 1 with each installation,
  so a late answer of a given-up fetch completes another file's fetch.
* `flow_stop` (`StoppedStays`): a worker sets `_running` after `stop()` cleared it.
* `usb_start_overtakes_hook` (`ResumesAfterStart`): the hook tests the two flags of
  line 140 one after the other, renews the receive endpoint and clears
  `s_raw_rx_renew_pending` (142). If the program stops and starts again anywhere in
  between, the flag of the new start is cleared, and a frame that comes before
  `s_tinyusb_net_started` is set (284) leaves the endpoint unarmed for ever.

`NoSilentLoss`, `SentIsSettled`, `OneFragmentOutstanding` and `SendsInOrder` are
promises of the polled build only: with the callback TLC finds counterexamples to
each (the head is sent twice and the next one popped unsent). The code claims
nothing for that case, so they are not findings; `LossesArePaidFor` says what
remains. Two promises hold on both kinds of port but for a window that they name by
`torn`. `FramesAccountedFor`: a callback between the load and the store of main's
`_tx_sent_frames += 1` has its own count overwritten; everywhere else the counters
add up, increments under way included. `CompletionsBacked`: a callback while main is
between its comparison of the statistics and its last store of them may credit the
same response again, or see them go backwards; anywhere else it does no harm. Likewise
`NoPacketVanishes` is stated for ports without the callback: with it, two
contexts can each create a buffer for one key, and a part is lost.

`ReceivingResumes` excludes what `usb_start_overtakes_hook` shows, and no more:
`app.overtook` says of the last start that it reset the flags while the hook was
between its first test and the clearing (`InHook`). A later start that does not
overtake the hook makes good what an earlier one lost.

Seen while modelling, and left as observations:

* `run_ir` reads `entry_nodes` from the `ExecutionIr` (`executionEngine.py:300`), which
  has them under `graph`: it raises an `AttributeError` for every graph the compiler or
  the validator returns (`RunIrRaises`), where the engine's README says "Starts one
  thread per entry." One call shows it; no model is needed.
* Without an endpoint, and with the callback delivered, the context that assembles or
  purges a buffer second gets a `KeyError` from its `del`; in main it leaves
  `recv_raw` (231) outside any `try` and ends `run`. `ReceiverCatchesUp` says that only
  this, or an exception of the pump, stops the receiver, and only on such ports.
* What a request handler polls is registered but never reaches the message log
  (`RestInterface.py:108`); if a poll of server.js fails after `/messages` was
  handled, the messages it fetched are lost (`server.js:127`).
* PARALLEL runs its branches in turn on one thread, where the engine's README
  says "spawn branch runs": an event a branch emits is missed by a later one.
* The compiler only makes `ok` transitions, so a failing handler ends the thread
  and the rule's STOP and TIMEOUT actions are not called. STOP actions can only
  follow an `UNTIL ON`; the `emergency` rule of the example has none, so it waits
  ten seconds and runs its default timeout action (`RulesRunApart` states which
  actions a rule's lines really ask for).
* A thread in `WAIT_EVENT` is not woken by `stop()`, and goes on with its graph if
  `run_ir` is called again.
* `usb_netif_glue_on_usb_rx` uses `s_netif` after a stop may have destroyed it.

## 4. Fairness

* `LighthouseTx`: code that has been entered runs on; the clock advances; the
  run loop comes back to its pump (strong, because sends and the callback may
  get in between), since its wait is bounded by `poll_ms` and asyncio is
  round-robin. Nothing of driver, callback or application.
* `LighthouseRx`: the run loop runs (bounded wait) as long as no exception has ended
  it, a callback that began ends. That a callback begins is not assumed, and an
  exception of the pump (`PumpRaises`) may come at any time or never.
* `MipTransfer`: the clock advances to the deadline, and mip ends once it has
  its files. Nothing of mesh and gateway.
* `FlowEngine`: every thread and callback thread is scheduled, and actions end.
  Nothing of the application: an event that is never published leaves its node
  waiting, as `wait()` has no timeout.
* `IrEngine`: threads and callback threads are scheduled, handlers return, time
  passes. Nothing of the application: an event may never be published.
* `UsbNet`: each task goes on with what it has begun, as the FreeRTOS scheduler
  gives. Strong fairness stands where an action is disabled and enabled again by
  others: the hook runs after each `tud_task`; an active host takes what was sent;
  TinyUSB does not refuse its call back for ever. Nothing of the program, of lwIP
  or of a host that sleeps or goes.
* `Gateway`: the interval timer of an open stream fires, requests end. Nothing of
  the mesh task: the server library is not in `src/`, so whether it leaves the
  task time is unknown; the polls drain the mesh without it.

## 5. Proofs

Every theorem is about `Spec`, for every value of the constants that the module's
one named assumption allows (limits are natural numbers, sets of slots and ids
finite, and what the code itself guarantees of them), and every interleaving.
All are proved the same way: the property is seldom inductive, so an invariant
`Inv` is found with `Init => Inv`, `Inv /\ [Next]_vars => Inv'` (one lemma per group
of actions) and `Inv => property`. TLC checked each strengthening on the module's
runs before it was proved.

### Transmit

| Theorem | Statement | Ports |
|---|---|---|
| `TypeCorrect` | `[]TypeOK` | both |
| `FramesAccounted` | `[]FramesAccountedFor` | both |
| `LossesPaid` | `[]LossesArePaidFor` | both |
| `NothingLostPolled` | `[]NoSilentLoss` | polled |
| `SentSettled` | `[]SentIsSettled` | polled |
| `CompletionsAreBacked` | `[]CompletionsBacked` | both |
| `OneOutstanding` | `[]OneFragmentOutstanding` | polled |
| `ImplementsFifo` | `SendsInOrder`, the refinement of `FragmentFifo` | polled |

* **Types.** `LocalsOK` adds that the overflow test still holds at the append:
  the callback may pump in between, but pumping only shortens the queue.
* **Pre-empted pumps.** The central fact is `QueueIsRest`: the queue is what remains
  of the accepted sequence once its first `Removed` fragments have left it, so each
  fragment has a position. `HeldWasHead` says that
  what a pump holds was at or before the present head, `HandledLeaves` that a
  fragment sent or discarded has left the queue, unless a pump is about to pop it,
  and `PopsAreSends` that every pop had a transmission of its own before it. A fragment popped unsent has then a partner that was
  sent twice (`LossesPaid`), for any number of fragments: with both pumps in the
  code at once, each pops once for each time it sends.
* **Torn counts.** `RegInv` says what a context has loaded of a counter: in the
  callback its present value, since main stands still; in main at most that, and
  exactly that for `_tx_queued_frames`, which only main increments, and for
  `_tx_sent_frames` unless the callback has come in between. A store then adds one to
  what is counted or less (`CountInv`), and `FramesAccounted` follows.
* **Credits.** `CredInv` holds as long as main has not been torn: credits given and due
  never exceed the statistics seen (`Books`), these never the driver's, and of any two
  snapshots one is later in both numbers (`NotOlder`: a failure is a response too), so a
  context that compares finds growth only where there is some. The callback runs from
  its reading to its crediting alone, and main's comparison of an older snapshot finds
  nothing to credit.
* **Polled ports.** `PolledInv` says what main knows at each label of the pump: the
  frame it holds is the head, what was sent is settled or in flight (`Settled`), and
  every frame on the air is answered or still with the driver (`OnAir`).
  The three promises and the refinement follow; a step of the pump maps to an accept,
  a transmission of the head, a give-up of the head, or to a stutter.

### Receive

| Theorem | Statement |
|---|---|
| `TypeCorrect` | `[]TypeOK` |
| `FullBuffersWhole` | `[]FullMeansWhole` |
| `OnlySoundPayloads` | `[]PayloadsSound` |
| `PartsJoinFresh` | `[]JoinsFreshBuffer` |
| `NothingVanishes` | `[]NoPacketVanishes` |
| `LoopSurvives` | `[]RunLoopSurvives` |
| `DeliveredOnce` | `[]AtMostOnce` |

Of the code's environment `RxAssumption` says only that a sender does not repeat an
id within an era.

* **Types.** `TypeOK` is not inductive: `Store` writes through `loc[c].slot` and
  `Create` uses `loc[c].pkt`, so `LocalsOK` adds what the locals hold at each
  label. `TypeInv == TypeOK /\ LocalsOK`.
* **Whole buffers.** A buffer is complete by *count*, and the code then expects
  *indices* 0 .. total-1. `BufferInv` says: parts fit their buffer
  (`BuffersFit`: index below the total, one sender, id and total, one part per
  index), a slot hangs under one key (`OneKey`), the counts a context saw still
  agree (`CountsAgree`). A pigeonhole argument (`FullIsWhole`) gives
  `FullMeansWhole`: as many distinct indices below total as total are all.
  `OneKey` is needed because a context stores into a buffer the other may have
  unlinked, and must not thereby change another key's buffer.
* **Sound payloads.** Payloads only enter the queue or the application from
  `TakeRaw` and `Assemble`, and there `BufferInv` makes them sound.
* **Fresh buffers.** `FreshInv`: from the expiry to the store every buffer in the
  table is fresh or on the context's list of stale keys, although the other
  context purges and creates in between, because time stands still meanwhile.
* **Nothing vanishes.** `AloneInv` says that without the callback the run loop finds
  everything as it left it: its buffer is the one of its key, what it stored is
  still there, and every buffer with parts hangs under a key. So is every key it has
  found stale or assembled, which gives `LoopSurvives`: no `del` of it raises. No run
  checks `RunLoopSurvives` by itself, as `ReceiverCatchesUp` would fail without it.
* **Once.** `OnceInv` holds as long as nothing was repeated and no peer restarted:
  a packet is in one place only, payloads share no part (`PayloadsApart`), and no
  buffer has the key of a used fragment (`KeysGone`). A new buffer does not bring
  such a key back: its packet would be of the same message as a payload that is
  whole (`OnlySoundPayloads`), and therefore in it (`KeyUnused`).

### ednet_mip

| Theorem | Statement |
|---|---|
| `TypeCorrect` | `[]TypeOK` |
| `InOrder` | `[]WrittenInOrder` |
| `FetchIsRight` | `[]FetchedRight` |

`MipInv` joins four parts: what a client has written is numbered from 0 and what it
keeps for later is in its place (`ClientsOK` with `FileOK`), gateways work on
requests that were made, every message in the air answers one of them with that
file's chunks (`AirOK`), and requests are finitely many. Under a fresh id all that a
client accepts answers its own request, so its chunks are `From` that file.
`FetchedRight` also needs that a fetch which returns True has all of them: the code
compares a number of chunks written with a total, and the proof takes the least
index missing (`LeastElement`) and a pigeonhole on the chunks kept.

### Classic flow engine

| Theorem | Statement |
|---|---|
| `TypeCorrect` | `[]TypeOK` |
| `OneExecution` | `[]OneExecutionPerNode` |
| `PassesBacked` | `[]PassesBackedByEvents` |

For every graph, cyclic ones and shared children included. `OneLive`: a node has at
most one call past its test of `_is_executing`, in all stacks together; `Marked`: the
flag is set exactly while there is one. `OneLive` alone is not inductive, since
`Enter` relies on the flag, nor is `Marked`, since `Leave` relies on the call being
the only one. `PassesBacked` is a balance (`EventsSuffice`): passes, callbacks that
have not set the event yet, and a set event that no woken call is about to clear
together never exceed the publications. A callback that sets an event already set
loses one, never gains one.

### Gateway

| Theorem | Statement |
|---|---|
| `TypeCorrect` | `[]TypeOK` |
| `NoGap` | `[]LogHasNoGap` |
| `RegistryAgrees` | `[]ServicesFindNodes` |
| `NothingSentTwice` | `[]SentOnce` |

Draining registers and captures any number of payloads in one step, by a recursive
function; `RecursionExists` gives its values, and induction over them keeps
`HalvesAgree` (the registry's halves agree) and `Latest` (the log is the latest
captures). `DecodedIsValid` is where the codec comes in: a profile without an id
would break `HalvesAgree` half way. For `SentOnce` the messages are followed through
the log, the answers that polls wait with, and what was sent: `MessagesApart` says
that these have no id in common, and `Continues` that what the log gains is new.

### IR engine, compiler and parser

| Theorem | Statement |
|---|---|
| `TypeCorrect` | `[]TypeOK` |
| `TriggersFresh` | `[]TriggerIsFresh` |
| `RulesApart` | `[]RulesRunApart` |
| `ParseSays` | what the parser makes of a text says, rule by rule, what the rule's lines say |
| `GraphsSound` | the nodes of every graph the engine is given lead to its own nodes |

For every text, every set of rules or graph given as data, every set of handlers, any
number of threads, and any delay of a callback.

* **Parser.** `Parsed` is kept from line to line (`ParseLineKeeps`): of the first *k*
  lines, those that belong to a rule are the ones after its `RULE` line and before the
  next, and the rule holds the actions and conditions these lines name, no others. It is
  an induction over the lines, with `SetInduction`, since `ParseDsl` is a recursive
  function; a line without a rule, or after `END`, must fail for it to hold.
* **Compiler.** `RuleCompiled` gives the nodes of a rule in their order: its entry, the
  START actions, the wait for its stop, the STOP and the TIMEOUT actions, the end, and
  where each leads. `Laid` says that the rules of a graph lie one after another in its
  list of nodes (`ListsFlatten`). A graph that validation returns has its targets and
  entries among its ids, and so `GraphsSound`.
* **Rules apart.** The compiler alone does not keep rules apart: `r` and `r_wait` both
  make `r_wait_stop`, and only `IdsUnique` refuses them. With it, an id is one place of one rule
  (`PlaceOfId`). A run stays in a set of places that none leads out of (`ReachStays`),
  and `PartsClosed` names three: all that a rule uses, what follows its events and what
  follows its timeouts. In the other direction `UsedAreReached` gives the way to each
  place, no longer than the graph has nodes. The actions at these places are what the
  lines ask for (`WantedIsUsed`, `WantedIsAsked`).
* **Engine.** Neither `TypeOK` nor `TriggerIsFresh` is inductive. `ThreadOK` adds what a
  thread's place says of its node, so that the fields it reads are there, and that an
  event is held only while a wait is under way; `CallbacksOK` that a callback whose wait
  is the thread's present one brings an event published since this wait began, under a
  name it awaits. A callback of an earlier wait may bring anything: it writes to a box
  that is no longer read. That a name awaited has an option, so that `max` is never
  called on nothing, comes from the same invariant (`Fresh`).

### USB plugin

`UsbNetProofs` proves, for every set of lengths, buffer size and number of
attempts, starts and frames, and every interleaving of the three tasks:

| Theorem | Statement |
|---|---|
| `TypeCorrect` | `Spec => []TypeOK` |
| `SlotNeverStuck` | `Spec => []PendingIsClaimed` |
| `NothingOutlivesStop` | `Spec => []StoppedIsEmpty` |
| `ImplementsMailbox` | `Spec => NewestIsSent`, the refinement of `Mailbox` |

They assume `UsbAssumption` only (lengths and limits are natural numbers, not 0
where the code has an array or a loop). `PendingIsClaimed` is inductive given the
types. `StoppedIsEmpty` is not: an empty slot could be filled by a transmission
under way. `SendInv` says that lwIP sends only while the interface is up, that the
interface is down from `StopDown` until the slot has been reset again by `start`
(`Quiet`), and that the frame being sent is the next in number; `SlotInv ==
PendingIsClaimed /\ SendInv` is inductive together with `TypeInv`. The
refinement then goes by groups of actions: most leave the slot full or empty as it
was or empty it (`Emptied`), `XmitCopy` transmits, and `TxPut` puts, which needs
the numbering of `SendInv`.

### What stays with TLC

Every invariant and every refinement the runs check is proved. Beyond the prover: liveness under
fairness, and `ENABLED`, hence `PolledQueueDrains`, `ReceiverCatchesUp`, `InstallEnds`,
`WaiterIsWoken`, `NodesAreReleased`, `WaitsEnd`, `BrowsersCatchUp`, `QueuedIsSent` and
`ReceivingResumes`. The library's induction theorems take a predicate as a
parameter, which the provers cannot instantiate. `NaturalsOrder` states what is
needed of them about sets instead (`LeastElement`, `SetInduction`), and from these
that a recursive function on `0 .. k` exists (`RecursionExists`). No module uses a
RECURSIVE operator.

## 6. External parts and abstractions

Modelled from how `src/` uses them: the ESP-NOW driver and radio, the clock,
mip and HTTP, MicroPyServer, threads, action handlers. Payload bytes, headers'
encodings, JSON's text, file names, log lines and HTTP framing are abstracted: a
reassembled payload is the set of parts it came from, a chunk its (url, index), a
capability message its fields, an advertisement's size the number of its service
ids, a workflow's text its words. `Codec` leaves out the `int()` and `str()` that the
encoders apply to values of these types already (`codec.py:40`, `50-51`); no property
is about them.

A second `LighthouseMesh()` returns the singleton but runs `__init__` again
(`install` does so): receivers see it as a restart of the peer
(`PeerRestarts`), and what the old queues held is lost.

## 7. Not modelled

* **IR engine, compiler**: filters, guards, bindings, `preempt`, correlation and
  action arguments, which no code reads; the type errors of hand-made dicts;
  `register_action` while threads run.
* **Registry**: `last_seen_ms`, and the order it gives the result of `find_service`.
* **Demo, wifi, helper scripts, `Payload.py`, `ShipYard.py`**: no shared state.
* **USB ping probe, descriptors, web page**: configuration data and layout.
* **Rest of the USB plugin**: the esp_tinyusb backend (one library call per frame),
  statistics counters, MAC addresses, `ifconfig`, the MicroPython bindings.
* **The node protocol of the design document** (HELLO, CALL, lifecycle): no code.
* **An exception in `_capture_message`** after it raised the sequence number
  (`RestInterface.py:132`) is swallowed (`145-148`) and leaves a gap in the log; on a
  decoded message only a lack of memory can raise there.
* **Straight library calls** of RestInterface (route set-up, Wi-Fi channel,
  `/health`, `/version`) and server.js (version, heartbeat, proxy).

## 8. Mutants

Each property of a passing run is paired with a mutated definition (`mutants`)
that a plausible slip would give: an off-by-one limit, a forgotten clear, a pop
of the wrong end, a key without its sender. TLC finds each violated, so each
property depends on the code it is about.

## 9. Plan

Every component of section 1 is modelled and checked, every safety property and both
refinements are proved. What is left:

1. Proofs of the liveness properties, when the prover can treat fairness.
2. The one hazard without any property: `usb_netif_glue_on_usb_rx` tests `s_netif` and
   uses it after a copy, during which a stop may destroy the interface. It needs
   interface pointers with lifetimes in `UsbNet`.
3. The node protocol, once there is code for it.
