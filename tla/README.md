# A TLA+ development of Mailman / AHP

Mailman is a TypeScript library that carries *packets* between *roles* inside one Node.js process and, through
an HTTP and a WebSocket server, between processes. Next to it lies the AHP test harness: a bus, an agent host
and faulty transports on which the task protocol of AHP is exercised. This directory models the parts of both
that keep state, checks the models with TLC on small instances and proves their main theorems with TLAPS for all
instances.

All paths below are relative to the repository. JavaScript runs a callback to its end before it starts another,
so in every module **one action is one run of synchronous code between two awaits**; whatever the code awaits (a
handler, a middleware, a timer, a socket) may end at any later point, in any order, or never.

## 1. Inventory

### Mailman (`src/`)

| Component | State it keeps | Operations | Talks to |
|---|---|---|---|
| **Runtime**, `core/runtime.ts` | `RuntimeStats`; `pendingAcks`, the result promises of `sendWithAck` by taskId | `send`, `dispatch`, `sendWithAck`, `deliverResult`, `sendToCapability`, `openStream`, `registerRole`, `registerStreamRole`, `schedule*`, `subscribe` | everything below, by calls |
| **Registry, Validator, Router**, `core/{registry,validator,router}.ts` | the Map of roles | `register`, `unregister`, `validate`, `dispatch` | looked up twice by each send: before the retry loop and in every attempt |
| **Retry**, `core/retry.ts` | the attempt number | `withRetry` | each attempt runs the whole middleware chain |
| **Middleware chain**, `core/middleware.ts` | of each dispatch, the index of the deepest step entered | `composeMiddleware`, the `next` of each layer | wraps the router; a layer may call `next` again, late or never |
| **Dead letter queue**, `core/{dlq,backends}.ts` | a table, or an array in memory | `push`, `remove`, `clear` | filled by `send`, emptied from the CLI |
| **Scheduler**, `core/scheduler.ts` | the `pending` Map, one Node.js timer for each entry | `schedule`, `scheduleAfter`, `scheduleRecurring`, `cancel`, `listPending` | its timers call `dispatch`, whose handler may call the scheduler |
| **Load balancer**, `core/loadBalancer.ts` | a round-robin counter for each set of candidates, the open requests of each role | `pick`, `recordStart`, `recordEnd` | around the `send` of `sendToCapability`, over what the registry holds then |
| **Streaming**, `core/streamSession.ts`, `core/runtime.ts:350-432` | the store of sessions; of each session a queue, the waiting readers and `_ended` | `push`, `end`, `error`, the async iterator, `openStream` | the opening packet goes through `send`; the handler runs on after it |
| **Event bus**, `core/eventBus.ts` | a Map of topics to Sets of subscribers | `subscribe`, the unsubscribe it returns, `publish` | `send` publishes every answer; a subscriber may call anything, `publish` included |
| **WebSocket server**, `transport/wsServer.ts` | of each connection, its subscriptions | `connection`, `subscribe`, `unsubscribe`, `close`, and `send`, `dispatch` as calls of the runtime | the event bus |
| **Trace store**, `core/{traceStore,db,backends}.ts` | a table of trace events, or an array in memory | `record`, queries | written by every entry and exit of `send`, `dispatch` and `deliverResult` |
| **HTTP server, remote client**, `transport/{server,remoteClient}.ts` | open connections; of each request a promise and a timeout | `request`, the routes of `handleRequest`, `close` | one runtime call for each request, which the server awaits and the client gives up |
| **Client SDK, CLI, packet types** | none of their own | one runtime call, one fetch or one query | the runtime, the stores |

### AHP test harness (`src/experimental/ahp-test-harness/`)

| Component | State it keeps | Operations | Talks to |
|---|---|---|---|
| **AHPTestBus** | the session; of each task its attempts, `accepted`, `terminal`, `cancelRequested`, two timers; `seenMessageIds` | `connect`, `restart`, `sendTask`, `cancelTask`, `receiveEnvelope`, the two timer callbacks | the transport; gives events to Maestro |
| **AHPTestAgentHost** | of each task a `TaskRuntime` with `accepted`, `terminal`, `cancelled`; the cancellation timer | `registerAgent`, `handleTaskSend`, `handleTaskCancel`, the context it hands to an agent's handler | the transport, the agents |
| **Transports, FaultInjector** | envelopes in flight | drop, delay, duplicate, reorder | bus and host |
| **LocalTransport** | a WebSocket server, one client socket and the server's end of it, `startPromise`, `clientConnectPromise` | `sendEnvelope`, `sendToClient`, `disconnect`, `close`, the socket events | bus and host, over the loopback interface; every call may open, close or replace the socket that others use |
| **Facade, adapters, log, configuration** | wiring, an append-only log | | |

### What is hard here, and what makes each part correct

* **Send path.** A timeout ends an attempt but not its handler, so attempts overlap and answers come late; the role
  that validation found may be gone when the router looks; a `task.nack`, a failed send and `deliverResult` all
  settle whatever promise waits under a taskId, in separate microtasks; a refused packet leaves by another exit
  than a failed one. *Correct:* a call is answered or fails once and for good; statistics and dead letters agree
  with what was answered; a promise is settled once and by its own call; `timeoutMs` bounds a call.
* **Scheduler.** The callback removes its entry, dispatches, and arms a recurring schedule again afterwards; handlers
  call back in between. *Correct:* nothing is early, nothing lost, nothing delivered after its cancellation.
* **Load balancer.** Counters outlive the registrations they were made for. *Correct:* the load of a role is its number of
  open calls; turns are even.
* **Streaming.** Several invocations of a handler (retries) and several readers share one queue, and four places in the
  code close a session. *Correct:* order, one closing chunk and nothing after it, no reader that waits beside a chunk.
* **Event bus.** `publish` walks live iterators while subscribers change them, and is reentrant. *Correct:* who stays
  subscribed is called; `publish` returns. A WebSocket connection leaves nothing behind.
* **Middleware and HTTP.** A layer calls `next` twice, keeps it, or answers before the layer below; attempts that timed out run on under
  the request; connections break, clients give up, the server never does. *Correct:* no layer runs twice in an attempt, a reply is the last attempt's
  and came up through every layer, `close()` returns although handlers hang.
* **LocalTransport.** Calls share one promise, one client socket and one server socket across their awaits; the events of an old connection arrive
  after the new one is open. *Correct:* no open socket is forgotten, answers find the connection that is open, nothing is lost unnoticed
  unless another call closed the socket, every call and `close()` return.
* **Harness.** Envelopes come twice, late, out of order or not at all; timers race answers, cancellations and sends
  under way; the bus restarts. *Correct:* the end of a task is told once and last; every task has an end; no handler
  runs twice; retries keep to their budget and stop with the cancellation.

`PROJECT.json` lists every component and, under `hazards`, these dangers at their lines with the properties
meant to catch them.

## 2. Modules

| Module | Models | Proofs | TLC instance |
|---|---|---|---|
| `SendContract` | *abstract:* what `send()` promises its caller | | |
| `Runtime` | `send`, `dispatch`, `sendWithAck`, `sendToCapability`, `deliverResult`, validation, routing, middleware, retry, timeout, statistics, both dead letter stores; implements `SendContract` | `RuntimeProofs` | `MCRuntime` |
| `PacketTrace` | `Runtime` with the rows its steps record in `trace_events` | `RuntimeProofs` | `MCPacketTrace` |
| `ScheduleContract` | *abstract:* what the scheduler promises for each schedule | | |
| `Scheduler` | `PacketScheduler` on Node.js timers; implements `ScheduleContract` | `SchedulerProofs` | `MCScheduler` |
| `LoadBalancer` | `sendToCapability`, `LoadBalancer`, a registry that changes | `LoadBalancerProofs` | `MCLoadBalancer` |
| `StreamChannel` | *abstract:* a channel that closes once | | |
| `Streams` | `StreamSession`, its store, `openStream`, `registerStreamRole`; each session implements `StreamChannel` | `StreamsProofs` | `MCStreams` |
| `EventBus` | `EventBus` with the semantics of JavaScript's live iterators | `WsServerProofs` | through `MCWsServer` |
| `WsServer` | subscriptions of WebSocket connections, composed with `EventBus` | `WsServerProofs` | `MCWsServer` |
| `Middleware` | `composeMiddleware`, for any number of dispatches at once | `RemoteExchangeProofs` | through `MCRemoteExchange` |
| `RemoteExchange` | the HTTP server and its client, composed with `Middleware` through the retry loop | `RemoteExchangeProofs` | `MCRemoteExchange` |
| `TaskContract` | *abstract:* what the harness promises Maestro about a task | | |
| `TestHarness` | `AHPTestBus` + `AHPTestAgentHost` + the network between them; implements `TaskContract` | `TestHarnessProofs` | `MCTestHarness` |
| `LocalTransport` | the harness's WebSocket transport with its sockets and fault rules | `LocalTransportProofs` | `MCLocalTransport` |

Definitions whose comment begins with "Mutant:" are not part of a specification: each states a plausible mistake in the
definition it stands before, and the property that notices it is listed in `PROJECT.json`.

### `Runtime`

A *call* is one element of `Sends`; tables of constants say which packet it sends, for which task, to which role
and through which entry point (`Mode`).

* `pc` follows the awaits of `send()` and `sendWithAck()`: `idle` → `awaiting` (inside `await withTimeout(...)`) →
  `settled` (the attempt's promise has settled, `withRetry` has not gone on yet) → `backoff` (its sleep) → ... →
  `returned` (`send()` is over, `sendWithAck()` continues in a later microtask) → `done`.
* `pipeline[s][a]` is the promise of attempt *a*: open, or what it settled with. `Settle` is the outermost layer answering or throwing,
  for whatever reason: with the handler's answer, with one of its own while the handler is still running, or because the router found no role. It does not depend on `pc`:
  after a timeout the promise stays open, and `Settle` drops its answer unless `Awaited`. `Route` is a handler being entered, which may happen at any time after the attempt began,
  also when its promise has settled or its call has returned: `middleware.ts:52` lets a layer call a `next()` it kept. So handlers of one call may overlap, with or without
  `timeoutMs`, and nothing here says they do not; a runtime without middleware has fewer behaviours, which are among these.
* `Reject`, `Accept` are `send()` to its first await (`sendWithAck` files its promise in the same synchronous run);
  `Backoff`, `Retry`, `DeadLetter`, `Complete` are `withRetry` and the rest of `send()`; `AckReturns` is the rest of
  `sendWithAck()`; `DeliverResult` may be called by a handler at any time after it was entered, finished or not,
  once or repeatedly.
* `NoCapableRole` is the early return of `sendToCapability()`, which counts a failure outside `send()`; with a candidate the call goes on into `send()` in the same synchronous run
  (`EntersSend`). One role stands for a capability here; the choice among several, and `recordStart`/`recordEnd`, are in `LoadBalancer`.
* `dlq` counts the entries of each packet; `dlqStore` is the store the runtime was built with: SQLite inserts,
  the memory store updates the packet's entry. `dropped` is history: what the operator has removed.

Left out: `ping()` and `packetsPublished`, which no other state depends on; lengths of
backoffs. What a middleware may do with `next()` is in module `Middleware`; here a layer only answers, fails, or enters the handler. `createPacket` and ids are
model values. An unhandled rejection of the promise that `dispatch()` drops would need a throwing store; it
is not modelled.

### `PacketTrace`

Extends `Runtime`: `TraceNext` takes each step of `Next` as it is and adds the rows the step records, so the variables of the send path are
never changed by it (theorem `TraceKeepsSendPath`). `traceEvents` is the table `trace_events`, or the array of the memory store; a row keeps the columns
`packet_id`, `task_id`, `event` and the `attempts` of its details. `RejectRows`, `AcceptRows`, `FailRows`, `CompleteRows` are the four groups of
`record()` calls in `send()`; `DeliverRows` that of `deliverResult()`, which stands under the packetId of the result. A handler makes that id up, and `ResultIds` may contain the ids of sent packets too (`RuntimeTrace` takes just such an id); what tells
the row from the `packet.completed` of `send()` is its detail `{via: "deliverResult"}`, which the event `Delivery` stands for. `NoCapableRole` writes no row.
Rows are read back in the order of their insertion: a clock that is set back, after which SQLite would sort them otherwise, and an INSERT that throws are left out.

### `Scheduler` and `ScheduleContract`

`pending`, `deliverAt` are the Map and its entries, `due` the timer of each. `Fire` is the timer callback up to and including
`dispatch(packet)`, `Finish` the rest; between them only `Schedule`, `Cancel` and the clock (`Tick`) can act, because
the handler's synchronous part runs there and may call the scheduler, while no other callback can run (`running =
Nobody` guards `Fire`). Outside callbacks the same two actions are anyone's. `TimerDelay` is what `setTimeout` does with a delay.
`delivered`, `lastAt`, `cancelled`, `asked` are history.

Left out: `timer.unref()` (`scheduler.ts:116-119`), by which a process with nothing else to do exits before its timers; that the process stays alive is assumed, `EventuallyDelivered` above all.

### `LoadBalancer`

`order` is the registry's Map, restricted to the roles with the capability; `rr` is `rrCounters`, keyed by a set because the code
sorts the names before it joins them; `active` is `activeCounts`. `Start` is `pick()` and `recordStart()`, which run without an await,
`End` the `finally` block. The `send` in between is open: module `Runtime` has it, and the counting of a call without candidates. `share`, the turns since the registry last changed, is history.

### `Streams` and `StreamChannel`

`queue`, `waiters`, `ended`, `store` are the code's. `EnterHandler` is the wrapped handler of `registerStreamRole`, once for every attempt the send
makes, also after `openStream` has returned (a late attempt after a timeout); `HandlerSettles` the two
callbacks on the handler's promise; `OpenAnswered` and `OpenFails` the two ways on after the `send`. `written` and `taken` are
history, and the refinement maps a session to `StreamChannel` through them. `Dequeue` is one turn of the iterator. Stream handlers
are async functions, as their type says; one that throws synchronously is a send that fails and is covered by `OpenFails` without an entry.

### `EventBus` and `WsServer`

A Map or a Set in JavaScript is iterated by insertion, also past what is added or removed on the way. Each entry carries the
serial number of its insertion (`place`) and of its Set's (`set`), and each running `publish` the position it has reached,
so `Ahead` is what its loops will still visit. `frames` is the call stack of nested `publish` calls. `WsServer` adds connections: a
subscription is a new closure, `connSubs` the connection's Map of them. Messages are handled until the "close" event (`Receives`), also while the socket is closing. Socket events are handled
between two `publish` calls, which the guard `frames = <<>>` states.

### `Middleware` and `RemoteExchange`

A *dispatch* is one call of the composed function; its steps are the layers `0..Layers - 1` and the core, which is the router with the
handler. `index` is the variable that every step checks before it goes on, `step` the promise of each step. `CallNext` lets a layer call `next` while it runs
or with a `next` it has kept; a second call is refused by `Enter`'s guard and leaves nothing behind. `Answers`, `PassesOn` and `Throws` end a layer in any order. `source` says whose
reply a step resolved with; `entered` is history.

In `RemoteExchange` the dispatches are the attempts of the packets posted to `POST /packets`: `Send` and `Retry` begin one, `SendReturns` and `SendFails` are the
end of `send()` and its response. `timed` holds the packets with a `timeoutMs`: their attempts may be given up at any time, and their layers go on. `link`
is the connection of a request, which `Break` and the client's `Timeout` end; a request begun after `close()` finds none. `Closed` is the callback of `server.close()`.
Left out: unknown routes and headers (data), the text of the metrics. What `send()` and `dispatch()` record meanwhile is in `Runtime`.

### `TestHarness` and `TaskContract`

The bus's flags and timers are sets of tasks. `Dispatch` is `dispatchTask()` up to its await, `Sent` and `SendThrows` what
follows; `sending` holds the tasks in between, which is where cancellations, restarts and answers get in. `receiveEnvelope`
has one action for each way through it. The network delivers an envelope in flight at any time, keeps a copy (`kept`) while
`MaxCopies` lasts, or never delivers it: this covers delay, reordering, duplication and loss of every fault rule, and the in-memory transport as the case of immediate delivery.
`AckTimerRetries` calls `dispatchTask` without awaiting it, as the code does. `ContextCall` lets a handler, or what it left running,
call `accept`, `progress`, `complete`, ... in any order and too often. `caught`, `unsent`, `restarts`, `calls`, `invoked` and the epochs in
`events` are history.

Left out: the handshake envelopes, `agent.online` and `agent.offline`, envelopes a test injects itself, and the pacing of
fault rules. `task.partial_output` is handled as `task.progress` is. A handler that throws synchronously is a step
of its own (`HandlerThrows`) right after its invocation. When the transport throws for a retry, which `AHPTestBus.ts:385` does not await, the rejection is unhandled; that the process survives it is assumed.

### `LocalTransport`

A *link* is one run of the function behind `clientConnectPromise` with the socket it creates: `run` is where it stands, `client` and `served` the
`readyState` of its two ends. `promise`, `clientSocket` and `serverSocket` are the fields of those names, `at` the await each call is in, `joined`
the link whose promise it awaits, `shutting` whose "close" event a caller of `closeClientSocket()` awaits. A faulty envelope passes `Cut`, `Reconnect`, `Drop` and
`Deliver` in the order of `transmit()`, each or not, as fault rules may ask. `Quiet` holds when no continuation waits: Node.js runs them all before the next event of a socket or a
timer, so no socket event falls between the check of `ensureClientConnected()` and the write; only other calls do. `lost`, `disturbed` and `busied` are history.

Left out: `close()` while the server is still starting; `registerAgent()` and `injectEnvelope()`, which await the start and continue in the agent host;
connections that break by themselves, as the loopback interface has none; a server that accepts an upgrade whose client has given up meanwhile (`Accept` takes such a client to be refused).

## 3. Runs

Every passing run reports no deadlock except where the system may really stop: each `.cfg` with
`CHECK_DEADLOCK FALSE` belongs to a system that comes to rest when its calls are made and its bounds used up. Times are for two workers.

| Run | Instance | Distinct states | Checks |
|---|---|---|---|
| `RuntimeAcks` | a call of `sendWithAck`, whose packet has a timeout and may hang, and one of `sendToCapability`, whose promises settle, a packet and a task each; one role that comes and goes and may refuse the type; 2 attempts | 417,312 (70 s) | `OwnPromise`, `AnswerOfLastAttempt`, `Final`, `TimeoutBoundsCall`, `FulfilsContract` |
| `RuntimeTrace` | 1 packet, sent by `sendWithAck` and by `dispatch` at once, so with one task, and 1 malformed packet sent by `sendToCapability`; 2 attempts, no timeout; either store; with its trace | 1,920,930 (2 min) | `Ledger`, `DeadLettersKept`, `PendingIsWaiting`, `TraceIsAudit`, `InFlightIsVisible`, `TaskCompletions` |
| `SchedulerOps` | a one-shot and a recurring schedule of interval 2, clock to 6 | 156,467 (8 s) | `PendingIsOwed`, `NotEarly`, `KeepsInterval`, `KeepsScheduleContract`, `EventuallyDelivered` |
| `LoadBalancerOps` | 3 roles, 4 calls (symmetric), either strategy in each call | 205,768 (8 s) | `ActiveIsOpen`, `EvenTurns` |
| `StreamsOps` | 2 readers on one session, 1 on another; 2 invocations of each handler, 2 chunks and a close | 346,528 (60 s) | `NobodyWaitsInVain`, `ClosedOnce`, `ActiveIsTracked`, `IsChannel`, `SoleReaderFinishes` |
| `WsServerOps` | 2 connections, 1 subscriber of the process, a topic and a family of topics, 2 types; 3 insertions, 2 packets, nesting 2 | 490,022 (50 s) | `NothingLeftBehind`, `EveryStayerIsCalled`, `PublishReturns` |
| `HarnessOps` | 1 idempotent task, 1 retry, 1 context call, 1 extra copy, 1 restart | 1,408,072 (60 s) | `KeepsTaskContract`, `EndIsTold`, `HandlerOnce`, `BoundedAttempts`, `EventPerEnvelope`, `CancelStopsRetries`, `EveryTaskEnds` |
| `LocalTransportOps` | 1 envelope that fault rules may match, with 1 copy, 1 answer, 1 `disconnect()`, `close()`; 5 links | 198,285 (100 s) | `NoneForgotten`, `AnswersFindTheLink`, `LostOnlyWhenDisturbed`, `CallsReturn`, `CloseReturns` |
| `RemoteOps` | 1 posted packet with 2 attempts and 1 layer of middleware, 1 request of another kind, `close()` | 105,912 (8 s) | `RepliedOnce`, `ServerCloses` |

What the properties say:

* `OwnPromise`: a `sendWithAck` call whose task no other call uses finds its promise as long as it waits, has it rejected only
  if the call failed and resolved only if its own handler delivered, and is not left waiting after either. `PendingIsWaiting`:
  however calls share tasks, what is filed in `pendingAcks` has not settled. `Final`: nothing returned or settled changes, and no
  attempt starts after the return. `AnswerOfLastAttempt`: what a call returns is what the promise of its last attempt settled with, whatever earlier attempts, timed out, settle with later; without
  `timeoutMs` every earlier attempt threw. `Ledger` and `DeadLettersKept`: the books are exact. `TimeoutBoundsCall`: a hanging handler or middleware cannot keep a call with `timeoutMs`. `FulfilsContract`: the send path
  implements `SendContract` with its fairness, so every admitted call is answered or fails.
* `TraceIsAudit`: the trace has a row for everything `RuntimeStats` counts on the send path, retries included, and no row counts twice, whatever ids delivered results carry. One counter cannot be recounted
  from the trace: `packetsFailed` exceeds its rows by the calls of `sendToCapability()` that found no role (`runtime.ts:453` counts and records nothing). `InFlightIsVisible`: the calls of a packet that have not ended are
  its `handler.started` rows without a closing row, however often they retried. `TaskCompletions`: a task's `packet.completed` rows are its answered calls and its resolved
  promises, so a result nobody waits for leaves none.
* `PendingIsOwed`: `listPending()` is exactly what is still owed. `KeepsInterval`: a late timer or slow handler never
  brings two deliveries closer together than the interval. `KeepsScheduleContract`: the scheduler implements `ScheduleContract`, so a schedule that `cancel()` found is never delivered again.
* `ActiveIsOpen`: the count of a role is its open calls, through any unregistration. `EvenTurns`: while the registry stands still
  no candidate is two turns ahead; `share` begins anew with every change of the registry, across which turns really are uneven.
* `ClosedOnce`, `NobodyWaitsInVain`, `ActiveIsTracked`, `IsChannel` as in section 1; `SoleReaderFinishes`: the only reader of a
  stream reaches its end once a handler was invoked on it or its open failed.
* `EveryStayerIsCalled`, `PublishReturns`, `NothingLeftBehind` as in section 1.
* `KeepsTaskContract`: bus, host and network implement `TaskContract`: an agent is set to a task once at most, Maestro hears of work only after that, and of the end once and last. `EndIsTold`: exactly when the bus holds the task to be over.
  `EventPerEnvelope`: copies are silent between restarts (a restart empties `seenMessageIds`). `CancelStopsRetries`: except for a send under way
  when the task was cancelled, whose ack timer is armed afterwards and sends it again. `EveryTaskEnds`: by timers alone, unless the transport threw or the bus was restarted,
  both of which really leave tasks without a timer.
* `NoneForgotten`: `clientSocket` holds every open client socket, so something can still close it. `AnswersFindTheLink`: the close event of an old
  connection never clears the new one. `LostOnlyWhenDisturbed`: a call that returned as if it had sent has sent, unless another call closed the socket between its check and its write.
  `CallsReturn`, `CloseReturns`: nobody waits for a socket that will not tell, with calls that overlap `close()` excepted (`busied`), which may really hang.
* `RepliedOnce`: a reply over HTTP is the last attempt's, came up through every layer of it, each entered once, and no earlier attempt had a reply to give
  unless a timeout had given it up. `ServerCloses`: clients' timeouts let `close()` return beside a handler that hangs.

Each property of a passing run has a mutant that violates it under that run's own configuration.

**Bounds.** Two calls suffice for every race in `Runtime`, since calls meet only pairwise in `pendingAcks`, the statistics and the dead letter queue; two attempts give an old attempt
beside a new one; the theorems are for any number of calls and attempts. In `Scheduler` six ticks hold three periods of the recurring schedule and a late timer. Three roles are the fewest
for which an order differs from a rotation. In `Streams` two invocations are a retry, and two readers can both wait. Three insertions are the fewest in which a topic's
entries lie on both sides of another's. In `TestHarness` tasks share nothing but the bounds, so one task is checked deeply; the theorems are for any number.
In `LocalTransport` these calls open five links at most (with six allowed, TLC reaches the same states), so `MaxLinks` cuts nothing there. In `RemoteExchange` one layer and the core are the
fewest between which a reply can be passed on, and two attempts the fewest that overlap; the theorems are for any number of both.
Bounds that cut the program's own freedom are constants: `MaxTime`, `MaxRuns`, `MaxChunks`, `MaxSerial`, `MaxPublish`, `MaxDepth`, `MaxCalls`, `MaxCopies`, `MaxRestarts`, `MaxLinks`.
`MaxAttempts`, `MaxRetries`, `Layers` and `TimeoutMax` are parameters of the code.

**Fairness.** The event loop runs promise continuations and timers that are due: weak fairness of `Continue` (Runtime), `Tick`,
each `Fire`, `Finish` (Scheduler), the return of each send and each inactivity timer (TestHarness; reports of the agent set that timer anew, so its fairness is sound only because `MaxCalls` bounds them), the client's timer and events and the end of `close()` (RemoteExchange), and every call, socket and timer of
LocalTransport, whose own `Closing` may wait for ever while a client is connecting to a server that answers no more. Nobody has to call, roles need not stay, and handlers, middleware, agents and the network get
no fairness, with these exceptions, each needed for its property: `LiveSpec` of Runtime assumes that the attempts' promises of calls *without* `timeoutMs` settle (nothing else
ends them; handlers may still hang behind a layer that answers for them); Streams assumes that the send that opens a stream returns, that an invoked handler settles, and that a reader that has not left asks for the next chunk; WsServer assumes that subscribers,
which are called synchronously, return.

**Runs that disagree with the documentation** (`expect: violation`; details under `findings`):

* `RuntimeResultDoc`: two `sendWithAck` calls for one task; the first's handler delivers, the second hears of it, the first waits for ever.
* `SchedulerCancelDoc`: a handler cannot cancel its own recurring schedule: inside the callback the entry is not in the Map, and is put there afterwards.
* `SchedulerDateDoc`: a delay above 2^31-1 ms becomes 1 ms (here with `TimeoutMax = 3` in place of it).

Seen in the models without a run of their own: a `dispatch()` that the validator refuses leaves no dead letter (`core/runtime.ts:310` says errors are traced and dead-lettered); `sendToCapability()` without a candidate counts a failure that no trace row shows (`core/runtime.ts:453`); turns
counted by place under a key of sorted names become uneven when a role registers anew; a transport call that overlaps `LocalTransport.close()` may hang, or start a new
server after it; an envelope written after another call has closed the socket is lost without an error; a stream whose packet a plain role or a middleware answers has a reader that waits for ever; a second reader of a stream
never sees its end; `packet.acked` and `packet.nacked` follow `packet.completed` in a trace whose terminal event `AHP-SPEC.md:377` wants last, under
event names of its own (`AHP-SPEC.md:350`), which this runtime does not use; a handler that delivers a result and then fails gives a failed ack whose result resolves.

## 4. Proofs

All theorems hold for every value of the constants that satisfies the module's named assumption
(`RuntimeAssumption`, `PacketTraceAssumption`, `SchedulerAssumption`, `BalancerAssumption`, `StreamAssumption`, `EventBusAssumption`, `ServerAssumption`, `HarnessAssumption`,
`MiddlewareAssumption`, `RemoteAssumption`, `TransportAssumption`), which TLC evaluates in the runs. They ask of the
constants no more than their types, that the candidates of the load balancer are finitely many, and that different kinds of names differ; `DatesAreKept`, `IntervalsAreKept` and `ContractIsKept` of `SchedulerProofs`
also assume `NoOverflow`, which is what `SchedulerDateDoc` shows to be needed. Every safety property of every passing run is proved, in two cases with a condition (`LocalTransportProofs`, below).

* **`RuntimeProofs`.** `TypeOK` is not inductive: the number of attempts stays in range only because a call that sleeps has attempts left, and `OwnPromise` only because an entry
  of `pendingAcks` always points to a waiting promise of the right task. `IInv` adds `LoopInv` (how `pc`, `attempt`, `pipeline`, `result` and `outcome` hang together), `AttemptInv` (what the promise of the awaited attempt can be) and `AckInv` (who can have a promise
  at all). None of them says that a handler ends with its attempt. `Settles` and `Files` summarise the two ways the acknowledgement table changes, so that each invariant about it is shown once for each way and not once for each action. From `Invariance` follow
  `TypeCorrect`, `LastAttemptAnswers`, `NothingSettlesTwice`, `OwnTaskOwnPromise` and, as an action property, `AnswersAreFinal`: a call that has returned has no attempt to continue
  (`ReturnedStays`), and a promise that has settled is in no entry of `pendingAcks` (`SettledStays`). `LedgerIsExact` needs cardinalities: `Books` adds that the sets counted are
  finite, although `Sends` need not be, and `CountRetries` maps the retries of a call to an interval. `DeadLettersAreKept` counts the dead letters beside the calls that failed, for either store: `LettersStay` for the steps
  that add no failure, `LetterPushed` for the one that does. `SendPathKeepsContract` is the refinement: a step moves the `Stage` of the
  call that takes it or of none, and moves the statistics as `SendContract` says.
  The last part is about `PacketTrace`. `TraceKeepsSendPath` shows that `TraceSpec` implies `Spec`, so everything before holds with the trace. For `TraceAuditsStats`, `AboutAdds` and `RetriesAdd` show that
  counts over a table and the rows added to it add up (by a bijection that shifts places), and one lemma for each group of rows says what it counts; `AuditStep` then has one step for each traced action, and takes
  from the invariant of `Runtime` only that an attempt that settles has a number from 1 to `MaxAttempts`; `PacketTraceAssumption` asks only that some id exists. `CallsUnderWayAreVisible` and `CompletionsAddUp` count in the same way, by `PlacesAdd`: `Shows` says
  how many rows of a packet open, close and complete in a group, `FlightTally` and `TaskTally` compare these counts with the calls that have not ended, and with the answered calls and resolved promises of a task.
* **`SchedulerProofs`.** `Inv` adds to `PendingIsOwed` that the schedule whose callback runs has not been cancelled (so re-arming it does not revive
  a cancelled one) and that no timer is set before its entry's date. `Spacing` says the same of the interval after the last delivery, for `IntervalsAreKept`.
* **`LoadBalancerProofs`.** `LoadIsOpenCalls` needs that an open call has a role and that the open calls are finitely many, though `Calls` need not be. `TurnsAreEven` is about a counter modulo the number of
  candidates that may start anywhere: `Rotation` says that the turns since the registry last changed form one arc of the rotation, those inside it one turn ahead of the others, and `TurnTaken` that a turn makes the
  arc longer by one, or begins the next round. That the least-loaded candidate exists is an argument by well-founded order (`LeastLoadedExists`).
* **`StreamsProofs`.** `IInv` is the conjunction of the three invariants: they need one another, since a chunk may be handed over only when the queue is empty, and the queue is empty whenever somebody waits.
  `EnqueueKeeps`, `CloseKeeps` and `DequeueKeeps` carry the argument for the session's three operations; every action of the runtime is one of them or
  leaves the session alone. `SessionIsChannel` is the refinement, by the same three.
* **`TestHarnessProofs`.** `IInv` adds that every event from an envelope since the last restart is in `seen`, that a task never sent has no timer, and that
  the ack timer never runs beside a send. `EmitKeepsEvents` is the argument for all six places that tell Maestro something: the task is not over, and the envelope is new.
* **`WsServerProofs`.** Serial numbers are unique and increase (`Numbered`), so whoever was subscribed when a `publish` began and stayed is called or still ahead of its loops (`StayersAhead`), in every frame of the
  call stack. `Remembered` relates the subscriptions of a connection on the bus to its Map, one for a topic.
* **`RemoteExchangeProofs`.** `EnteredInv`: the steps a dispatch has entered are those up to its `index`, each once. `StepsOnce` and `ThroughEveryLayer` follow (theorem `LayersInOrder`, for any middleware), and with them
  `RepliesAreEarned`: what `AttemptInv` adds is that the attempts before the last have failed or were given up.
* **`LocalTransportProofs`.** `LinkInv` has four parts that need one another: one link at a time is being opened and somebody awaits it (`OneLink`), where its sockets can be meanwhile (`Sockets`),
  that the server's end follows the client's (`Servers`), and what a call about to write may rely on (`Losses`). All of it may fail when a call overlaps `close()`, so the theorems
  `AnswersArrive` and `LossesAreDisturbed` say `busied \/ ...`; TLC finds their properties without that condition in the instance of `LocalTransportOps`.

**Refinements.** Besides `SendPathKeepsContract` and `SessionIsChannel`, `ContractIsKept` of `SchedulerProofs` and of `TestHarnessProofs` show that scheduler and harness implement their contracts.
For the harness a task's stage is read off `attempts` and `terminal`, the work begun off the host's `runtimes`; besides the invariant of the events this needs `SourceInv`, that everything about a task (timers, runtimes, envelopes to the host) exists only once Maestro has sent it, and `FlightInv`, that an envelope
to the bus other than a failure comes from a host that has set the agent to work. For the scheduler a recurring schedule whose callback is running still counts as waiting, although the Map does not hold it. `WatchedInv`, for `TasksEnd` below, says that a task that is not over is being sent or has its inactivity timer set.

**Liveness.** The prover can neither expand ENABLED, and so not use `WF_`, nor carry an induction over temporal formulas. The liveness theorems replace both:

* Instead of `WF_vars(A)` a specification `ServedSpec` says `[]<>~G \/ []<><<A>>_vars`, where `G` is written out of the guards of `A` and holds only where `A` can change the state; so weak fairness implies it. Only
  `Served` of `SchedulerProofs` asks for more: a timer that is ready again and again fires (strong fairness), because other timers' callbacks may come in between. The event loop does so, as it serves due timers in the order of their dates.
* Where an argument needs that a number which never falls and has a bound comes to rest (`AttemptsRunOut`, `ClimbEnds`), that one which never grows does (`QueueRunsOut`, `DescentEnds`), or that finitely many things which each
  become so for good become so together (`AllAtOnce`), that sentence stands as a hypothesis of the theorem. Each is true of every behaviour, whatever the code does.

With these, `TimeoutsBound` shows `TimeoutBoundsCall`, and `AdmittedCallsEnd` the liveness half of `FulfilsContract`: every admitted call is answered or fails. A call runs through the finitely many places of the retry loop for each attempt, and its attempts
run out. `Deliveries` shows `EventuallyDelivered`. `ReadersFinish` shows `SoleReaderFinishes`: `WorkInv` says that a session with a handler at work has been entered and its chunks are still to come, `SoleInv` that the only reader of a session has taken all that
left its queue; a session that has ended gets no more chunks, so its queue runs out and the reader comes to the closing one. `PublishesReturn` shows `PublishReturns`: subscriptions and publications are bounded (`MaxSerial`, `MaxPublish`), so from some time on the bus is quiet,
and `QuietBusReturns`, which needs no bound, says that then every frame of the call stack works off its `Ahead` and is popped. `TasksEnd` shows `EveryTaskEnds`: a send comes back with a timer set, and each timer is served, whether it ends the task or sends it again.
`RequestsSettle` and `CloseEnds` show that the client's timers settle every request and let `close()` of the HTTP server return. `CloseDone` shows `CloseReturns` of `LocalTransport`: when a `close()` is alone (`Alone`), no link is being opened (`NothingOpens`) and no client socket is open (`NoneOpen`), so
every link has only its closing steps left (`LinksSettle`), and then so has `close()`.

Only model-checked: `CallsReturn` of `LocalTransport`, and `FulfilsContract` with the weak fairness of `SendContract` as it stands there, which is ENABLED of the abstract actions. No module declares a RECURSIVE operator.

## 5. Not modelled

* *Data and wiring.* Packet creation, ids, validation of single fields, authentication, JSON, and the facade, configuration and trace log of the harness.
* *Reading only.* The queries over the trace and the dead letters, and the CLI that prints them.
* *No state beyond a component that is modelled.* The client SDK, which builds a packet and calls the runtime; `publish()` and `ping()` of the runtime, which call the event bus and the router.
* *Trusted.* The SQLite files: a statement that fails, and a clock set back, after which SQLite would list rows in another order.
* *Tests of their own.* Examples and the Orca proof of concept use the library.

## 6. Plan

1. *Done:* all components of section 1 that keep state; `SendContract`, `StreamChannel`, `ScheduleContract` and `TaskContract` with their refinements; the proofs of every safety property that the runs check and of every liveness property but one.
2. *Next, models:* the harness's handshake (two `connect()` calls at once, an answer after its timeout), agent status and envelope sequence numbers;
   `TestHarness` on `LocalTransport` in place of its open network; a composition of `Scheduler`, or of `LoadBalancer`, with `Runtime` in place of the open interval.
3. *Next, proofs:* `CallsReturn` of `LocalTransport`; that `WsServer` implements `EventBus` for any connections, and that the attempts of `RemoteExchange` take steps of `Middleware`.
