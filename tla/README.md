# TLA+ models of mosfet-rs (OpAMP client)

This directory holds TLA+ models of the OpAMP client library in `src/src/`,
the TLC configurations that model-check them, and TLAPS proofs of their main
safety properties.

## 1. The system

`Api` (`api.rs`) wraps one `Channel` (`opamp.rs`): an `HttpClient`
(`httpclient/mod.rs`) or a `WsClient` (`wsclient/mod.rs`), chosen by the URL
scheme. The embedder calls `Api::poll` in its run loop. Each call runs
`Channel::trigger` once, and `trigger` runs `State::evaluate` (`state.rs`).
`evaluate` calls the transport operation of the current state and moves to
the state the operation's `StateResponse` selects:

| state        | operation   | Reply     | None      | Error        | Err          |
|--------------|-------------|-----------|-----------|--------------|--------------|
| Disconnected | (none)      | Connecting| Connecting| Connecting   | Connecting   |
| Connecting   | connect     | Connected | Connected | Disconnected | Disconnected |
| Connected    | handshake   | Sending   | Polling   | Disconnected | Disconnected |
| Polling      | poll        | Sending   | Polling   | Disconnected | Connecting   |
| Sending      | send        | Waiting   | Polling   | Polling      | Connecting   |
| Waiting      | wait        | Polling   | Waiting   | Polling      | Connecting   |

A transport instance holds this state:
- `state`, `backoff` and `seqno`;
- `last_sent_timestamp`;
- `agent_state`: the stored `AgentToServer`, built on first use by
  `get_status` from the callbacks `get_configuration` and `get_features`;
- an `inbox` of server answers and an `outbox` of messages to send.

The user callbacks (`ApiCallbacks`, `api.rs`) are invoked from `poll`. Each
may return a reply, and a reply is enqueued.

### Inventory

**HTTP transport.**
- `connect` sends a HEAD request.
  - Any status but 404 gives Reply. A 404 gives Error.
  - A transport error bumps `backoff`, which is never reset. It then sleeps
    2^backoff seconds and gives Error.
  - Once `backoff` exceeds `OPAMP_CONNECT_RETRIES`, a transport error gives Err.
- `handshake` pushes `get_status` onto the outbox.
- `poll` starts with a health check. `get_health` unwraps `agent_state`; an
  unhealthy state is set healthy and a health report is enqueued. Then, in
  this order:
  1. A non-empty outbox gives Reply.
  2. 30 s after the last POST, a heartbeat is enqueued and poll gives Reply.
  3. An empty inbox gives None.
  4. Otherwise `inbox.pop()` takes the **last** answer and dispatches it.
     The dispatcher handles, in order: command, error, ReportFullState (our
     own uid enqueues `get_status`; another uid calls `on_health_check`),
     remote_config, the three connection offers and packages. Then
     `on_loop` runs.
     This is the order spec §4.5 prescribes. A message with both a command
     and ReportFullState therefore gets the command's reply out first; that
     conflicts with spec §8 (the immediately following outbound message is
     the full payload),
     but the code follows §4.5, so no run treats it as a divergence.
- `send` takes the whole outbox. Each message goes through
  `send_and_receive`, which does three things:
  - It pre-increments `seqno` and stamps `last_sent_timestamp`.
  - It copies the capabilities from `agent_state`.
  - It POSTs the message and pushes the answer onto the inbox.

  On the first failure, `send` returns Error.
- `wait` returns Reply at once.

**Websocket transport.** The structure is the same, with these differences:
- `connect` opens a stream. On failure it returns None.
- `handshake` and `connect` call `set_health(false)`.
- `poll` blocks on `receive`.
- `send` calls `flush`, which panics on a send error.

**Not stateful.** These parts have no behaviour over time:
- the settings and error types;
- the `opamp::defaults` data;
- `extras/` (a process launcher and a YAML config loader);
- `build.rs` (protobuf generation).

### What is hard here

The hard parts are orderings and partial failures across several `poll`
calls. All of them are listed as hazards in PROJECT.json:

- **Ordering.** Answers from several POSTs pile up in the inbox, and a LIFO
  pop reorders them.
- **Partial failure.** One POST of a batch fails, and its successors are lost.
  A timed-out POST may have reached the server anyway, and the sequence
  numbers must still increase.
- **Protocol sequence.** `get_health` unwraps `agent_state`, and the handshake
  must have built it first.
- **Stale state.** The stored state is used to stamp capabilities, so it must
  not be rebuilt.
- **Liveness.** The heartbeat must eventually be POSTed once it is due.
- **Numeric edges.** `backoff` is never reset, and `2^backoff` can overflow.
- **Websocket failures.** A failed connect leads to Connected without a
  stream, and then a panic. A closed stream is never noticed. A write that
  fails in the middle of a batch panics after part of it reached the server.
- **Blocking.** The websocket `poll` blocks in `receive` when the outbox is
  empty, so `Api::poll` need not return.

## 2. Modules

| module | models | notes |
|---|---|---|
| `OpampState` | `state.rs` | `Transition` is the table above; `Evaluate(s, r)` looks it up. |
| `OpampAgent` | what both transports share: `get_status`, `get_health`, the dispatcher of `poll`, the callbacks, the stamping in `send_and_receive`/`flush` | constants, the shared variables, the properties `SeqIncreasing`, `CapsStable`, `HealthyAfterReport` and `BackoffOnlyBeforeSession`, and the refinement mapping to `OutboundChannel` |
| `OutboundChannel` | spec §3 and §8: what a channel promises the server | abstract specification (no code) |
| `HttpClient` | `httpclient/mod.rs`, `Api::poll` | one `Tick` is one `Api::poll` |
| `WsClient` | `wsclient/mod.rs` | the stream, the server's frames and its close, panics |
| `MC_HttpClient`, `MC_WsClient` | constants for TLC | two feature values, three server answers |
| `OpampAgentProofs` | TLAPS lemmas | lemmas about the shared operators, the session invariants `PreSession` and `HealthPending`, and the refinement steps |
| `HttpClientProofs` | TLAPS | type correctness, the safety invariants, `HealthyAfterReport`, `BackoffOnlyBeforeSession` |
| `HttpClientRefinement` | TLAPS | `HttpClient` implements `OutboundChannel` |
| `WsClientProofs` | TLAPS | type correctness, the safety invariants (`SeqConsecutive` and `HealthyAfterReport` included), `BackoffOnlyBeforeSession`, the refinement |

`HttpClient` and `WsClient` both EXTEND `OpampAgent`. The variables
`state`, `backoff`, `seqno`, `agentState`, `outbox` and `wire` are declared
once there, so the properties and the mapping are stated once for both.

### How HttpClient corresponds to the code

**Variables.** `state`, `backoff`, `seqno`, `agentState`, `inbox` and
`outbox` are the fields of the same names.
- `agentState` is abstracted to the capabilities and the `healthy` flag. The
  constant `NoState` stands for `None`.
- Each `inbox` entry records the sequence number it answers.
- `heartbeatDue` abstracts the clock comparison at line 343.
- `wire` is the sequence of messages the server has received, each with
  its kind, sequence number and capabilities.

**Actions.** Each action models a whole operation together with its arm of
`evaluate`:
- `Reconnect`, `Connect`, `Handshake`, `Send` and `Wait` model the operation
  of the same name.
- `Poll` is the health check followed by one of `PollFlush`,
  `PollHeartbeat`, `PollIdle` or `PollDispatch`. `PollDispatch` pops the
  *last* inbox entry. `Dispatch(m)` is the sequence of callback blocks,
  composed with `Then`.
- The three callback-result outcomes all reduce to "a reply or none"
  (`Answer`).
- `Send` chooses how many POSTs succeed. For the first failing POST it also
  chooses whether the server received it (`reached`), which covers a timeout
  or a body-read error after delivery. The rest of the batch is dropped.

**Environment.** The server and the network are folded into `Send`, and the
server's answers are drawn from `ServerMsgs`. `TimePasses` makes a heartbeat
due.

### How WsClient corresponds to the code

**Variables.** The shared ones as above, plus:
- `stream`: `self.stream`. It is `"None"` before the first successful
  connect, `"Open"`, or `"Closed"` once the server or the network closed
  it. The handle stays `Some`, reads return `None` and writes fail.
- `downlink`: frames the server wrote and the client has not read. Each
  frame is a decodable `ServerToAgent` or anything else (text, ping, bad
  bytes).
- `panicked`: an `unwrap`/`expect` failed and the process aborted.

**Actions.**
- `Connect` opens a stream (`Open`, Reply) or fails. On failure the old
  stream is kept, `backoff` grows and the operation returns None, which
  `evaluate` maps to Connected (Err once `backoff` exceeds the retries). Both arms call `set_health(false)` (`SetHealth`).
- `Handshake` calls `set_health(false)` and enqueues the status (Reply, so
  `send` flushes it next).
- `Poll` is the health check, then `PollFlush` (outbox non-empty),
  `PollReceive` (a frame is read and dispatched) or `PollClosed` (the
  stream is closed, `receive` returns None). With an open stream and no
  frame, `receive` blocks, so there is no step.
- `Flush` stamps and writes each message. A write to a closed stream fails
  and `expect` panics after the first `n` messages reached the server. With
  no stream, `to_sink`'s unwrap panics.
- `Aborted` is the stopped process: after a panic, nothing changes.

**Environment.** `ServerPush` writes a frame, at most `MaxFrames` unread.
`ServerClose` closes the stream and drops the unread frames.

**Fairness.** Both specs assume `WF_vars(Tick)`. The embedder calls
`Api::poll` in a loop, and lib.rs says it must be called at least every
30 s. The clock, the server and the network get no fairness. A websocket
server may never write.

### The abstract channel and the refinement

`OutboundChannel` states what the server sees (spec §3, §8):
- `received` is the sequence of messages (sequence number, capabilities).
- `caps` is the capabilities the agent announced.
- `Choose` fixes the capabilities once.
- `Deliver` appends one or more messages. Each carries `caps`, and each is
  numbered above all earlier ones.

The mapping, in `OpampAgent`:
- `received <- Received(wire)`: the wire without the kinds.
- `caps <- StoredCaps`: the stored capabilities, or 0 before the state is
  built.

`ImplementsChannel == Channel!Spec`. The handshake (HTTP) or first connect
(WS) that builds `agent_state` is the one `Choose`. A send or flush that puts
at least one message on the wire is a `Deliver`. Every other step is a
stutter.

## 3. Runs

| run | cfg | expect | what it shows |
|---|---|---|---|
| `http_safety` | `MC_HttpClient.cfg` | pass | `AgentStateReady`, `SeqIncreasing`, `CapsStable`, `HealthyAfterReport`, `HeartbeatSent` and `BackoffOnlyBeforeSession` hold under connect failures, retry exhaustion, POST failures (delivered or not), every dispatcher path and callback replies. |
| `http_channel` | `MC_HttpClient_Channel.cfg` | pass | `HttpClient` implements `OutboundChannel`. |
| `http_inbox_fifo` | `MC_HttpClient_InboxFifo.cfg` | violation | `poll` dispatches the newest answer, not the oldest (spec §3). |
| `http_send_drops` | `MC_HttpClient_SendAttemptsAll.cfg` | violation | After a failed POST, the rest of the batch is never sent (spec §4.2). |
| `http_on_loop` | `MC_HttpClient_OnLoopInvoked.cfg` | violation | A poll with an empty inbox returns None without calling `on_loop` (spec §4.3 step 4). |
| `ws_safety` | `MC_WsClient.cfg` | pass | `PollHasStream`, `SeqConsecutive`, `CapsStable`, `HealthyAfterReport`, `HealthReported` and `BackoffOnlyBeforeSession` hold under connect failures, server closes, mid-batch write failures and panics. |
| `ws_channel` | `MC_WsClient_Channel.cfg` | pass | `WsClient` implements `OutboundChannel`. |
| `ws_no_abort` | `MC_WsClient_NoAbort.cfg` | violation | A transport failure aborts the process (spec §7 says I/O errors degrade). TLC prints one of two equally short traces: a failed first connect leaves no stream, and `to_sink`'s unwrap panics on the handshake's write; or the socket drops and `flush`'s `expect` panics. |
| `ws_connect_failure` | `MC_WsClient_ConnectFailureRetried.cfg` | violation | A failed connect answers None, which leads to Connected, not a retry (spec §4.2). |
| `ws_closed_reconnects` | `MC_WsClient_ClosedReconnects.cfg` | violation | A closed stream is never replaced: poll reads None forever (spec §4.4, §7). |
| `ws_poll_returns` | `MC_WsClient_PollReturns.cfg` | violation | With an empty outbox and an open, silent stream, `poll` blocks in `receive` (lib.rs: poll returns). |

The findings in PROJECT.json give the source line of each violation.

**Bounds.** The runs use these constants:
- `ConnectRetries = 1`: one retry, then exhaustion.
- `MaxSeq` is 3 for HTTP and 4 for WS. Callbacks, server requests and the
  clock stop producing new messages once that many have been numbered.
- `MaxFrames = 2`: two unread frames, so a frame can arrive while another
  is pending.
- `Features = {1, 2}`: a rebuilt state could pick different capabilities.
- `ServerMsgs`: three answers.
  - `Quiet`.
  - A command together with a ReportFullState for our own uid.
  - An answer with every other field set: error, ReportFullState for another
    uid, remote config, one offer and packages.

These reach the following:
- batches of two and three messages;
- a failure in the middle of a batch;
- two answers waiting in the inbox (needed for the LIFO finding);
- a full state requested while a health report is pending.

State counts:
- `http_safety` has about 350k distinct states and runs in under a minute.
  `MaxSeq = 4` also passes, with 4.3M states.
- `ws_safety` has 69k distinct states.

**Mutants.** Each property of a passing run is broken by a plausible bug:
- `TransitionSkipHandshake`: Connecting goes straight to Polling. This
  breaks `AgentStateReady`.
- `StampBatch`: one sequence number per batch. This breaks `SeqIncreasing`
  (HTTP) and `ImplementsChannel` (HTTP).
- `GetStatusAlways`: the state is rebuilt on every call. This breaks
  `CapsStable` (both transports) and `ImplementsChannel` (WS).
- `WaitForInbound`: `wait` blocks as the websocket one does. This breaks
  `HeartbeatSent`.
- `TransitionSendErrorReconnects`: a Sending Error goes back to Connecting.
  This breaks `BackoffOnlyBeforeSession`.
- `FlushSkipsMissing`: `to_sink` skips a missing stream instead of
  panicking. This breaks `PollHasStream`.
- `PollFlushAfterReceive`: the outbox is tested after the blocking
  receive. This breaks `HealthReported`.
- `HealthCheckedNoStore`: `poll` reports health but does not call
  `set_health(true)`. This breaks `HealthyAfterReport` (both transports).
- `PollClosedErr`: a closed websocket is answered with Err, so the client
  reconnects, with the `backoff` of the first session. This breaks
  `BackoffOnlyBeforeSession` (WS). It also breaks `HealthyAfterReport`,
  because connect calls `set_health(false)` after a report.
- `StampPostIncrement`: `seqno` is post-incremented, so the first frame
  carries 0. This breaks `SeqConsecutive`.

## 4. Proofs (TLAPS)

All results hold for every value of the constants that satisfies
`AgentAssumption` (in `OpampAgent`) and, for WS, `WsAssumption`:
- `Features` is a non-empty set of positive naturals.
- The server answers include `Quiet`.
- `NoState` is not a record.
- `ConnectRetries` and `MaxSeq` are naturals.
- `MaxFrames` is a positive natural.

**HTTP (`HttpClientProofs`, `HttpClientRefinement`).**
- `TypeCorrect`: `Spec => []TypeOK`, from `TypeStep` with one step per action.
- `InvariantHolds`: `Spec => []IInv`, where `IInv` is the conjunction of
  `TypeOK`, `AgentStateReady`, `SeqIncreasing`, `SeqBounded` and `CapsStable`.
  - `SeqIncreasing` is not inductive alone. A send appends messages numbered
    `seqno + 1 ..`, so the invariant also needs `SeqBounded`: every number on
    the wire is at most `seqno`.
  - `CapsStable` needs `AgentStateReady`, because a send stamps the stored
    capabilities. It also needs the fact that once the state is built it is
    never rebuilt (`GetStatusKeeps`, `HealthCheckedKeeps`, `PollKeeps`).
  - TLC checked `IInv` as an invariant of the `http_safety` instance before
    the proof was written.
- `SeqIncreasingHolds`, `CapsStableHolds` and `AgentStateReadyHolds` are
  corollaries.
- `BackoffOnlyBeforeSessionHolds`. The inductive invariant `PreSession`
  says that a state with something on the wire is one of Polling, Sending
  or Waiting. `EvaluateSessionArms` shows that no arm the client takes from
  those states returns to Connecting or Disconnected. So `backoff`, which
  only `connect` changes, never changes once a message was sent. The
  missing reset of spec §9 is therefore unreachable.
- `HealthyAfterReportHolds` (spec §8): while a health report waits in the
  outbox, and after it reached the server, the stored state is healthy.
  The inductive invariant `HealthInv` is `TypeOK`, `PreSession`,
  `HealthPending` and `HealthyAfterReport`. `HealthPending` says a pending
  report only waits in Polling or Sending. Together with `PreSession`, it
  shows that the handshake, the only step that stores a state besides
  `poll`, runs when no report is pending or sent. `PollHealthy` shows that
  every poll stores a healthy state.
- `RefinesChannel`: `Spec => ImplementsChannel`. `StepRefines` maps each
  action to a step of `OutboundChannel`, using `IInv` before and after the
  step.

**WS (`WsClientProofs`).**
- `TypeCorrect` and `InvariantHolds`: `IInv` is `TypeOK`, `AgentBuilt`,
  `StreamReady`, `SeqIncreasing`, `SeqBounded` and `CapsStable`.
  - `AgentBuilt`: Connected and every later state have a stored state,
    because connect stores `set_health(false)`.
  - `StreamReady`: Polling and Waiting have a stream. The only way to
    Connected without a stream is a failed first connect. The `send` after
    the handshake then panics in `flush`, and the process stops before
    Polling.
  - Both were checked by TLC on the `ws_safety` instance.
- `PollHasStreamHolds`, `SeqIncreasingHolds` and `CapsStableHolds` are
  corollaries. `SeqIncreasingHolds` is kept because `IInv` needs it; the
  `ws_safety` run checks the stronger `SeqConsecutive` instead. It holds
  even when a write in the middle of a
  batch fails (`FlushAppends`: the wire grows by a prefix of the stamped
  batch).
- `RefinesChannel`: the same mapping and argument as HTTP.
- `BackoffOnlyBeforeSessionHolds`: the same argument as HTTP, with its own
  `PreSessionStep`. A panic leaves the state where it is, so it never
  reaches Connecting either.
- `HealthyAfterReportHolds`: the same invariant `HealthInv`. Here connect
  and handshake both call `set_health(false)`, and `PreSession` with
  `HealthPending` shows that no report is pending or sent when they run.
  A frame with ReportFullState for us only calls `set_health(true)`
  (`SetHealthValue`).
- `SeqConsecutiveHolds`: the server receives 1, 2, 3, ... with no gap. The
  inductive invariant `ConsInv` adds that `seqno` equals the number of
  frames written while the process runs. A failed write takes a number,
  but it panics, so nothing is written after it. This is not true of the
  HTTP client: TLC shows that when the handshake POST is lost, the server's
  first message is a health report numbered 2. Such a gap is how an OpAMP
  server learns that a message was lost.

**Shared lemmas (`OpampAgentProofs`).** Type and keep lemmas for
`GetStatus`, `HealthChecked`, `Dispatch`, `Then`, `Answer` and `Evaluate`.
Also:
- `ConcatIncreasing`, `ConcatCaps`, `PostedFacts` and `AppendWire`: what
  appending a stamped prefix does to the wire.
- `ConcatConsecutive`: appending a stamped batch to a gapless wire keeps it
  gapless.
- `PreSession`, `HealthPending`, `HealthCheckedHealthy` and `HealthPosted`
  (a health report on the wire after a send came from the wire or the
  outbox): shared by the two health proofs.
- `StoreStep`, `AppendStep` and `MappingKept`: the three kinds of
  refinement step, shared by both transports.

**Only model-checked.** These stay with TLC:
- `HeartbeatSent` and `HealthReported` are liveness properties.
- The violated `ClosedReconnects` is also a liveness property.
- `PollReturns` and `OnLoopInvoked` use ENABLED.
- The violated properties (`InboxFifo`, `SendAttemptsAll`, `NoAbort`,
  `ConnectFailureRetried`) are false of the code, so
  there is nothing to prove. TLC's counterexamples are the result.

Every safety invariant and action property that a passing run checks is
also proved for every value of the constants. The exceptions are the
liveness properties above.

## 5. Not modelled

- `extras/` (process launcher, YAML config loader): I/O with no protocol
  state.
- `build.rs` and the generated protobuf types: the messages are abstracted
  to records of the fields the dispatcher reads.
- gzip, encode and decode: a frame either decodes or does not.
- `Api::new`'s choice of transport by URL scheme: each transport is its
  own spec.
- Callback panics.
- Two `Api` instances: they share nothing.

## 6. Plan for later work

1. A composed model of `Api` over a reconnecting transport, for when the
   code gains a reconnect path. Today neither transport returns to
   Connecting after a session, as `BackoffOnlyBeforeSessionHolds` shows.
2. An abstract spec of the inbound side (server answers dispatched in
   order), which `HttpClient` would fail to implement (the LIFO pop).
3. The 64-bit overflow of `2^backoff` with a larger `ConnectRetries`.
