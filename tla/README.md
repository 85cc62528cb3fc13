# A TLA+ development of the CodexHub Gateway

CodexHub is a desktop application (Tauri, Rust, under `src-tauri/`) that runs a
local HTTP **Gateway** (Python, under `src-python/`) between the Codex clients
and the model providers they are routed to. The Gateway is a threaded HTTP
server: one thread per inbound request, one more per upstream stream, watcher
threads, a telemetry thread, and a main thread that waits for a shutdown. The
desktop application, its command line and the Codex helper processes start, stop
and inspect the Gateway from separate processes.

The modules here model the concurrent core of that system. TLC checks them on
small instances; TLAPS proves the most important safety properties for every
value of the constants. `PROJECT.json` lists the components, the runs, the
correspondence of every definition with the source, the hazards, the
disagreements found and the theorems.

## 1. Inventory

Paths are relative to `src/`.

| Component | State | Operations | What makes it hard |
|---|---|---|---|
| **Request admission and shutdown** `src-python/gateway_admission.py`, `codex_proxy.py` | admission flag, shutdown deadline, set of active admissions, drained event; per admission a cancel event, the attached transport, listeners | `admit`, `complete`, `close_admission`, `cancel`, `attach_upstream_transport`, `add_cancel_listener`, `wait_for_active_requests`, `run_server` | three kinds of threads touch one admission; work continues after the lock is released |
| **Inbound POST handler** `gateway_handler_impl.py`, `gateway_error_dispatch.py`, `gateway_exchange.py`, `gateway_exchange_adapters.py` | locals of one request | read body, route, open, relay, retry, dispatch errors, complete | every failure may be a disguised cancellation |
| **Upstream open and retry** `gateway_transport.py`, `gateway_exchange.py` | open-attempt budget, pre-response deadline, what was written upstream | `_open_upstream_response`, `execute_exchange` | retries at two levels share a budget; a retry may repeat a generation |
| **Upstream SSE reader** `gateway_transport.py`, `gateway_relay.py` | bounded queue, closed flag, reader thread, idle clock | `start`, `get`, `readline`, `close`, `join`, `iter_upstream_sse_lines` | three threads close one response; queue at capacity; silent upstream |
| **Downstream relay, stream commit** `gateway_relay*.py`, `gateway_stream_semantics.py`, `gateway_sse.py`, `gateway_error_dispatch.py` | committed bytes, headers, terminal flag | relay events, convert, synthesize terminal events, dispatch errors | one well-formed stream whatever is retried or fails |
| **Protocol translation** `protocol_translation.py`, tool adapters | items under construction, output indices, arguments | `events_for_chunk`, `events_for_done`, `chunks_for_event`, and the buffered `chat_stream_chunks_to_response_events` | pieces in any order; the same function written twice |
| **Bounded event writer** `bounded_event_writer.py` | limits, counters, queue, batch, held record, rotation fence, recovery summary | `enqueue`, `flush`, `rotate`, `shutdown`, the listener thread | check-serialize-recheck, failing sink, fences, timeouts |
| **ChatGPT-web turns, collaboration slots** `chatgpt_web_route.py`, `chatgpt_web_collab.py` | permits of tool calls, claims, recorded answers, slots, process generation, epochs | begin, claim, submit, observe, settle, abort, revoke | a result must reach the runtime once, although requests repeat, fail and are cancelled |
| **Lifecycle transaction gate** `src-tauri/src/gateway_transaction.rs` | OS file lock, `.phase` sidecar | `acquire`, `inspect_for_status`, two `Drop`s | several processes, crashes, two files that cannot change together |
| **Lifecycle coordinator, process supervision** `gateway_lifecycle.rs`, `proxy.rs`, `autostart.rs` | published phase, session identity, PID record, child | start, stop, restart, close, status | identity read before a wait and used after it; PID reuse; crash between spawn and record |
| **File transactions** `file_transaction.rs`, `safe_file.rs`, `atomic_io.py` | files, snapshots, lock files | lock, atomic replace, check-then-create, snapshot, restore | two languages, one lock protocol; crashes, unlinked lock files, partial failure |
| **Official refresh** `official_refresh.rs`, `codex_desktop.rs`, `config.rs` | catalog, managed configuration, refresh state with its fence, switch lock | startup, manual and scheduled refresh; save of settings | three files and one fence; Codex Desktop starts at any time |
| **Routing owner** `routing_owner.rs` | ownership record | claim, release | several processes |
| **HTTP connection pool** `gateway_http_pool.py` | idle and leased connections | acquire, release, evict | three ways to release |
| **Diagnostics** `diagnostic_control.py`, `diagnostic_recorder.py`, `diagnostics.rs` | control files | request, claim, acknowledge | claim by rename across processes |
| Routing and catalogs, ChatGPT-web runtime, credentials, history overlay, usage and updates, desktop shell | documents, tokens, windows | conversion, refresh | mostly data |

How they interact: a handler thread *admits* itself, opens an upstream response
and *attaches* it to its admission; the SSE reader that takes the response over
replaces it as the attached transport. A `POST /shutdown` handler, or a
watcher that sees its client gone, *cancels* the admission, which closes the
transport and runs the listeners. Every handler reports telemetry through the
event writer, which `run_server` shuts down last. `/shutdown` is sent by the
desktop application inside a stop or restart *transaction*, which holds the
lifecycle gate; status reads look through the gate. What a relay writes goes
through one `DownstreamStreamCommit` per request, which retries, converters and the
error dispatcher share. A request for ChatGPT-web claims the permits of the
results it carries before the open and settles them when it ends. Every process
that writes configuration takes the file locks; the refresh also takes the switch
lock that keeps it apart from Codex Desktop.

What makes each modelled component correct:

- *admission*: nothing falls between a cancel and an attach; a shutdown misses no
  active request; "drained" is final; the Gateway's own close is not blamed on
  the upstream; a shutdown drains and the process ends;
- *SSE reader*: lines in order, none invented, the response closed exactly once,
  no thread or connection left behind, cancellation noticed without a line;
- *event writer*: limits and counters exact, order kept, no loss unreported,
  rotation exclusive, every accepted record processed;
- *gate*: transactions exclude each other and snapshots; the phase reported is
  the phase of the transaction that runs; every inspection ends;
- *lifecycle*: an identity always names the Gateway it was taken from, a stop that
  reports success left nothing running, there are not two Gateways, and nobody kills
  or forgets a live Gateway that it does not own (with the two exceptions of section 4);
- *exchange*: one well-formed stream, the client told how it ended, the upstream
  released, nothing replayed that may have been served, every request ends;
- *translation*: the event grammar holds, both implementations agree but for a
  list of known differences, and an answer survives translation there and back;
- *web turns*: a tool result is not sent again once its answer began, nothing stays
  claimed by an exchange that has ended, a revoked permit stays revoked;
- *files*: one owner, no check-then-write race, nothing left behind, every call
  returns;
- *official refresh*: readers trust no mixture of snapshots, a rollback never
  undoes a user's setting, a needed restart is disclosed, the refresh recovers.

Where the code is known to fall short of this, the property does not look away: it
names the step or the case in which it does, and states that there is no other.
Section 4 lists these cases with their lines.

## 2. Modules

| Module | Models | Proofs | Run by |
|---|---|---|---|
| `GatewayAdmission` | `gateway_admission.py` with its callers | `GatewayAdmission_proofs` | `MCGatewayAdmission` |
| `SseReader` | `UpstreamSseReaderLifecycle` and `iter_upstream_sse_lines` | `StreamQueues_proofs` | `MCSseReader` |
| `GatewayExchange` | open, retry, relay, commit and error dispatch of one request | `GatewayExchange_proofs` | `MCGatewayExchange` |
| `StreamCommit` | abstract: what a client is sent, with the two known breaks of that promise as steps; implemented by `GatewayExchange` | `GatewayExchange_proofs` | `MCGatewayExchange` |
| `ChatToResponses`, `ResponsesToChat` | the two stream converters of `protocol_translation.py`, the first with its relay and the ledger of `tool_compatibility/stream.py` | `StreamTranslation_proofs` | `MCStreamTranslation` |
| `StreamTranslation` | both in a row, and the buffered translation as their reference | `StreamTranslation_proofs` | `MCStreamTranslation` |
| `WebTurns` | permits, claims and slots of ChatGPT-web turns | `WebTurns_proofs` | `MCWebTurns` |
| `BoundedEventWriter` | `bounded_event_writer.py` | `StreamQueues_proofs` | `MCBoundedEventWriter` |
| `LifecycleGate` | `gateway_transaction.rs` | `GatewayLifecycle_proofs` | `MCLifecycleGate` |
| `GatewayLifecycle` | `gateway_lifecycle.rs` and `proxy.rs` over the gate's promise | `GatewayLifecycle_proofs` | `MCGatewayLifecycle` |
| `AtomicFile` | the lock protocol and the writes of `safe_file.rs` and `atomic_io.py` | `AtomicFile_proofs` | `MCAtomicFile` |
| `OfficialRefresh` | the publication of `official_refresh.rs` with its rollback | `OfficialRefresh_proofs` | `MCOfficialRefresh` |

The definitions that stand beside an action under another name
(`AttachWithoutClose`, `CloseTwice`, `ReleaseEarly` ...) are its mutated forms: the
action with a plausible bug. They belong to no specification; for every property
of a passing run, `PROJECT.json` names the one whose use in place of the action
makes TLC report that property violated.

### GatewayAdmission

*State.* `admissionOpen`, `shutdownStarted`, `active`, `activeDrained` are the
fields of `GatewayShutdownController`; `cancelled`, `transport`, `listener` those
of each `GatewayRequestAdmission`. `closed` and `notified` record what was done to
the outside world: transports closed, listeners run. `handler` is the program
counter of a request's thread, `saw` the local in which attach or
add_cancel_listener keeps the event it read under the lock, `failure` the
exception in flight. `cphase`, `ctarget`, `cpending`, `ctransport`, `clistener`
are the locals of a thread inside `close_admission` or `cancel`. `server` and
`waitResult` belong to `run_server`.

*Actions.* One per lock section, event operation or call on the transport:
`cancel()` is `CancelEvent`, `CancelSnapshot`, `CancelInvoke`, `CancelClose`;
`attach_upstream_transport` is `AttachTransport` and `FinishAttach`. A transport
is a number, in order of attachment. Routing, translation and the retry policy
are abstracted to a choice: any failure may be retried while `MaxTransports`
allows, any request may be answered locally. `OpenFails` takes in the exits of
the open loop that do not look at the event (an exhausted pre-response budget).
A watcher may fire after its relay ended, as in the code. The process exits
when `run_server` returns and every other thread, a daemon, stops with it.
`revoke_all_tool_permissions`, which `close_admission` calls last, is outside
the model.

### SseReader

*State.* The lifecycle's queue (`readQueue`), its `closed` and `responseClosed` flags, the
program counters of the reader thread, the consumer and a canceller, and the
upstream: `Lines` numbered lines and then a `fate`, end of stream or failure. The
idle clock is `fresh` or `expired`.

*Actions.* `put` with a timeout is `EnqueueChecks`/`Enqueue`/`EnqueueFull`; `get`
is `GetItem`/`GetTimesOut`/`GetAfterTimeout`, the last of which is the separate look
at `_cancelled()`; `close` is the lock section (`CloseLock`) and the close of the
response outside it (`CloseResponse`). `cancel()` sets the event (`Cancel`), then closes
what is attached (`CancelCloses`): the bare response if the reader is not there yet.
The attach that follows finds the event set, and no reader reads. A `readline` on a
closed response may return an empty line or raise.

### BoundedEventWriter

*State.* The writer's counters as in the code; the listener's `batch`, its `held`
record or sentinel and `summary`; at most one caller each of `flush`, `rotate` and
`shutdown`; `sink` is the list of sequence numbers appended. `lost`, `rejected`
and `reported` are history counters the code has no names for. A record is a
sequence number and a size.

*Actions.* `enqueue` is two lock sections around a serialization that may find
the record too large or invalid. The listener is `_monitor` with `_write_batch` and
`_emit_recovery` split where the code leaves the lock for the sink. The sink's
append is atomic here; the tail repair of `JsonlFileSink`, the sharing of a sink by
two writers and a failure to start the thread are left out.

### LifecycleGate

*State.* `owner` and `shared` are what the OS has granted on the gate file;
`sidecar` is the content of the `.phase` file (`absent`, `empty` or a phase);
`wstate`/`rstate` the program counters of transactions and status readers.

*Actions.* One per system call. `fs::write` truncates and then writes. A crash
releases the lock and leaves the sidecar. Failures to open, lock, publish and
remove are actions. `GatewayLifecycle` uses the gate through what is proved here.

### GatewayLifecycle

*State.* The operating system (`proc`, the process behind each PID, with start ids
that are never reused; `image`, the bundle it runs; `listener`, who has the port),
the durable PID `record`, the `gate`, and per app the session identity it `owned`.
A call has its operation, `stage` and `step` and the locals `token`, `rec`, `child`,
`found`.

*Actions.* A step is the code between two observations of the machine: read and
probe, inspect and act, wait, kill. Between any two of them processes exit, their
PIDs are reused, the bundle on disk changes and an app crashes. Status snapshots
share the gate and still write or remove the record, as `proxy.rs` does.
A force kill is three such steps, each a look at another machine: the process is
verified (`KillVerifies`), then the listener (`KillFindsListener`), and then `taskkill` or
`kill` is started with the PID (`Kill`) and hits whatever has it by then. `checked` is how
many processes had been started when the verification was made.

### GatewayExchange and StreamCommit

*State.* `plan` is the `RetryExecutionPlan` (official, transparent, compatibility and
ChatGPT-web plans); `try` the attempt counters of the three nested loops with the
limits in force; `seam` the fields of `DownstreamStreamCommit`; `relay` the locals of
the relay; `todo` the writes it is about to make. `wire` and `direct` are what the
client was sent through the seam and beside it.

*Actions.* Each write is an action, so the client may leave, a shutdown may come
and the deadline may pass between any two. `OpenSucceeds`, `OpenFails` and the
decisions after them are `_open_upstream_response`; `RetryRelay`, `GiveUpRelay` and
`ProtocolFallback` are the retry and fallback of `execute_exchange`; `DispatchSse`,
`DispatchJson` and `DispatchHttpError` are `dispatch_proxy_post_exception`.

*Refinement.* `StreamIsCommitted` is `StreamCommit!Spec` with `sent` mapped to all that
the client was sent, the wire and what the dispatcher sent past the seam (`direct`),
and `over` to the closed seam or an answer of the dispatcher. The lines of the upstream
include the two halves of a terminal event, cut before its blank line (`head`,
`sep`); the client sees the first half as `begun`. The abstract stream has the proper
steps of a stream and two more, `CompleteCut` and `BreakStream`, for what the code does
against its own documentation (section 4): nothing else does.

Only streaming Responses requests are modelled here: keepalives, Chat and Anthropic
callers, bodies that are not event streams and the body of an upstream's HTTP
error are left out.

### ChatToResponses, ResponsesToChat, StreamTranslation

*State.* `conv` is the first converter: items under construction with their output
indices, and the finish reason seen. `events` is what its relay wrote, `history`
the chunks that came in, `upstream` how the stream ended, `ledger` whether the request
declared tools. `reader` is the second converter, `read` how far it has read, `chat`
what its client was sent.

*Data.* A text is the sequence of its fragments, and fragments are model values, so
concatenation and `startswith` are those of sequences: fragments of which one is a
prefix of another are not represented. The reasoning is three different texts in
the code and here: its deltas run the fragments together, `reasoning.done` joins them
with line breaks (`Joined`), and the item has one part for each. A chunk that cannot be
translated in any state stands for the dozens of validation errors. Usage numbers
and timestamps are left out. `_normalize_chat_function_call_name` is a constant, `Normal`,
and the texts in which the buffered translation finds written-out tool calls are
those in the domain of another, `CallsIn`.

*The ledger.* `write_converted_response_event` passes each event through `decode_event` of
the request's tool compatibility state, which relays it or raises, in the middle of
the events of one chunk if need be: `Relays` writes those before it (`IsWritten`). What
the ledger remembers of a call is a function of the events that passed (`Rejected`).
Only plain functions are modelled; the ledger relays these unchanged.

*Loops.* The loop over the entries of `tool_calls` (`ToolDeltasOf`), the one over the
calls to close (`FinishTools`) and the text of the deltas (`DeltaText`) are recursive
functions over positions, so that they can be reasoned about.

*Reference.* `BufferedRefused`, `BufferedOutput` and their helpers say what
`chat_stream_chunks_to_response_events` answers to a whole list of chunks, as
predicates over the list and not as a loop, so that the two definitions share
nothing but the chunk. `BufferedAnswer` adds what only this path does: the reasoning
is moved to the front, or taken out of the chunks beforehand where the route does not
preserve it, names are normalized, and written-out calls become calls.

*Composition.* The first Gateway takes its next chunk when the second has read
everything. Nothing flows back, so no behaviour is lost.

### WebTurns

*State.* `permit` is `_CALLS`, `collab` the collaboration module's `_PERMITS`, `slots`
the holders of `_SLOTS`; `gen`, `epoch` and `drainSeen` the marks by which a new
process, a new model or a version switch is noticed; then the exchange of each
handler. `sent` counts how often the runtime began to answer each result, as seen by
its response headers, `lost` how often it took one and nothing of the answer arrived.

*Actions.* One per critical section of either lock: a request begins (and claims
collaboration results), reads the status, synchronizes, claims, opens, observes
events, and settles, aborts or is retried. An open that fails is one of two actions:
the request did not get through (`OpenFails`), or the runtime took it and the answer
was lost (`AnswerLost`); the Gateway cannot tell them apart. The runtime restarts or drains at any
time. Compaction suppression, the message filter and the client-session variant
are left out.

### AtomicFile

*State.* Lock files are inodes: `path` names them, `holder` has locked them, `record`
is their content. A process has the inode it saw, the ones it has open, its
temporary file and its program counter.

*Actions.* One per system call: create, look, open, lock, verify that the path still
names the locked inode, prepare and sign the record, read, write the temporary
file, rename, unlock; a crash at any of them; an unlink of a lock file by somebody
else. `clear_displaced_adjacent_protocol_lock` looks at two files one after the other
and unlinks each or leaves it, so it is up to two such steps. The two languages differ
where the sources do.

### OfficialRefresh

*State.* `disk` holds the catalog with the age of its cache, the managed part of Codex's
configuration, the user's setting (`include_official_models`) and the refresh state with
its fence, the age of the last success and the mark of an automatic attempt; `call` the
locals of a publication, its snapshot of the files included; `lock` is the switch lock.
`owned` says whether the configuration belongs to this flavor: if not, a publication
leaves it alone. `unfinished` and `torn` are history: publications that ended with neither
the old files nor the new ones, and a configuration that could not be restored, since a
publication was last completed.

*Actions.* A publication is a step per file and per check of Codex Desktop, each of
which may fail, with the restore of every file when one does and a restore that
may fail too. A refresh returns at once if Official models are switched off. The
configuration is written only if it belongs to this flavor (`Projected`), and a refresh
of a state without a success takes the age of the cache for it (`Success`). Codex Desktop
starts and quits at any time, the upstream changes its list, a user saves a setting, an
app crashes. The `Activation` trigger has no
caller; the single flight cannot be entered twice, since all its callers hold the
switch lock.

## 3. Runs

| Run | Distinct states | What it shows |
|---|---|---|
| `admission` | 38 thousand | a ChatGPT-web request with two transports against a `/shutdown` and a watcher: `CancellationReaches`, `NoFalseUpstreamError` |
| `shutdown` | 131 thousand | two requests against a `/shutdown` and `run_server`: `ShutdownReachesActive`, `DrainedIsFinal` and, under fairness, `ShutdownEnds` |
| `sse_reader` | 60 thousand | a stream longer than its queue, with a consumer that may leave and a cancel at any point: `QueueIsGenuine` and, under fairness, `NothingLeaks`, `CancelEndsConsumer` |
| `event_writer` | 191 thousand | two producers at both limits, a failing sink, a rotation and a shutdown: `NoSilentLoss`, `SinkIsQuiet`, `DrainedIsHonest` and, under fairness, `AcceptedIsProcessed` |
| `lifecycle_gate` | 12 thousand | two transactions, two status readers, two faults: `GateExcludes`, `RunningPhaseIsPublished`, `HeldPhaseIsActive` and, under fairness, `InspectionEnds` |
| `lifecycle` | 362 thousand | a desktop app and a command line that start, stop, restart, close and inspect one Gateway while processes exit, PIDs are reused and an app crashes: `IdentitiesNameGateways`, `StoppedMeansGone`, `SingleGateway`, `SparesLiveGateways` |
| `exchange` | 528 thousand | one request of every plan, with cut and broken streams, against a client that leaves, a shutdown and a deadline: `UpstreamIsReleased`, `ClientIsTold`, `StreamIsCommitted` (the refinement), `ReplaysAreSafe` and, under fairness, `RequestEnds` |
| `translation` | 1.43 million | all streams of four chunks, with and without the ledger, there and back: `StreamIsWellFormed`, `SameAsBuffered`, `RoundTrip` |
| `web_turns` | 2.44 million | two handlers and three requests of one thread: `ForwardedOnce`, `NothingStaysInFlight`, `RevokedForGood` |
| `atomic_file` | 283 thousand | a Rust and a Python writer with a crash and an unlinked lock file: `OneOwner`, `LegacyIsRespected`, `NothingOutlivesItsCall`, `CreatesOnlyOnce` and, under fairness, `CallEnds` |
| `official_refresh` | 1.13 million | two apps, a configuration of this flavor or another, Codex Desktop and a user: `SnapshotIsSafe`, `SettingsSurvive`, `RestartIsDisclosed` and, under fairness, `Recovers` |
| `file_lock_crash` | violation | `NewOwnerEnters`, the finding of section 4 |

Between them the passing runs take every action of every specification. Type
invariants are part of the proofs; the runs spend their time on the properties.

### Bounds and why they are enough

- `MaxTransports = 2`: one response, and its replacement by the SSE reader or by a
  retry, the case in which cancel() may hold the old one. Liveness is checked with
  1, since what matters there is a read that blocks.
- One shutdown and one watcher: two concurrent `cancel()` of one admission. Two
  requests with one shutdown: the snapshot is iterated while others change. The
  proofs lift the safety properties to any number.
- `Lines = 3` with `Capacity = 2`: a full queue, and an end of stream behind it.
- `MaxRecords = 2`, `MaxBytes = 3`, sizes 1 and 2, `MaxEnqueues = 3`: either limit is
  reached first, a record that does not fit the batch is held over, and records
  drop while others are in flight, during a rotation or a shutdown.
- `MaxTransactions = 3`, `MaxFaults = 2`: a transaction that crashes, one that
  crashes or fails in its wake, and one that runs.
- Lifecycle: two apps, two PIDs, two processes, two calls and one fault. A PID is
  reused with the second process, and a call of each app overlaps the other's.
- Exchange: two open attempts and an expansion of three make every counter reach
  its limit at every level; three lines are one before, one in and one after a
  terminal event.
- Translation: four chunks of sixteen shapes, all orders, with reasoning preserved
  or not, with a ledger or without, and a name that is neither declared nor in normal
  form. Every condition of the converters depends on at most three chunks (two
  pieces of one call and a finish reason), which leaves one for another item.
- Web turns: two handlers, three requests of six shapes, two calls of which one is
  a collaboration call, one change of the runtime. `Capacity = 2` never bites, as a
  request may be refused by another one's slot at any time (`BeginRefused`).
- Files: a Rust and a Python process, three inodes, one crash, one unlinked lock
  file. The proofs lift the safety properties to any number.
- Refresh: two apps, two snapshots, two changes, a failed step, a failed restore
  and a crash: a rollback that meets a second fault, and publications after it. Two
  unfinished publications in a row, which `SnapshotIsSafe` is about, fit in.

Deadlock is checked except where calls or requests are bounded and the system
stops when they are used up (event writer, lifecycle, web turns, exchange).

### Fairness and why the code justifies it

- *Admission.* Threads are scheduled. An open ends, by its attempt timeout. A read
  is **not** fair: an upstream may be silent for ever. Only a read whose transport
  was closed ends (`ReadAborted`); that closing a socket wakes a blocked read is
  the assumption the Gateway itself rests on. The expiry of the shutdown budget
  (`WaitTimesOut`) is not fair either, so `ShutdownEnds` does not owe its truth to
  the budget. A `/shutdown` whose answer cannot be written ends without stopping
  the server; `ShutdownEnds` starts from `serverShutdown`.
- *SSE reader.* Both threads and a `cancel()` under way run on; the upstream's next
  line is not fair. The caller of the generator comes back or drops it: the
  downstream write it does in between is assumed to end.
- *Event writer.* The listener runs, the sink answers, and a rotation that waits
  times out or ends, as `rotate`'s deadline provides. No caller is fair.
- *Gate.* Transactions end (every backend call in them has a timeout) and a lock
  that stays free is granted. A bounded number of transactions begins:
  `inspect_for_status` polls with no deadline, and an endless series of writers that
  it always meets between lock and publication could keep it polling.
- *Exchange.* The handler thread runs on: every read and open has a timeout, so a
  step of it is always possible. The client, the shutdown and the deadline are not
  fair.
- *Files.* A process that can take a step takes it; a wait for a lock ends by its
  deadline even if the lock is busy again and again (strong fairness of `Timeout`).
- *Refresh.* A call runs on; the clock passes the interval and the scheduled refresh
  is attempted again and again. Codex Desktop need not stop, the user need not want
  Official models and the upstream need not answer: `Recovers` states what they have to do.
- Lifecycle, web turns and translation have safety properties only.

## 4. What TLC found

`file_lock_crash` (a violation run): a process that dies between creating or
truncating the primary lock file and signing it leaves an empty record, which every
later owner of both locks takes for one being written. Each call times out, for
good, although `safe_file.rs:57` says that "a new owner enters within
LOCK_WAIT_TIMEOUT". The test `existing_empty_lock_fails_closed` (`safe_file.rs:1203`)
expects the refusal, so the repository disagrees with itself.

The other disagreements met while modelling have no run of their own. Where a
property meets one, it names the case and says exactly when it occurs; TLC and, where
there is a theorem, the proof then show that it occurs in no other way, and that
the bad case is in the model: each of the two steps and of the conditions below is
reached in the run.

Admission and SSE reader:

- A ChatGPT-web client that disconnects cancels its admission, and the request ends
  as `user_requested_shutdown` (`gateway_admission.py:16`).
- `get()` times out on an empty queue and then looks at the closed flag; the
  upstream's exception queued in between is lost (`gateway_transport.py:1921`, 1935).
- The idle clock keeps running during a downstream write (`gateway_relay.py:298`).

Exchange:

- A terminal event cut off before its blank line is completed by the seam and then
  followed by a synthetic failure: two terminal events (`gateway_sse.py:678`), although
  its docstrings (280, 659) say that duplicates are prevented. This is
  `StreamCommit!CompleteCut`.
- Two branches of the dispatcher, for the pre-response deadline and for a frame over
  the limit, do not look at `downstream_sse_started` and send a second HTTP head with a
  JSON body into a stream that has begun (`gateway_error_dispatch.py:510`, 659), past the
  seam that claims to own all bytes (`gateway_sse.py:279`). This is `StreamCommit!BreakStream`,
  and `AnsweredIntoStream` in `ClientIsTold`.
- The official relay's cancellation path uses an undefined name
  (`gateway_relay_passthrough.py:201`, 232), and `gateway_exchange.py:915` tests a lambda
  instead of calling it. A retry notice counts as output. A transparent relay of
  an empty upstream that defers its errors sends nothing.

Translation:

- A reasoning fragment equal to an earlier one is dropped (`protocol_translation.py:3838`).
- Reasoning in two or more fragments reaches a Chat client of the stream twice: the
  deltas run the fragments together (3858), the final event joins them with line
  breaks (3881), and the reader does not recognize the one in the other (3464). The
  test at `tests/test_protocol_translation.py:3248` expects it once, of events whose final
  text is that of the deltas. `RoundTrip` says exactly what arrives.
- The buffered translation moves late reasoning to the front, since Responses history
  requires that order (2400, 2643); the incremental one leaves it where it came.
  Where the route does not preserve reasoning, only the buffered path takes it out
  (`gateway_relay.py:2048`). Names are normalized (2558) and written-out calls found (2587)
  by the buffered one only. `SameAsBuffered` says that the answers are the same exactly
  if none of the four matters.
- Arguments that come before a call's name are missing from the delta events. If more
  follow, the final arguments are not those relayed: the ledger refuses them
  (`tool_compatibility/stream.py:1288`), in the relay of a request with tools, and so does a
  Chat client of the stream. The ledger also refuses two calls with one id and
  undeclared names; the buffered translation answers all three (`LedgerRefuses`).
- An error object ends the relay with a failure unless the answer was complete; the
  buffered translation ignores it. An answer cut off by its length limit is an error
  for a Chat client of a Responses stream. Usage sent together with a finish reason
  is ignored by the incremental translation.
- At the end of the stream `events_for_done` is called outside the handlers
  (`gateway_relay.py:1684`), so a call without a name, or one the ledger rejects, is
  answered by the dispatcher; here it is the failed event of any other refusal.

Web turns:

- An event observed after an abort opens its permit again (`chatgpt_web_route.py:675`;
  `tests/test_chatgpt_web_route.py:1182` expects otherwise); events of a runtime that
  was replaced open permits too (677).
- Calls issued in the answer to a "continue" get no permit. A rejected submission
  leaves collaboration results claimed (`chatgpt_web_collab.py:349`), and those are
  never answered from a recording. The late abort of a settled exchange revokes
  the permit of its retry. A stale status makes the process generation flap (915).
- A POST whose answer is lost before its headers counts as not submitted
  (`gateway_exchange.py:869`, `chatgpt_web_route.py:788`): the claim is given back and a repeated
  request delivers the result a second time. `ForwardedOnce` counts these deliveries
  (`lost`): it is the only way to a second one.

Lifecycle and gate:

- After a crash in a transaction a status read reports the dead one's phase until
  the next publication (`gateway_transaction.rs:102`).
- A crash of the app between spawn and record lets a second Gateway be started
  (`proxy.rs:885`). Status reads share the gate: one that read an earlier record removes
  (603) the one by which another has adopted that Gateway since. `LiveRecordKept` names
  that case; it takes a crash or a record that could not be written.
- The process is verified (`proxy.rs:1502`), the listener looked up (1523), and `taskkill` or
  `kill` started with the PID (3457) in three calls. A process that exits in between and
  whose PID is given away leaves the kill to a stranger. `KillsOnlyItsOwn` names that
  case: the victim started after the verification.
- The app's close cannot force a Gateway it recovered (`proxy.rs:113`, 1495).

Official refresh:

- The fence is lowered in memory only, although the comments say that it becomes false
  before acquisition and that a failed publication cannot leave an older catalog
  accepted (`official_refresh.rs:51`, 598). A crash between two files leaves it raised, and so
  does a failed restore, after which the lowered fence is not written either (450).
  One crash leaves files that disagree with the fence and are not taken; two
  can agree with it by chance, and a configuration that could not be restored can
  at once: `SnapshotIsSafe` names both.
- A crash between projection and state write loses the disclosure of a restart (54). `commit_race_error` says that nothing was
  written although the fence may have been.

## 5. Proofs

**GatewayAdmission_proofs**, from `ConstantsAssumption` (the kinds of threads are
disjoint, `NoRequest` is not a request). The properties are not inductive alone;
`IInv` adds

- `Scoped`: a thread inside `cancel()` has a target, an attach being finished a transport;
- `EventFirst`: the event is set before anything that depends on it. Closed
  transports, `saw`, aborted reads and targets of `cancel()` imply `cancelled`. This is
  what makes `NoFalseUpstreamError` true: `DispatchFailure` looks at the event *after*
  the read failed;
- `ControllerAgrees`: `activeDrained` exactly when `active` is empty, `shutdownStarted`
  exactly when admission is closed. `DrainedIsFinal` needs both: drained, and nobody can
  be admitted any more.

Each part is shown to be preserved by a lemma with one case per action. From
`Inductive` follow `TypeCorrect`, `CancellationIsComplete`, `NoActiveRequestMissed`, `DrainedStaysDrained` and `ShutdownNotBlamedOnUpstream`.

**AtomicFile_proofs**, from `ConstantsAssumption` and `NoneIsNoRecord`, for any number of
processes, crashes and removals. `LockInv` adds to the types `HasItsLocks` (what a
process believes it has locked is locked by it), `FilesAreApart` (no inode is named
by both paths) and `StableIsCurrent` (as long as a lock path has not been unlinked,
whoever has locked that file has the inode the path names). `OneOwnerHolds` and
`CreatesOnce` follow while one of the two paths has never been unlinked: two owners
would hold the same inode. `HoldersAreInCall` gives `NothingOutlives`, and `LegacyInv`
(a record signed over is not a legacy one) `LegacyHolds`.

**StreamQueues_proofs** is about the two bounded queues beside a relayed stream. Its first
part is about `SseReader`, from `SseConstants`, for every number of lines and every capacity.
`QueueIsGenuine` compares the queue with the upstream's script as sequences. `SseInv`
says it line by line (`LinesInOrder`) and adds `ReaderInScript`, where the reader thread is in
that script: the line in its hand is the next one, *unless* the response has been
closed under its `readline`, and then the look at the close flag keeps what it read
away from the queue. `ErrorIsLast` does the same for an exception in the consumer's
hands. From it follows `ReaderIsGenuine`; `ClosedByOne` (who found the response open is
the only one to close it) gives `ClosedAtMostOnce`.

Its second part is about `BoundedEventWriter`, from `WriterConstants`, for any limits, record
sizes, producers and number of flushes, rotations and shutdowns. None of the properties is
inductive: the counters say nothing of the queue. `WriterInv` has these parts:

- `MemoryInOrder`: what is in memory, the batch, the record held back and the queue in
  a row, carries on where the completed records end, without a gap, and behind the
  records there are only sentinels. `pendingRecords` is how many records it has and
  `pendingBytes` the sum of their sizes. Every move of the listener leaves this row as
  it is or takes its first records away, and `SinkInOrder` follows;
- `ListenerLocals` and `FenceHolds`: a batch past the fence ends before the target of a
  rotation, so that nothing is left to append when the operation starts;
- `StopsLast`: a sentinel is sent only after records are refused, and the listener ends
  only at a sentinel, which has no record before it;
- `Accounts`: where every call of `enqueue` and every failure went. The counters of a
  recovery record being written never exceed the pending ones, so that `subtract`
  never cuts off, whatever failed meanwhile.

From it follow `NothingLostSilently`, `SinkStaysQuiet` and the action property
`FlushIsHonest`. `Bytes` is a sum over a sequence, and what it computes is proved, not
checked: `SetInduction` states induction for a *set* of naturals (from the least-element
principle of `WellFoundedInduction`), which needs no operator parameter. With it follow
the existence of the recursive function (`SumsExist`, `BytesIsSum`) and how it behaves
under concatenation (`BytesConcat`).

The definitions of `SseReader` that both modules would have carry the prefix `Sse`.

**StreamTranslation_proofs**, from `ChunksAssumption` and `NoneAssumption` (`None` is no
output index), for any set of chunks, any positions of the tool calls and streams of any
length. `StreamIsWellFormed` speaks of the events only, and no induction on them can tell
what the next one will be. `StreamInv` reads the converter as an account of the stream:

- the reasoning, the message and each tool call have a *slot* (`SlotsOf`): the output index
  it took, who it is, its text so far, whether it was announced;
- the account: every index below `next` is the index of exactly one slot; an announced one is in
  the stream under that identity and its deltas make its text, but for the arguments of a
  call that came before its announcement (`SlotFits`); nothing was sent about the others;
  `response.created` was sent exactly when there are events;
- `Tracks`: the converter keeps the account of what was written before and what it is about
  to write. Every step of the code does: `_created_events`, `_tool_state`,
  `_tool_added_events`, the reasoning and message steps (`CreatedTracks` ...
  `ContentDeltaTracks`), and each entry of a chunk keeps it or refuses the chunk
  (`ToolDeltaSound`);
- between two chunks no item is closed, since all are closed together at the end; a stream
  that has ended, was refused or broke off only has to be well formed (`Relayable`, `Ended`).

`MayFollow` says which event may follow a well-formed stream, and `WellFormedAppend` that the
stream then stays so; each step is shown to send such events. At the end the reasoning, the
calls and the message are closed one after the other. By then the closed indices are
`0 .. next - 1` (`AllClosed`), and `OutputLists` proves that sorting the closed items by index
gives a list with the item of index `n - 1` at position `n`. `StreamInvariant` and
`StreamStaysWellFormed` follow.

The ledger of the tool calls may cut the events of a chunk off anywhere. What it rejects
does not matter to the proof: `WellFormedPrefix` shows that the first events of a
well-formed stream are well formed, and `FailureSound` that a failure may end any of them.

What the loops compute is proved, not checked: `Iterates` is recursion on an interval as a
first-order formula, `IterationExists` and `IterationUnique` say that it has exactly one
solution, and `SetInduction` gives induction for a set of naturals.

**GatewayExchange_proofs**, from `ConstantsAssumption`, for all limits, every plan and
upstream streams of any length. `ExchangeInv` has one part per concern:

- `Shapes` and `WriteIsPlanned`: the types, and where a run of writes leads;
- `CountersInLimits`: at every point of the nested loops, how many opens are still
  to come. The budget follows (`BudgetHolds`);
- `CleanUntilServed` and `GuardedOnce`: as long as a retry is possible the relays have
  held everything back but a retry notice, and a third party's main generation has not
  been written. The action property `ReplaysAreSafe` follows (`ReplaysAreSafeTheorem`);
- `OpenIsRelayed`: an open response belongs to a relay that is still running
  (`UpstreamIsAlwaysReleased`);
- `EndIsTold`: the last of the writes that are planned, or the last one made, is what
  tells the client how its request ended (`ClientIsAlwaysTold`);
- `HeadersLead` and `StartIsMarked`: what was written starts with the header block, and
  what will be does; a stream that is not marked as started has nothing on the wire but
  a retry notice;
- `ItemsServe`, `SealIsFinal` and `CutIsCompleted`: what is written on the way to each label,
  that nobody goes on once the stream is sealed, and that a completion is only ever
  written to a terminal event that was cut.

`StreamRefinement` proves that the exchange implements `StreamCommit`, step by step, for
upstreams that send any lines, and `WireIsWellFormed` what that is worth to a client: the
header block first and once, a JSON answer last, and after a terminal event nothing but
the one that follows the completion of a cut one.

**WebTurns_proofs**, from `ConstantsAssumption`, for any number of handlers, turns, calls
and requests. `Holds(h, c)` says that the exchange of `h` forwards the result of `c`.
`TurnsInv` has `FlagsFit` (what the flags of an exchange can be at each point), `HeldByOne`
(one exchange holds a call, and its permit is neither open nor absent meanwhile, so that
no other can claim it), `SentIfSubmitted` (the runtime began to answer what a holder
submitted, and nothing whose permit is open), `AnswerFits` (a recorded answer is to that call, in its
turn) and `ForwardingIsHeld`. From it follow `ForwardedAtMostOnce` and
`NothingLeftInFlight`. The action property `RevocationIsFinal` needs both tables: it
rests on what `Revoke`, `RevokeCollab` and `Interrupted` leave of a table.

**OfficialRefresh_proofs**, from `ConstantsAssumption`, for any number of processes,
snapshots, settings and faults. `RefreshInv` says what the files hold at every point of
a transaction in terms of the files as they were before it: `SnapIsCurrent` (nobody
else wrote settings or state since, because the switch lock is held), `MemIsCurrent`,
`Progress`, `Restored`, and `FilesAreSound`: outside transactions the files, and inside
one the files that a rollback would bring back, are such that a raised fence means one
snapshot (of a configuration of another flavor it says nothing) and a written
configuration is disclosed. After one unfinished publication only the weaker `Trusted`
is left, which is what `Available` needs: a fence that is raised over other files than the
catalog is not taken. `Restored` says how far a rollback got and what a failed
restore has marked as `torn`. `AvailableIsSafe`, `SettingsAlwaysSurvive` and
`RestartStaysDisclosed` follow, without a bound on failed restores or crashes.

**GatewayLifecycle_proofs**, from `LifecycleAssumption` and `RecordsAssumption` (`None` and
`Error` are no records), for any number of apps, threads, PIDs, bundles, processes and
faults. None of the properties is inductive: what a call removes or kills rests on what
it read some steps ago. `LifecycleInv` has these parts:

- `ProcessTable`: start ids are given out in order, to one process each;
- `AllFit`: wherever a start id is kept (the record, a session identity, the locals of a
  call), it was a Gateway's and that Gateway ran under the PID beside it. With the
  order of the ids this is what makes a dismissed process gone for good. It gives
  `IdentitiesAreGateways` and, with the next part, `StopIsFinal`;
- `RecIsCurrent` and `GateIsKept`: under the gate, the record is still what the call
  read. A status snapshot only shares the gate, so for it `Follows` is weaker: the record
  is what it read, is gone, or has been activated by another snapshot;
- `OwnSpawned`: a session identity, and the copy a stop took of it before it waited for
  the gate, is of a process this app spawned;
- `ChildIsRecorded` and `LiveIsKnown`: without faults a live Gateway has the durable
  record or is the child of the one start under way. That makes adoption impossible
  without faults, and gives `AtMostOneGateway`.

`LiveGatewaysAreSpared` is the action property: `OwnSpawned` and `AimInv` for the kill (between
the verification and the kill the PID has the verified process, none, or one with a
start id above `checked`), `DroppedIsDead` (a record a snapshot drops is of no live Gateway,
even if another snapshot has activated it meanwhile) for the record.

The last section of the same module is about the gate itself, from `GateAssumption`.
`GateInv` adds `LockIsHeld` (what a thread believes about the lock is what the OS
granted), `PhaseIsKnown`, and `SidecarIsOwners` (without faults, a phase in the sidecar
is the owner's). From it follow `GateTypeCorrect`, `GateIsExclusive`,
`PhaseStaysPublished` and the action property `ReportIsActive`. The definitions of
`LifecycleGate` carry the prefix `Gate` so that both modules can be extended.

The inductive invariants were checked by TLC, on the instances of the runs, before
they were proved.

Only model-checked: all liveness (fairness and ENABLED are out of the prover's reach),
and two properties of the translation, `SameAsBuffered` and `RoundTrip`. Both relate what a
whole history of chunks makes of three definitions: the incremental converter, the buffered
one, which selects from the list and sorts, and the reader at the far end. An invariant
would have to say of every prefix what the buffered translation would answer to it, that
is, translate each of its selections into a recursion over the chunks and prove the two
equal, for each of the dozen operators that make up `BufferedRefused` and
`BufferedOutput`.

## 6. Plan

1. Proofs: `SameAsBuffered`, with the buffered translation restated as recursions over the
   chunks and a lemma by `SetInduction` for each.
2. `HttpPool`, `DiagnosticControl`, `RoutingOwner`.
3. The Anthropic converters in front of and behind `StreamTranslation`.
4. The composition of `SseReader` with `GatewayAdmission`: the lifecycle as the
   transport that admission closes.

## 7. What is not modelled and why

The map covers some five per cent of the repository's 118 thousand lines of
implementation: its concurrent and stateful core. The rest is mostly of three
kinds that a state machine would not make clearer.

- Functions over large documents: request and body translation, tool adapters,
  Anthropic messages, routing plans, catalogs, history overlay. Only the stream
  converters keep state between calls, and those are modelled.
- Scripts under `scripts/` that build inventories and drive end-to-end tests, and
  the desktop shell, command line and user interface: plumbing and I/O.
- External systems: the browser session of the ChatGPT-web runtime with its
  supervisor, credentials, usage queries and the updater.

Stateful parts left out so far: the HTTP connection pool, the diagnostic control
files and the routing owner (see the plan), the tail repair of `JsonlFileSink`, the
client-session variant of ChatGPT-web turns, and the part of the tool compatibility
state that holds events of adapted custom and search calls back and rewrites them
(`tool_compatibility/stream.py:1718`). The collaboration results that a refused submission
leaves claimed (`chatgpt_web_collab.py:349`) are in the model, but no property is about them:
what a client should be able to do with them then is nowhere said.

Time: timeouts may fire at any moment, and durations are not compared. That
`shutdown` of the writer may take two full timeouts is therefore out of reach.
