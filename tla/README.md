# A TLA+ model of devin2api

devin2api is a Rust service that offers OpenAI- and Anthropic-compatible
completion endpoints (HTTP, SSE and WebSocket) in front of one upstream, the
Devin/Windsurf Connect RPC. It has a single upstream account, a per-minute
upstream limit, one credential that expires, clients that leave at any moment,
and it must be restarted without dropping what is in progress. Everything below
refers to the repository under `src/`; a path such as `gate.rs:423` means
`src/src/upstream/gate.rs`, line 423.

The project models the parts in which several actors meet or a long order of
events matters: the rate gate, the stream owner with its retries, the
credential store, the model catalog, the life of a request inside the server up
to the shutdown, the WebSocket connection with its session, the request log
with its directories and index, and the way of an answer from upstream's frames
through the decoder and the stream encoders to a client. TLC checks them on
small instances, and TLAPS proves the central results about eight of them for
every value of their constants.

## 1. Inventory

### Components, their state and operations

| component (source) | state | operations | modelled by |
|---|---|---|---|
| rate gate (`upstream/gate.rs`) | parameters, window bucket, latch deadline and next drip, waiters, transition ring, state file | `wait`, `note_upstream_success`, `note_upstream_error`, `set_params`, `stats`, restore at start | `RateGate`, `GateTimeline` |
| upstream stream (`upstream/retry.rs`) | attempt, event queue, withheld start, resend armed, three timers, first failure on record | `Adapter::stream`, `recv`, `try_recv`, drop, cancel | `UpstreamStream` |
| response decoder (`upstream/response.rs`) | open text and thinking, withheld bytes, tool calls, stop reason, stop-sequence match | `decode`, `finish`, `complete`, `fail` | `ResponseDecoder`; its control also in `UpstreamStream` |
| token store (`upstream/catalog.rs`) | token and generation, reload lock | `current`, `set`, `repair` | `TokenStore` |
| model catalog (`upstream/catalog.rs`) | models, expiry, cooldown, the fetch in flight | `list_models`, the fetch task | `ModelCatalog` |
| assignment cache (`upstream/catalog.rs`) | router and cascade to model and jwt | `assign_model` | not yet |
| completion server (`server/http.rs`, `server/stream.rs`) | drain count, permits, the stage of each request, its record and metric | `admit`, `create_completion`, `SseBody`, `JsonBody`, `TrackedBody` | `CompletionServer` |
| lifecycle (`server/lifecycle.rs`) | drain flag, listener, connections | `serve_until_shutdown`, bind with retries, config reload | shutdown in `CompletionServer`; the rest not yet |
| WebSocket sessions (`server/websocket.rs`) | queue and its byte budget, active turn, marks of an overflow, session memory | reader task, turn loop, `normalize`, `commit`, `require_replacement` | `WsConnection`, `WsSession` |
| request log (`debuglog.rs`) | bounded queue, writer, drop counters, files of one request, verdict | `enqueue`, `run_writer`, `flush`, `complete`, abort | `RequestLog` |
| log directories (`debuglog.rs`, `debuglog/cleaner.rs`) | active and taken names, directories on disk, retention policy | `start`, the retention pass, restart | `LogDirs` |
| log index (`debuglog.rs`, `debuglog/index.rs`, `debuglog/reader.rs`) | index file and its length, usage counts, the replay's snapshot | append, rewrite at the cap, startup replay, restart | `LogIndex` |
| protocol codecs (`protocol/`) | blocks or items of one stream, which of them wait for a signature | encode an event, encode a final message; decode a request | the encoders in `MessagesEncoder`, `OpenAIEncoders`, `StreamCodec` |
| request builder (`upstream/request.rs`, `tool_definition.rs`, `sanitize.rs`) | none | projection of one request | not yet |
| configuration (`config.rs`, `config/`) | immutable snapshot | load, resolve | a reload is `SetParams` and `ApplyConfig` |
| metrics, admin panel | counters; views of the others | `begin`, `finish`; JSON routes, abort | the verdict and abort in `CompletionServer` |

Tools beside the service (`auxiliary/`, `qa/`, the binaries other than
`devin-2api`), transport set-up, generated protocol buffers and the value
formatting of the debug log are not modelled: they are stateless, generated or
pure I/O.

### How they interact

A connection task polls the request's future, so dropping the connection drops
the request at whatever await it stands. The handler takes an `Admission`
(a permit and a drain slot), starts a recorder, and asks the adapter for a
stream. The adapter binds the token of the store, resolves the model with the
catalog, and for each send waits at the gate, then calls upstream. The stream
it returns is read by a body that hyper pulls, or by a loop that collects the
answer. Every first frame and every failure is reported to the gate; an
`unauthenticated` goes to the token store and is sent again once. At its end
the body writes the record on the blocking pool and only then gives the
admission back. A config reload writes to the gate, the token store and the
log policy; the panel reads snapshots and can abort a request; the shutdown
raises the drain flag and waits for the drain count to reach zero.

### Which behaviours are hard

`PROJECT.json` lists the hazards with their lines. In short:

- **the gate**: the local window and upstream's bucket are different minutes;
  answers come back late, after a restart or after a newer refusal; the
  deadline must survive a crash between any two steps; sleepers wake into a
  changed world or are dropped asleep.
- **the stream**: retries nest (connect, credential, empty turn); the start is
  withheld while a resend is possible; a keepalive drops the poll in the middle
  of its wait; cancellation, watchdogs, frames and the reopen race.
- **the token store**: repair releases its view of the store three times
  before it installs; a reload may come in each gap.
- **the catalog**: single flight with followers that wake in any order, a
  leader that leaves and a task that dies.
- **the server**: a request may disappear at every await; the slot, the permit,
  the record and the metric have to be settled once each and in order, with a
  shutdown looking at them.
- **the WebSocket connection**: the reader works beside the turn loop; cancel,
  overflow and disconnect come at and between turns, and a turn that failed
  leaves the session at the last one that completed.
- **the request log**: a task is sent before it is counted; the queue closes,
  fills and drains while a flush, an abort and two completers wait on it.
- **directories and index**: the cleaner works from an old copy of the active
  set, the index is rewritten in place, and the replay counts beside the live
  appends; the process dies between any two of these steps.
- **the codecs**: stop sequences are split over frames, signatures trail behind
  the blocks they sign, ids of calls come late, and arguments are repaired when
  the client has long been told them.

## 2. Modules

The sources call the clock and the lock by name, so the unit of atomicity is
clear nearly everywhere: what runs under one mutex, or between two awaits, is
one action. Everything that happens outside a lock is split.

### RateGate

Each method of the gate runs under one mutex and is one action, or one action
per outcome for `evaluate` (`AdmitProbe`, `RejectLatched`, `AdmitUnpaced`,
`AdmitPaced`, `RejectHold`, `SleepToWindow`, `WaitCancelled`). A refusal takes
two, because `note_upstream_error` reads the clock before it takes the lock
(`UpstreamRefuses`, `NoteUpstreamError`). The state file is written or fails
(`IoFault`) inside the action, as the code does it under the lock. `Restart`
happens at any point and keeps only the file. `DropWaiter` is the future that
goes away while it sleeps.

Upstream is part of the model, because the promise of the gate is about it:
`meter` counts what reached upstream in upstream's own bucket, whose boundary
lies `skew` ticks from the configured estimate, anywhere within the guard.
`embargo` is the deadline it has declared, when the refusal was read that told
it (`told`), and the last send made under it (`sent`). A refusal may be read,
a probe admitted, and the refusal noted only then: if it extends the deadline the
code counts the drip from the older reading (gate.rs:484-497), so the next probe
may follow the last one sooner than the drip. The model does the same, and marks
that pair of sends (`overtaken`); `ProbesAreSpaced` excepts it and still holds the
gate to the drip after the reading. Two assumptions are deliberate and
bound what `UpstreamQuota` says: sends reach upstream in the tick in which they
were admitted, and upstream's count starts anew when the window parameters
change or the process restarts (the code keeps no usage across a restart, and
says so at gate.rs:184-188 only of one estimate).

### GateTimeline

Extends `RateGate` with `latchedTicks`, the ticks the latch really was down,
and compares them with what `latch_ranges` rebuilds from the ring. The loop of
`latch_ranges` is the function `Replayed`, whose value at n is what the first n
transitions have made.

### UpstreamStream

One client request. `conn` is the connect loop (`get_chat_message_with_retry`),
`ds` the fields of `DevinStream`, `pc` where its consumer stands in
`recv_inner` or `drain_ready`, `wire` what upstream delivered. The consumer may
be the SSE body, which drops its poll at every keepalive and re-polls, or a
loop that collects and does not. The select arms of `recv_inner` are actions
(`TakeFrame`, `TakeEnd`, `ReopenReturned`, `HoldFires`, `StallFires`,
`ProgressFires`, `WaitCancelled`): the select polls in random order, so each is
enabled when its future is ready. A tick is five seconds of the code.

The gate's verdict and the existence of a newer credential are nondeterministic
here; `RateGate` and `TokenStore` say what they may be.

### TokenStore

`repair` is five actions: the first look, the lock and second look, the read of
the source, the install, and the failure. `history` keeps every installed token
with its origin, so that "newer", "missed" and "of its own generation" can be
said. `ApplyConfig` is the reload, which takes no reload lock (catalog.rs:708).

### ModelCatalog

One action per turn of the loop in `list_models` (cache, cooldown, follow,
lead), and the fetch task with its two locked sections: the commit, and the
notification. `Dies` is the task that ends without either; `Leaves` is the
cancelled caller.

### CompletionServer

A record per request: where its future stands (`at`), the completion task on
the blocking pool (`task`), the record and the metric it left. `Open` is the
connection; every await has an action for the drop there (`DropReading`,
`DropConnecting`, `DropFirst`, `DropBody`, `DropTold`, `DropRest`), in the
order Rust drops what is in scope: the inner future with its `Admission` before
the completion guard where the admission was already moved into it.
The shutdown is `BeginDrain`, `StartWait` (with and without a handoff peer) and
`StopServing`, which may also be the time-out. `emptied` and `idle` record that
the drain count has been zero since a waiter started to wait: whether the
waiter runs at once or later is up to the runtime.

### OneAnswer

What a client is promised, in five actions and without connects, watchdogs,
credentials or polls: sends are made, one of them is committed to when it
produces something, its start and its content follow in order, and the answer
ends once. `UpstreamStream` ends with an INSTANCE of it whose state is computed
from the stream's (what was delivered, by which send, whether it is over), and
`KeepsPromise`, a property of the run `upstream_stream`, is its specification.

### RequestLog

One recorder. `enqueue` holds the state mutex, the worker does not, so an offer
is two actions (`Offer`, `CountIn`) and the backlog is a counter of
`CountWidth` bits that may wrap below zero in between. The worker, the flush
barrier, the panel's abort (mark, then cancel) and `complete` (close, wait,
write, fold) are each a sequence of actions; any file write may fail.

### LogDirs

Names are reserved under the mutex and directories made outside it; a retention
pass copies the active set, then looks at one entry per step, and evicts one
per step. `Restart` forgets everything but the disk. `RunningIsKept` is the
code's promise with the window it leaves open in the property itself: a
directory allocated since the pass took its copy may go. `Tick` leaves out one
thing that the wall clock could do: between the reservation of a name and the
`mkdir` that follows it in the same call, the hour changes at most once
(`Prompt`). Without it a request that was suspended there for hours could
collide with a leftover, take the next name of its old hour and lose that
directory to the age limit while writing it: the copy of the active set has the
first name only.

### LogIndex

Everybody holds `index_mu` for an append or the replay's read, which are single
steps; the rewrite is two, because the process may die in it. A flush, a read
and an open may fail, with what the code then does to its own idea of the
file's length. A crash or a fault between a flush past the cap and the rewrite
leaves a file longer than the replay's window, which is as long as the cap
(index.rs:13): the replay then reads its tail (`TailRead`, the first line torn or
not), and what older lines it does not count the code warns of
(debuglog.rs:1129-1141). `CountedOnce` therefore speaks of the lines within the
window (`Covered`). It shares no state with `LogDirs`; its faults and restarts are
bounded by constants of their own, since one proof module is about both.

### WsSession and WsConnection

`WsSession` is the conversation as sets of items; `normalize` is split into
what it refuses, what replaces and what it merges, then `Stage`, `Commit` and
`RequireReplacement`. `WsConnection` adds the reader and the loop, each step
between two looks at shared state an action of its own: the reader's look at
`active_turn`, the budget, the mark and the cancel of an overflow; the loop's
take, start, stream, end, clear, check and settle. What a message says is
chosen when it is parsed.

### ResponseDecoder, MessagesEncoder, OpenAIEncoders and StreamCodec

The decoder and the encoders are deterministic, so they are operators that take
a state and return it with the events or frames they have added. Text is a
sequence of bytes, since stop sequences are found and withheld by bytes;
everything else is fragments. An event carries the block it is about as it was
at that moment, which is what the snapshot in the code is read for.
`ResponseEvent::validate` guards every encoder, and an encoder that refuses ends
the body. Each protocol has a client: Messages as the code's comments describe
one (blocks by index, signatures assigned and not appended, a frame for a block
that is not open is an error), Responses and Chat by their own frames.
`StreamCodec` lets upstream send any order of frames of a set, with a stop
reason anywhere and the end or an error at any moment, and runs the three
protocols side by side on the same events. Its histories are what upstream said:
the text of each block, the thinking as it closed, and `asked`, upstream's own
record of its calls, put together by ids and names without the decoder. The
calls of the decoder and of the three clients are compared with that record.

## 3. Runs

| run | instance | what it shows |
|---|---|---|
| `rate_gate` | 2 requests, period 4, guard 1, quota 1 or none, clock 4..9, 1 dropped sleeper | upstream's bucket never exceeds the quota; the file mirrors the latch; probes stay spaced and the deadline is kept, across restarts |
| `gate_timeline` | 1 request, ring of 3, 1 I/O failure | the reported ranges cover every latched tick the ring still knows and follow each other |
| `upstream_stream` | 2 connect attempts, 2 data frames, timers 1 < 2 < 3 < 4 | the stream implements `OneAnswer`; nothing lost, bounded exchanges, the right failure on record, bounded patience, an end |
| `stream_end` (violation) | same | an empty turn whose continuation fails ends without a terminal event |
| `stream_codec` | answers of 4 frames out of 18 kinds, 2 overlapping stop sequences, a character of two bytes | stop sequences are cut before they are told; no encoder refuses what the decoder makes; what a client adds up is the final message, and its calls are those upstream made |
| `token_store` | 2 requests, 3 tokens, 3 renewals or reloads | reads are serialised and converge, retries are newer, repairs return |
| `model_catalog` | 3 callers, 3 calls, TTL 1, cooldown 1, clock 3 | fetches are rationed, no caller gets an older answer than it could have, every call returns |
| `completion_server` | 2 requests on 2 connections, 1 permit | the drain covers every admitted turn, slots cover streams, record and metric agree, a request whose client is gone is settled |
| `request_log` | 2 producers, 2 completers, queue of 2, counter of 3 bits, 4 tasks, 1 failing write | drops and backlog are exact, the lines are complete and in order, the verdict stands, a flush is a barrier, `complete` returns |
| `log_dirs` | 2 requests, leftovers of a crash, 1 restart, 1 fault | a directory is one request's own, running ones are kept, eviction is fair |
| `log_index` | 4 requests, old lines, cap 4, 1 restart, 2 faults | no line is counted twice and none within the replay's window is missed; the newest line and the cap are kept |
| `ws_connection` | 4 messages, a queue of 1 with a budget of 1, transcripts of 3 items | one answer per message, an exact budget, the overflow is told, the session is made of completed turns and its requests are whole, a gone client is noticed |

**Why the bounds are enough.** The gate needs two sends for every race it has
(one late answer beside one admission) and a clock that crosses two window
boundaries; a period of four with a guard of one is the smallest that has two
sendable ticks and a dead zone on each side. The ring of three rolls over
within one latch. In the stream, two connect attempts tell "again" from "never
again", and two data frames are content followed by a stop or a failure after
either; frames without content are not bounded. The timers keep the order of
the constants (`KEEPALIVE < TAIL_GRACE < STALL < NO_PROGRESS`), which is all
the code relies on. Two requests and three token changes reach a reload in
each gap of a repair while the other waits for the lock. Three callers are a
leader, a follower that leads next and one that only follows. In the server a
second request on the only permit is needed to see a refusal beside a turn; the
requests do not otherwise touch each other.

Four messages reach a completed turn, a failed one, a refusal between and the
request that has to replace the conversation; a queue of one is full with the
second message and over its budget with the third. Two tasks fill the log's
queue, the third is refused; three bits of counter show the wrap. A cap of four
lines keeps two on a rewrite, which is the least that distinguishes the tail
from the last line. Four frames are a thinking block, something behind it, a
trailing signature and one more block; stop sequences of two and three bytes
over frames of one byte are split in every way there is.

**Symmetry and views.** `rate_gate` is symmetric in its requests and its view
drops the transition ring, which nothing reads there. `gate_timeline` drops
upstream's counters from its view, which the property does not read. `log_dirs`
is symmetric in its requests. Liveness is checked only in runs without symmetry.

**Deadlock** is checked in the runs whose models either never stop, or stop by
an explicit stuttering action (`Rests` in `CompletionServer` requires that
every turn is over, `Rests` of `ModelCatalog` that all calls were answered,
`RequestOver` in `UpstreamStream` that the stream ended, `Over` in
`StreamCodec`). `log_dirs`, `log_index` and `ws_connection` switch it off: no
request has to come, and a connection that has ended has nothing to do.

**Fairness.** `UpstreamStream`: the connect task, the steps of a poll, the
keepalive and the clock are weakly fair, because tokio polls a woken task and
its timers fire; a call is given up when its response headers are late
(transport.rs:640), hence `UpstreamAnswers` is fair too.
The reader calls `recv` again and again between other calls, which is strong
fairness of `RecvCall`. Frames, cancellation and drops are not fair. `TokenStore`: each repair is
weakly fair (the blocking read returns); no fairness of the lock, which is why
`RepairReturns` exempts a repair that others overtake for ever. `ModelCatalog`:
callers and fetch tasks, each of which has a timeout in the code.
`CompletionServer`: only what runs without the client or upstream (drops, the
completion task, the handler's synchronous tail). `RequestLog`: the worker thread, the flush,
each completer and the count that follows a send, all of which are threads or
tasks that run; offers are not fair. `LogIndex`: the rewrite and the replay
thread. `WsConnection`: the reader and the loop while they have something to
do, and the cut of a cancelled turn; the client and upstream are not fair.
`RateGate`, `LogDirs` and `StreamCodec` state no liveness.

### Known disagreements

Statements of the code's comments and documents that its behaviour does not
keep. Each is a property whose violation TLC finds; the first is the run
`stream_end`, the others have a configuration of their own that shows them.

| property | configuration | module | what the code says and does |
|---|---|---|---|
| `EndIsTold` | `MCStreamEnd` | `UpstreamStream` | `recv` is documented to deliver one terminal event and then `Ok(None)` (retry.rs:312). An empty `end_turn` finishes the decoder, takes the withheld start and throws the events away for a continuation; if that fails or is cancelled, `Ok(None)` is all the client gets. |
| `SilenceBounded` | `MCStreamSilence` | `UpstreamStream` | The stall timeout is documented as the longest silence allowed (retry.rs:68). It restarts at every poll, and the SSE body polls anew at every keepalive. `PatienceBounded` holds for readers that keep their poll. |
| `WaitersAreSleepers` | `MCGateWaiters` | `RateGate` | `waiters` is documented as the requests currently sleeping (gate.rs:156). A future dropped in its sleep is not subtracted, so the count stays too high. |
| `RepairFindsNewer` | `MCTokenRace` | `TokenStore` | `repair` is documented to return a newer token when one exists; the install compares tokens where it should compare generations. |
| `KeyIsBound` | `MCTokenKey` | `TokenStore` | The stream's `token_generation` is documented as that of its token and is read after the connect. |
| `WaitIdleCoversTurns` | `MCSlotRelease` | `CompletionServer` | `Admission` is documented to cover the whole request. `json_response` and `sse_response` drop it when they return without a body, before the record is written. |
| `KeptForDays` | `MCRetentionDays` | `LogDirs` | `retention_days` (config.rs:192, README:176) goes through `from_hours` (cleaner.rs:50): directories are removed after as many hours. |
| `CrashKeepsTail` | `MCIndexTail` | `LogIndex` | "A crash must not lose the tail" (debuglog.rs:936); the rewrite empties the file before it writes the tail back (reader.rs:567). |
| `InputIsComplete` | `MCCodecInput` | `StreamCodec` | The complete input of a call is said to have arrived in the deltas (messages.rs:1307). Arguments that are repaired at the end, or that belong to a verbatim call, were told as they came: the final message of the same answer has others. |
| `HighestClosesLast` | `MCCodecOrder` | `StreamCodec` | "The highest-index block always closes last" (messages.rs:729). Calls end only when the answer does, so text behind a call closes before it. |
| `CallsStayApart` | `MCCodecGlue` | `StreamCodec` | `find_tool` is documented to keep two calls apart by their names (response.rs:1478); a call with an id and another name is put into the last one when that still has none. |
| `CustomCallsAreCustom` | `MCCodecKind` | `StreamCodec` | "Custom/freeform call argument bodies are not JSON [...]: they go down as Responses `custom_tool_call` items" (responses.rs:1205). The kind is read when the call starts; one whose first verbatim delta comes later is streamed as a `function_call`, while the final message of the same answer has a `custom_tool_call`. |
| `ErrorsAreTold` | `MCCodecErrors` | `StreamCodec` | A failure is said to end the stream with an `error` event (messages.rs:1378). Redacted thinking without a signature makes the event itself invalid, and the body ends with nothing. |

`MCIndexReplay` checks the one liveness property of `LogIndex` (the readers of
the usage counts are not left waiting, `ReplayEnds`), which holds.

What `ClientsReadTheAnswer` leaves out follows from these. The final arguments
of a call that should be a JSON object and, as upstream sent it, is none, need
only be some JSON object; the clients have then been told upstream's bytes. The
id of a call that began without one is not compared in the stream. A call that
turns freeform after it began is expected in a Responses stream as the function
call it was opened as (`CustomCallsAreCustom`). The part of a signature that
comes after its block was closed with a first part (responses.rs:1024 rewrites
it in the final frame only), and redaction that is learnt after the close, are
not compared.

## 4. Proofs

**The gate.** `RateGateProofs` proves, for every set of requests,
configurations and hints, every period and guard with `2 * guard < period`,
every ring size and all the bounds:

- `TypeCorrect`: `Spec => []TypeOK`. The invariant `IInv` adds to the types
  that the clock is at least one period past the epoch (so that a window's
  opening is a natural number) and that a request being refused carries the
  clock reading of its refusal.
- `FileIsLatch`: `Spec => []FileMirrorsLatch`. Inductive on its own given the
  types: every branch of every action either leaves both the deadline and the
  file or moves both, and `Restart` takes the deadline from the file.
- `QuotaHolds`: `Spec => []UpstreamQuota`, within one estimate of the window and
  one life of the process, since `meter` starts again with either. The formula is not inductive: it
  says nothing about what the gate has counted. `QInv` adds that upstream's
  bucket, shifted by guard and skew (`LocalStart`), never starts after the
  gate's own bucket, that the latter is a window opening of some earlier
  instant, and that when the two coincide upstream has counted no more than the
  gate. An admission only happens inside the sendable interval, and
  `SendableInRealBucket` shows that this interval lies in one real bucket,
  whatever the skew within the guard. It rests on `OneBoundaryPerPeriod`: two
  instants a whole number of periods apart that lie in the same period are one.
  So a send either opens a new bucket on both sides or is counted on both
  (`SendQuota`).
- `DeadlineHolds`: `Spec => DeadlineIsKept`. What spaces the probes is the time
  of the last admission or reading, so the invariant needs two parts that the property
  does not show. `Sources` says that the parameters in force are those of
  some member of `Configs` after `normalise`, and that a noted refusal, the
  reading that set the deadline and the last send under it are past. `Quiet` is
  the instant the spacing counts from: the last send, or the reading if an older
  refusal has overtaken that send. `Held` says that, unless a file
  operation has failed, the latch in memory is the deadline upstream declared,
  and that the next probe is at least one drip after `Quiet`. The
  property names the shortest drip because a reload may change it between two
  probes; `SomeDripIsShortest` shows that there is one. That the latch only
  extends (`LatchExtends`) needs `FileMirrorsLatch` for the one step that sets
  it from outside, the restart.
- `TimelineHolds`: `TimelineSpec => []TimelineIsFaithful`. The invariant
  `TimelineInv` (`Told`) says what the ring tells: its transitions are in time
  order, an expiry follows the opening whose deadline it has and comes after
  that deadline, of two openings in a row the second has the later deadline
  (`Follows`), the last transition opened the latch in force (`LatchOnTop`), and
  every latched tick the ring still reaches lies under one of its openings
  (`AllTold`). `PushTold` keeps it through every kind of transition, with and
  without the roll-over. The replay is then followed transition by transition:
  `Current` is what holds of a replay after each (`WholeReplay`), and `Covers`
  is never lost (`ReplayCovers`). Both are inductions over the ring, made by the
  least transition at which they fail (`LeastNatural`), since the prover cannot
  instantiate the library's induction rules. By `LatchOnTop` the last branch of
  `latch_ranges`, a live latch whose opening has rolled out of the ring
  (gate.rs:799), is never taken: the opening of a live latch is always the
  newest transition.

**The stream.** `UpstreamStreamProofs` proves, for every value of the timers,
the connect attempts, the frames and the buffer, all the safety properties of
the run `upstream_stream` and the refinement. The invariant is built in layers,
each inductive relative to the earlier ones:

- `Struct`: the types, `Places` (which place of `recv_inner` or `drain_ready`
  goes with which fields: a stream that is neither finished nor resending is
  open, a consumer in the select has an empty queue) and `OneExchange`. The
  other layers are proved with one lemma per group of actions (connecting, the
  phases of a poll, the head, reads, the select's arms, returns, the rest).
- `Bounded` counts the rounds: one before the stream, one for the resend and
  one for the continuation, which is what bounds the calls
  (`ExchangesAreBounded`).
- `Telling` is about `Told`, what was delivered followed by the queue: it is a
  start and then content and an end of one send (`Grammar`), the start is told
  or still withheld but not both (`Starts`), and it holds all that was decoded
  (`ContentIsKept`). `NothingLost` alone is not inductive: that a queue may be
  cleared at a resend follows from the queue's being empty then.
- `Blaming` says that nothing but the gate's rejection is on record before the
  end (`BlameIsAlwaysRight`).
- `Watching` relates the silence measured from outside to what each running
  timer has left. A wait that is entered anew restarts the timers, but not the
  silence, hence the three cases of `Watches` (`PatienceIsBounded`).

`PromiseIsKept` is `Spec => KeepsPromise`: under the refinement mapping every
step of `UpstreamStream` is a step of `OneAnswer` or leaves its state alone. A
call, a delivery and the commitment to a send are each one step there; that the
kept send is the one whose content is delivered is `Grammar`.

**The server.** `ServerProofs`, which is also about the two stores that requests
share (the next two paragraphs), proves, for every finite set of turns
and every limit, the types and all safety properties of the run:
`SlotsAreAccounted`, `DrainCoversTurns`, `GracefulCutsNothing`,
`SlotsCoverStreams`, `MetricAgrees` and the action property `RecordsAreFinal`.
Their inductive invariant `IInv` has four parts. `Types` leaves the limit of
the permits out. `SlotsAccounted` is inductive with it: `TurnSteps` shows that
each step of a turn moves the counters by exactly what it gains or gives up
(`Settles`), `SlotCounted` that a held slot keeps the saturating count above
zero, and `Counted` turns both into cardinalities. `TurnInv` ties what a turn
has decided and recorded to where it stands (`Ordered`, `Recorded`); without it
the completion task could find a record already written, or a body without a
task. `DrainInv` says that once a waiter of the drain has seen the count at
zero no turn holds a permit, which stays so because the flag was up before the
waiter looked.

**The token store.** `ServerProofs` proves `ReadsAreSerialised` and
`RepairsAreSound` for every number of requests, tokens and reloads. `StoreInv`
strengthens `ReadsConverge` with `BindingsAreInstalled` (what a request is bound
to is a pair that was once installed), `KeysInRange` (the generation it is
checked by is neither behind its token's nor ahead of the store's) and
`ReadIsToken`. That a token stays the token of its generation (`Installs`) makes
whatever `repair` returns newer than what was refused.

**The model catalog.** `ServerProofs` proves `CatalogTypeCorrect`,
`FetchesRation` and `BestIsAnswered` for every finite set of callers and every
number of calls. `CatalogInv` has four parts. `LedOnce` bounds the fetches by
the calls: a call that may still lead (`Looking`) leads at most once.
`SlotInv` says that the slot is the newest fetch's and that whoever runs has
it, so that clearing the slot of a dead fetch never lets a second one run, and
that the cooldown is that of the last failure since a success. `AnswerInv`
compares what a caller could have had when it began with what is cached and
with what its own fetch has come back with. `StaleInv` says that a fetch runs
only past the catalog's time to live, which is what makes a cooldown imply that
a refresh of this very catalog has failed. Two lemmas carry the action
properties: whoever starts a fetch looked under the lock (`StartIsRationed`),
and models are handed out from the cache or by one's own fetch
(`CacheIsHandedOut`).

**The stop sequences.** The first part of `StreamCodecProofs` is about the
decoder's operators, not a specification: for every list of stop sequences and
texts of every length, `HoldbackIsEnough` shows that a search which starts
where telling stopped finds the same occurrences as one from the beginning,
provided that any stop sequence beginning in the told text would end in text
that was searched before (`Withheld`). `NewTextIsWithheld` and `FirstStopCuts`
show that a new block starts so and that each delta either keeps it so
(`SafeLengthIsSafe`) or cuts the block at the first stop sequence of the whole
text. By these, how upstream cuts its text into frames makes no difference to
where the answer is cut.

**The events.** `EventsHold` is `Spec => []EventsAreAccepted` for every set of
frames, every list of stop sequences and any number of frames in any order: the
refusals of the three encoders (messages.rs:862, chat.rs:778,
responses.rs:1033) are never met, unless the content itself is unfit. It is the
largest proof of the project, because decoder and encoders share no state: the
decoder has open blocks and tool states, each encoder its own blocks or items
with their pending stops. What they agree on is a *view* of the answer: the
kinds of the blocks so far, the text told of each, which text, thinking and
calls are open, and whether it is over. `InPlace` says which events fit a view,
`After` what they make of it. Then

- each encoder matches a view (`MsgMatch`, `RespMatch`, `ChatMatch`), does not
  refuse a valid event that is in place and matches the view after it, through
  every flush of what waits for a signature (`EncoderFollows`, `Telling`;
  `EncoderProofs` is this half, on which `StreamCodecProofs` builds);
- each operation of the decoder, begun in a sound state (`DecOK`) that a view
  sees (`Sees`), tells events that are in place and ends in a sound state seen
  by the view after them (`DecodeFine`, `FinishFine`, `FailFine`). `DecOK` has
  what makes this inductive: text and thinking are never open twice, no two
  calls share a block, every block of a call has one, and a wrapped call is a
  custom one, so that no empty name or id reaches an event;
- `CodecInv` says that between two steps the decoder has not finished and some
  view is matched and seen, or that it has finished and nothing was refused.

The encoders' flushes and the decoder's loops are recursive functions over
0..n, so that the steps of a loop follow by induction on the naturals. That
the first delta of a call names it is what upstream does (`NamesItsCalls`), and
that text is bytes and a flag a flag is `FramesAssumption`.

**The text.** `StopHolds` is `Spec => []StopCutsText` for every list of stop
sequences, every set of frames and any number of frames in any order
(response.rs:1186), until the Messages encoder has refused an unfit content.
`FirstStopCuts` is about one block and one delta; between it and what a client
reads lie the blocks of an answer, the other operations of a frame, and the
Messages encoder. Two relations bridge them.

- `Speaks` ties the decoder to the record of what upstream said: the buffer of
  the open text is all that was said of it and nothing beyond what must be
  withheld is (`Settling`); a text that was closed was told in full, or is the
  last one and was cut where the stop sequence on record begins
  (`ClosedSays`). Every operation either leaves what was said alone
  (`Carries`) or is told one piece more of one block (`UttersAt`), and
  `Listens` says that decoding a frame is one or the other, according to its
  text and to whether the answer is cut.
- `ClientMatch`, a part of what matching a view means for the Messages client,
  says that the client has of each text what the view was told of it, block by
  block, whatever waits in the encoder. As the view sees the decoder, what the
  client has is the told part of the buffer, or the closed text.

`StopInv` is `CodecInv` with both, `Readable` for the client and `Recorded` and
`Speaks` for the record. `Readable` has to survive the end of the answer, after
which no view follows the decoder any more: `Settled` is what a last event
leaves, a client that has everything, or an encoder that refused the unfit
content. `InvCuts` then reads `StopCutsText` off the invariant.

**The request log.** `RequestLogProofs` proves all safety properties of the run
for every queue depth, counter width and number of tasks. `VerdictStands` rests on
`OneCloser` (one caller is past the close, and there is no record until it
writes it) and `MarkFirst` (the abort is marked before the request is
cancelled, so a verdict reached by a cut request is the abort's).
`FlushReturnsLate` rests on `MetaFirst`: the entry meta is what the worker has
or does first, so that it is written before any barrier is met.
`CountsHold` needs to know how far the backlog may be off and why: `Backlog`
says that it is one short while a producer has sent and not yet counted and one
ahead while a flush has counted and not yet sent, modulo the counter's width
(`CounterTurns`), and that those two never happen together, since the handler
flushes before it shares the recorder. That the counter can hold a full queue is
`WidthAssumption`. `LogHolds` is about `Due`, what the worker has in hand
followed by the queue: it is in the order of offer (`DueInOrder`), comes after
all that is in the files and has what is not there yet (`LinesKept`), so that a
drained queue means complete files. `EndsLast` says that the worker ends only
on a queue that is closed and empty; that nothing is sent past that point needs
`QueueInv`, by which at most one barrier is due, and only while its flush waits.

**The log directories.** `LogFilesProofs` proves `DirsHold`, `RunningHold` and
`EvictionHold`, all properties of the run, and the types, for every finite set
of requests, any leftovers, policies and faults. `NamesInv` says that each name
in use is a leftover's or some request's, and that a request which collided has
passed over such names only (`Elsewhere`); counting them against `MaxSuffix`
(`NotAllTaken`) shows that `NextFree` always finds a name and that it is
nobody's. `PassInv` is why a walk spares what is being written: a directory the
copy of the active set lacks was named for an hour no older than the one before
the pass, which no age limit reaches. `EvictInv` follows an eviction along its
sorted list: what it has considered is gone, or a protected failure scene, or
its removal failed; the surplus of failure scenes is counted off with the list,
and the running total is the size of what is left (`OneLess`). That the list
has a first element at all is `OldestIsFirst`.

**The log index.** `LogFilesProofs` also proves `TailIsKept` and
`LinesAreCountedOnce` (of the lines within the replay's window) for every cap of
four or more and every number of lines and faults.
`TailInv` adds to the property that the writer's idea of the file's length is
never above the length (a failed flush leaves it below), and that what a
rewrite is about to write back ends with the newest line. `CountInv` adds that
no line is in two places of file, buffer and to-do (`LinesApart`) and which
lines are counted at each stage of the replay (`CountsApart`); a new line pushes
old ones out of the window and brings only itself in (`CoveredAppend`), and a
rewrite keeps lines of the window only.

**The WebSocket connection.** `WsConnectionProofs` proves all safety properties
of the run for every capacity and budget and any number of messages.
For `OverflowsAreTold`,
`OverflowInv` says that once the connection is cancelled the reader has no mark
left to set, so that a turn that was cut reads the final one. For
`AnswersAreOne`, `AnswerInv` is
`OrderInv` (numbers grow from the reader through the queue to the loop) with
`DebtInv` (all that was taken is answered, but for the message in hand); each
is needed for the other: that the message in hand is not answered yet follows
from its number being above all earlier ones. `BudgetHolds`: what the
property does not say is that a message waiting to be sent has passed the limit
with the queue as it was then, which the loop can only have shortened since
(`BudgetInv`). `FailuresAreForgotten` and `RequestsStayWhole` come from
`TalkInv`: the conversation between turns is made of completed turns and every
call in it has its result, the demand for a replacement is the session's own
while no turn runs, and `StagedWell` is what makes a staged request fit to
become the conversation when its turn completes.

The assumptions are those of the modules, named `...Assumption` where the
constants are declared: that periods, depths and limits are positive numbers,
that the sets of actors are finite where they are counted and that the log's
counter can hold a full queue. TLC evaluates them in the runs.

**Only model-checked**: that the clients of all three protocols end with the
decoder's answer (`ClientsReadTheAnswer`: `ClientMatch` has the texts of a
Messages client; the calls, the thinking and the other two clients would each
take a relation like it between the deltas told and what the client has added
up); and all liveness (`StreamEnds`, `RepairReturns`, `CallsReturn`,
`GoneIsOver`, `GoneIsNoticed`, `CompleteReturns`), which with fairness and
ENABLED is out of the prover's reach.

## 5. What is left

In the order in which it would add most:

1. The composition of gate, token store and stream for two requests, with the
   gate's and the store's answers no longer free.
2. The bind phase of the lifecycle (retries, the marker, the reload) and the
   assignment cache of the catalog, which is cleared as a whole at its cap.
3. Pure algorithms against a reference: the pairing of tool calls with results
   (`upstream/request.rs`), the merging of adjacent turns
   (`domain/request.rs`), the reservoirs of `debuglog/usage.rs`.

## 6. Not modelled, and why

The contents of messages, models and tokens: they are versions, kinds or model
values wherever no property distinguishes more. The wall clock is an integer
that does not go backwards, although `SystemTime` may. hyper's flushing of a
finished body is outside the code; a turn ends when its body ends. Request
decoding, usage and the fields of a frame that are no content are left out of
the codecs. Panics and
poisoned locks are not modelled, except the catalog's fetch task that dies,
which the code handles. The transport's connection pool, TLS, proxies, the
panel's pages and the offline tools are I/O or stateless.

Nearly nine tenths of the lines under `src/` are the generated protocol buffers
(`crates/devin-proto/src/generated`), which are data types and their encoding;
of what is written by hand, the acceptance harness and the offline tools are
not part of the service, and request decoding, the panel and configuration are
stateless. The models cover the parts that keep state and change it.
