# Verification of rpc-it

`rpc-it` is a Rust library for asynchronous RPC over any framed transport. This directory holds
TLA+ models of its core, the TLC configurations that check them on small instances, and proofs
for every value of the constants. Paths are relative to the root of the repository.

## The system

| Component | State | Operations | Interacts with |
|---|---|---|---|
| pending requests (`src/rpc/req_rep.rs`, `RequestSender` in `sender.rs`) | `wait_list` (id -> `Waiter`) under a mutex, `expired` flag, per waiter a response slot under its own mutex and an `AtomicWaker` | `encode_request` / `send_request`, `ReceiveResponse::{poll, try_recv, drop}`, `set_response`, `set_request_write_failed`, `mark_expired` | callers; the reader stores responses; the writer reports failures and expires the table |
| write half (`write_runner` in `core.rs`, handles in `sender.rs`) | the bounded directive channel, the loop's exit type, the transport | `send_notify`, `burst`, `send_request`, `flush_writer`, `shutdown_writer`, their `try_` forms, dropping a handle; one branch of `write_runner` per directive, and its end | handles through the channel; pending requests at its end |
| connection lifetime (`core.rs`, `receiver.rs`) | strong and weak references to `RpcCore`, `r_wake_on_drop` | cloning, upgrading and dropping handles, `Receiver::recv` and its `Drop`, `into_weak_runner_task`, `Drop for RpcCore` | both runners hold weak references and upgrade them for a moment |
| in-memory transport (`src/io.rs`) | a lock-free queue, a counter of free places, a closed flag, two `AtomicWaker`s | `poll_ready`, `start_send`, `poll_close`, `poll_read_frame`, both `Drop`s | a writer task and a reader task |
| inbound requests (`receiver.rs`) | an atomically taken request id | `response`, `try_response`, `take`, `clone_message`, `drop_request`, `Drop` (answers Unhandled) | the directive channel |
| receive task (`receiver.rs`) | the bounded queue of `split_recv_task` | `handle_inbound_once`, pushing to the queue, its end | pending requests, inbounds, handlers |
| router (`src/macros/route.rs`, `macros/src/gen_route.rs`) | a list of handlers and a map from paths to indices | `push_handler`, `try_add_route_to_last`, `pop_handler`, `route`, generated `install` | inbounds |
| codecs (`src/codec.rs`, `src/ext_codec/`) | none | encode and decode requests, responses, notifications; error codes; ids | all of the above |
| macros (`macros/`, `src/macros/`) | none at run time | code generation, typed views of an inbound | router, inbounds |

The hard part is concurrency without a central lock. The table's mutex, each slot's mutex, the flag
and the wakers are taken one after the other by three parties; the channel is shut by handles and by
the runner; the core is dropped by whoever lets go last, which may be a runner inside its own poll;
the pipe has no lock at all. What must hold, part by part:

- *pending requests*: an answer reaches the call it answers and no other; a sleeping call is woken by
  an answer, a failed write or an expiry; the table holds exactly the live handles; nothing registers
  after the expiry.
- *write half*: frames are written once, in the order they were accepted; a graceful end leaves none
  behind; after a shutdown nothing is accepted; a runner that ends closes the channel and then expires
  the requests, so that behind it no frame is accepted or written (the drop of the `Receiver` may expire them
  earlier); nobody waits for ever for room in the channel.
- *lifetime*: when the last handle is dropped both runners end, whatever they were doing; they never
  keep the core alive themselves, and never report a drop that did not happen.
- *pipe*: no frame lost, doubled or reordered; the counter exact; nobody sleeps on news.
- *inbound requests*: a request is answered at most once, and given up only for a reason one can name; the
  right to answer is never in two hands, nor left in a dropped one.
- *receive task*: responses are not held up by more than the inbounds in front of them; the task ends when
  nobody receives, and leaves no request in the queue.
- *router*: a path leads to the handler it was registered for; `install` and `direct` agree.
- *codecs*: ids, error codes and objects survive the round trip.

`PROJECT.json` lists the hazards behind these, each at its line.

## Modules

| Module | Models |
|---|---|
| `RequestContext` | the table of pending requests and everybody who touches it |
| `RequestPromise` | what that promises a caller, without locks, wakers or a channel; `RequestContext!PromiseKept` is the refinement |
| `RequestContext_proofs` | theorems about `RequestContext` |
| `WriteRunner` | handles, channel and `write_runner` |
| `Outbox` | what the write half promises, without a channel; `WriteRunner!OutboxKept` is the refinement |
| `WriteRunner_proofs` | theorems about `WriteRunner` |
| `Connection` | references to the core, the reader's `select!`, the upgrades of the writer |
| `Lifetime` | what that promises, without references held for a moment or wakers; `Connection!LifetimeKept` is the refinement |
| `Connection_proofs` | theorems about `Connection` |
| `InMemoryPipe` | the in-memory transport |
| `FramePipe` | what that promises, a bounded queue with two ends; `InMemoryPipe!FramesKept` is the refinement |
| `InMemoryPipe_proofs` | theorems about `InMemoryPipe` |
| `Codec`, `Codec_proofs` | what the three codecs make of ids and answers, as functions, and theorems about them |
| `Inbound` | `split_recv_task`, the request token, and answers on their way to the writer; uses `Codec` |
| `AnswerOnce` | what that promises the peer; `Inbound!AnswerOnceKept` is the refinement |
| `Inbound_proofs` | theorems about `Inbound` |
| `Service` | what the `service` macro makes of its attributes, as functions |
| `Router` | `RouterBuilder`, `Router` and the generated `install`; uses `Service` |
| `Router_proofs` | theorems about `Router` |
| `MCRequestContext`, `MCWriteRunner`, `MCConnection`, `MCInbound`, `MCRouter` | instances for TLC (`InMemoryPipe` needs only its constants) |

Operators marked *Slip* in the modules are plausible errors of the code next to which they stand:
each checked property is violated when one of them replaces the action that follows it.

### RequestContext

`pc[c]` is the place of a call in the code: `idle` (about to make an attempt in `encode_request`),
`allocate` (encoded, not registered), `send` (registered, not in the channel), `held` (its owner has the
`ReceiveResponse`), `poll` and `pollExpired` (inside `poll`, before the slot and before the flag is read),
`parked` (`Poll::Pending` returned), `tryExpired` (inside `try_recv`), `unregister` (result decided, entry
still there), `done`. `wpc` holds the places of reader and writer. Every access under a lock of its own is
one action, so a response can be stored between a poll's look at the slot and its look at the flag, and a
handle can be dropped between the reader's lookup and its store. Only `mark_expired` keeps the `wait_list`
mutex over several steps (`lockedBy`, one `WakeOne` per waiter). `TakeReady` stands for `Receive::poll`,
which `poll` and `try_recv` share.

Data: an id is a model value; a response is named by the call whose frame it answers (`answer`, `got`); the
peer may answer any written frame, any number of times, in any order. The retry of `encode_request` appends
to the buffer of the failed attempt, hence `frame[c]`, the id found in the bytes, is that of the first
attempt (for a codec that reads one message; JSON refuses the whole). The channel is unbounded here and
`SendFails` is always possible; `WriteRunner` has the bounded channel. `is_expired` (Acquire) and the SeqCst
accesses are sequentially consistent steps. `Abort` drops the future of `write_runner`: its end of the channel
goes and nobody expires the table, so the calls that sleep then are not woken by it.

`RequestPromise` has a status for each request and names who may settle it and how: `Answer(c, d)` hands `c` the
answer to the frame of `d`, which was written, and is `c` itself unless `d` was settled or encoded twice; `Closed`
is said after an expiry, or of a request whose own write failed and whose frame did not go out. `try_recv` may say
`Closed` and leave the owner its handle (`Tell`): the request is `told` then, and an answer or an end can still settle it.
A poll of a handle that was emptied before returns an error and changes nothing; it is no step.

### WriteRunner

A frame is `<<handle, number, place in the burst>>`. `Send`/`Accept`/`Refuse`/`GiveUp` split a send at the
point where it may wait; the two halves of `shutdown_writer` are `Accept` and `CloseChannel`. `wpc` follows
the branches of `write_runner`; `lost` counts requests whose write failed when no handle was left (the
`continue` of the `WriteReqMsg` branch). `WriteMsgBurst` is written frame by frame (the default
`write_frame_burst`), so a failure in the middle is possible. As above, `Abort` drops the future of the runner at any of
its awaits: the receiving end of the channel goes, the rest of the function does not happen. A flushing
shutdown ends without closing the transport because the close after the loop is guarded by an exit type that
cannot occur there. `alive` are the holders of the core: the handles and the `Receiver`, which lets go of it when it
is dropped, and then `Drop for Receiver` expires the requests with the channel open and the runner writing
(`DropReceiver`), or in `into_weak_runner_task`, and then nothing expires (`WeakenReceiver`). `ExpiryInOrder` names
these two callers of `mark_expired` and says what follows for the frames. `MaxSends` bounds each handle by itself. `accepted`, `shutdown` and the field `at` of a directive (how many frames the channel had
taken before its own) are history. A notification is a burst of one frame, so the instance leaves it out.

### Connection

`strong` is the set of holders of the `Arc`; `Release` of the last starts the drop in the thread of the
holder (`dropper`), which then does `Drop for RpcCore` (`CoreWakes`) and drops the fields (`CoreCloses`, the
sending end of the channel). `todo` is the set of `select!` branches not polled yet in this poll, so both
orders occur. `Recv` and `HandleInbound` may leave an `Inbound`, a new owner. `NewHandle` covers `clone`,
`create_notify_sender` and the upgrade of a weak handle. Frames and directives are counted only. An I/O error of `read.next()` ends
the reader like the end of the stream. `AbortReader` and
`AbortWriter` drop the future of a runner where it waits; it holds no reference there, and of the reader only its waker stays
registered.

`Lifetime` keeps of this who may use the core, whether the channel and the requests are open, and how each
runner ended. Its `holders` are the owners and the `Receiver`; a runner that has the core in hand only delays `Collect`, and
that it never revives it is part of what the refinement shows.

### InMemoryPipe

One action per access to the queue, the counter, the flag or a waker, in the order of the code; `room1` and
`closed1` are the first look of `poll_ready` and `poll_read_frame`, `room2` and `closed2` the one after the
waker is registered. Most of these accesses are `Ordering::Relaxed` in the code; the model is sequentially
consistent. `refused` and `asked` are history: that a send was refused, and how many frames had been pushed when the
reader last began to look. `FramePipe` is a queue with a capacity, a sender and a reader, in which a
frame is put, taken, or refused, and either end closes. Both sides meet in `AtomicWaker`, whose register and take synchronise, and what is checked of a
sleeping side depends only on what the other wrote before that.

### Codec

A frame is a record of the parts a decoder looks at. `RequestId` is the id `encode_request` returns, `RawId`
the bytes of it in the frame, `CanAnswer` whether `encode_response` can read it; `JsonEncode`, `MsgpackEncode`,
`RawEncode` and their decoders are the two sides of an answer. `Says` is what a caller may expect of it; the
two exceptions are in operators of their own: `ReadAsSuccess` (an error object that serializes to nil, in
MessagePack) and `SameErrc` (JSON-RPC has one number for three error codes), and it is asked only of ids for which
`CanAnswer` holds; `AnswerableIds` says which these are. Widths are scaled: `IdMax`,
`WordMax` and `ShortMax` stand for 64, 32 and 16 bits. An object is opaque, so one that happens to be
a pair headed by the text of an error code, which MessagePack takes for that code, is not among them.

### Inbound

`net` is what the peer will send, in any order; `rpc` is the place of the task: reading, waiting to `push`,
or dropping what the queue still holds. `token[o]` says that the atomic `req_id` of inbound `o` is not 0.
`job[a]` is an answer that thread `a` has encoded and not sent, the state between the swap of the token and
the channel's reply: here it can be lost (`LoseAnswer`: a closed channel, a full one in the `try_` form, a
dropped future). `take` and `clone_message(true)` are one action, `NewInbound`: the token moves to an inbound
made of the same request (`<<request, number>>`). `take` needs an exclusive reference and `clone_message` does
not, so the action allows both. `DropInbound` needs that nobody else uses the inbound. Items dropped with
the queue are dropped one by one by whoever lets go of it last (`drainer`). `lost` and `dropped` are history.

The refinement names each way to leave a request without an answer: the id cannot be repeated (an id of the
peer below 2^16 in MessagePack), the answer was not taken by the channel, `drop_request`, or a method that is
not UTF-8, of which no `Inbound` is made. The documentation of `response` says that a second answer panics;
the code returns `InboundNotRequest`, which is a step that changes nothing here.

### Service and Router

`Service` has the code generator's functions: `MethodName`, `GenerateTargets`, `RouteStrs`, `Compiles`, and
what the generated code does with a message, `HandlerResult` for `install` and `MatchIndex`/`DirectResult`
for `direct`. `DocPaths` is what its documentation says of the paths. `Router` has the builder: `funcs` and
`table` are the code's vector and map; an `install` under way is `plan`, and each of its calls one step, with
every answer of `on_route_error`. `AddRouteToNone` is `len() - 1` on an empty vector, a panic or, where
overflow is not checked, the index `Wrapped`. `promised` and `clean` are history: which handler a path was last
registered for with `Ok`, and whether nothing was refused or popped so far.

## Runs

| Run | Instance | Shows |
|---|---|---|
| `RequestSafety.cfg` | 2 calls, 2 ids, 2 attempts, symmetry; 987 000 states | type, `RegistryExact`, `NoLostWakeup`, `SlotNotTaken`, `AnswerIsOwn`, `WriteFailedIsUnsent`, `WriterLeavesNobody`, and the refinement `PromiseKept` |
| `RequestLiveness.cfg` | 1 call, 1 id, with fairness | `ExpiryReleases`, `NewsReleases`, `WriterExitReleases` |
| `Write.cfg` | 2 handles and the `Receiver`, channel of 2, 3 directives of one handle and 1 of the other, all kinds, with fairness; 540 000 states | type and capacity, `ExitSeals`, `ShutdownIsFinal`, `ExpiryInOrder`, the refinement `OutboxKept`, `ShutdownCompletes`, `SendersReleased` |
| `Connection.cfg` | 2 owners, 2 frames, 2 directives, with fairness; 164 000 states | type, `RestMeansEnded`, the refinement `LifetimeKept`, `OrphanEnds` |
| `Pipe.cfg` | capacity 2, 5 frames, with fairness; 13 000 states | type, `SemaphoreExact`, `NeverSpins`, `NoLostWakeup`, `NeverBothAsleep`, the refinement `FramesKept`, `FramesArrive`, `SenderReleased`, `EndReached` |
| `Inbound.cfg` | 2 requests with 2 inbounds of one of them, an unreadable request, a response, 2 threads, queue of 1, channel of 1, JSON-RPC and MessagePack, with fairness; 142 000 states | type and capacities, `OneOwner`, `AnswerReadBack`, the refinement `AnswerOnceKept`, `ResponsesPass`, `TaskEnds` |
| `Router.cfg` | 3 constants that compile and 2 that do not, 1 handler by hand, 5 paths, 4 calls of the builder; 760 000 states | type, `LeadsRight`, `InstallServes` |

Some definitions are in no configuration because one that is implies them: `InOrder` and `EndMissesNothingOld`
follow from `FramesKept`, `ExitIsTrue` and `WriterSeals` from `LifetimeKept`, and a run that violates `DropSignalled`
or `RunnersLetGo` comes to rest too early, against `RestMeansEnded`. They are theorems of their own.

Bounds. Two calls and two ids allow a collision, a reuse of an id while the old request is still queued, and
an answer to the old request that meets the new one; two attempts let a retry succeed and fail. Liveness
concerns one call against two runners; the other calls only take the mutex from it, which the strong
fairness of `Running` answers. That a failed write leaves nobody behind who is queued after it is checked, and proved,
as safety (`WriterLeavesNobody`, `NoLostWakeup`) with two calls and for any number; with two calls the liveness
run takes too long. A channel of two holds a close directive and a message behind it. Four directives fill it with
one more in the runner's hand and one waiting for room; both handles send, one of them up to three times. Two owners allow one to be dropped while another is made. Five
frames through two places fill and drain the pipe more than once. Two threads and two inbounds of one request
are enough for every pair of takers of one token; one request has a wide id that MessagePack cuts down, the
other a narrow one that it cannot repeat; a queue and a channel of one are full after one item.
`AnswerReadBack` ranges over all codecs and answers in every state, whichever codec the connection has; rawrpc
is not among the codecs of the run because it behaves there as JSON-RPC does. Four calls push, route, pop and
push again, or install twice; the service is that of `tests/macro_wip.rs` cut to two methods and one without a
receiver. Deadlock is not checked: every instance comes to rest when its bounded work is done.

Five runs end in a counterexample, each of one statement of the repository:

| Run | The code | The statement |
|---|---|---|
| `RequestReaderStops.cfg` | the reader of a client ends and nothing expires the table (`into_weak_runner_task` took the core, so `Drop for Receiver` does nothing) | `mark_expired` "is called when the connection is closed" (`req_rep.rs:362`) |
| `WriteGracefulClose.cfg` | the transport is not closed after `CloseAfterFlush` | "then will close the writer" (`sender.rs:155`) |
| `PipeLastFrame.cfg` | end of stream with a frame in the queue | `next` returns `Ok(None)` "if it was gracefully closed" (`io.rs:49`) |
| `InboundUnitError.cfg` | an error object that serializes to nil is a success to the decoder (`msgpack_rpc.rs:134`, `:225`); methods without an error type answer errors with `()` (`gen_func.rs:412`) | an error code "presents" when "the response is an error response" (`codec.rs:232`) |
| `RoutesDocumented.cfg` | `no_default_route` clears the routes listed next to it (`gen_route.rs:73`) | "Do not generate default route for methods listed in this router" (`macros/src/lib.rs:106`) |

Other deviations the models contain and no run is spent on:

- `try_recv` says `Closed` of a handle in which the reader stores the answer at the same time, and the next call
  returns it ("There's no possible way to receive the response", `req_rep.rs:160`).
- The `Receiver` that is dropped expires the requests while the writer writes on: a call is told `Closed` and its frame
  may go out afterwards. A client never gets there (its reader is `into_weak_runner_task`); `build_server` leaves the
  `Receiver` to the user.
- The automatic answer to a dropped request is lost when the channel is full (`receiver.rs:648`), and a request whose
  method is not UTF-8 is not answered at all (`receiver.rs:298`).
- The retry of `encode_request` appends to the buffer of the failed attempt (`sender.rs:293`), so the frame
  carries another id than the one registered.
- `rename_all` is applied to a name that is still empty (`gen_func.rs:74`), and `name_prefix` and `route_prefix`
  are stored and never used (`macros/src/lib.rs:283-286`); `DocName` and `DocPath` say what they should do.
- A peer whose MessagePack request ids are below 2^16 gets no answers (`msgpack_rpc.rs:311`).
- Routes of a popped handler, and a path that was refused with an error, lead to the handler pushed next, or
  to a panic when there is none (`route.rs:96`, `:103`).
- A runner whose future is dropped closes the channel and expires nothing: calls that sleep stay asleep.

## Fairness

Runners are spawned futures and futures do not stop between two accesses, so a step that only continues a
method is weakly fair, and strongly fair where it needs the `wait_list` mutex, which others may hold each
time it looks (parking_lot hands a mutex over eventually). A woken task is polled again: that is the contract
of an executor. A transport answers each write, with success or not. A waiting sender of the channel gets
room that appears again and again (async_channel notifies its waiters in order). Nobody is assumed to make
calls, answer, poll unasked, drop a handle, close anything or stop a runner. In `Inbound` the task is a spawned
future and what the peer sends arrives unless the stream ends first; a waiting push or answer finds room that
appears again and again, a refused one returns, and a drop does not wait. That the queue has room again and
again is the hypothesis of `ResponsesPass`, since no handler has to receive. `WriteRunner` assumes nothing of
`Abort`, and every liveness property there holds with it. The refuted liveness
(`ReaderStopReleases`) is checked under the same fairness.

## Proofs

Seven proof modules, for any set of calls, ids, handles, owners, requests, threads, services and paths, any
capacity and any number of frames. Each of the six about a state machine states an inductive invariant `IInv`,
proves `Init => IInv` and `IInv /\ [Next]_vars => IInv'` with one step per action, and derives the theorems
from it.

- `RequestContext_proofs`. The properties are not inductive: `RegistryExact` needs that an id is set once a
  call has been encoded (`EncodedInv`); `NoLostWakeup` needs that a call has a waker or was woken from its
  registration on (`WakerInv`) and what each runner still has to do (`RunnerInv`, `LockInv`, `NewsInv`);
  `SlotNotTaken` and `AnswerIsOwn` need `SlotInv`, `AnswerInv` and `TriesInv`, which say what the reader's captured
  waiter may be and when a frame has its call's id. `WriterLeavesNobody` rests on `LeaveInv`: whoever slept when
  the table expired was woken or is still in `toWake`, so a writer that finds the flag set and the mutex free has nobody left to wake.
  `WriteFailedIsUnsent` rests on the order of the channel: a live call that uses the id of an
  abandoned request is queued behind it (`OrderInv`), and the writer stops at its first failed request
  (`FailedInv`). `PromiseCorrect` is the refinement: every action maps to a step of `RequestPromise` or to a
  stutter (`PromiseStep`), from these invariants and `SentInv` (what was written had not been refused).
- `WriteRunner_proofs`. `ControlInv` says when the channel must be closed at each place of the runner, and
  with it `ExpiryCorrect` that requests expire behind a closed channel or with the `Receiver`; `PlaceInv` that the directives in the channel are the last of the accepted frames, in a row, from where the
  runner is (`Front`, `Chained`). With it every write is a step of `Outbox`, and an empty channel means that
  nothing accepted is left (`OutboxCorrect`).
- `InMemoryPipe_proofs`. `RoomInv`: a sender that found room still has it, since only itself takes places
  away; with the exact counter it gives `NeverSpins`. `InOrder` is carried together with `CountInv` (`OrderStep`); `NewsInv` is
  `NoLostWakeup` from the moment the last look has passed. `DeadlockFree` joins the wake-ups of both sides with
  the exact counter: a sender asleep means a full pipe, a reader asleep an empty one. `EndCorrect` is
  `AskedInv`: a reader that found the queue empty has what was there when it asked. `FramesCorrect` maps every
  step to one of `FramePipe` (`FramesStep`), with `EndInv`: the one closed flag tells either side of the other's
  going only, since a side that has set it looks at it no more.
- `Connection_proofs`. `HoldersInv` ties each runner's reference to one stretch of its code, and the core to
  the holders; `WatchInv` says that from the registration on the waker is in place until the drop takes it
  and leaves the task woken; `SealInv` follows the writer's end, and says that a core that has gone leaves a
  closed channel. `RestCorrect` is the safety half of `OrphanEnds`: nothing of an abandoned connection stops
  short of its end, so weak fairness is all that liveness still needs. `LifetimeCorrect` is the refinement (`LifeStep`);
  `RunnerRefs` and `HandleRefs` say what taking and letting go of a reference does to the holders.
- `Codec_proofs`. `IdCollision` and `AnswerableIds` say which ids meet and which cannot be answered, exactly.
  `ReadBack` goes codec by codec: the id (`IdRepeated`), the error codes, then the frame.
- `Inbound_proofs`. `OneOwner` is inductive with `ReadInv`: nothing has been made of a request that was not
  read, and what is in the queue or on its way to it was made. The lemmas `...Rights` say for each kind of step how
  the right to answer moves, for all requests at once; `NextStatus` turns that into steps of `AnswerOnce`.
  `AnswerCorrect` rests on `ReadBack`.
- `Router_proofs`. `Led`: what a path was promised is where the map leads. `InstalledInv` and `PlanInv`: while
  the builder is clean, every route of an installed constant, or of an `install` as far as it has come, is
  promised to its own target; a route that was free cannot have been promised to another. `InstallServes`
  follows with `Compiles`, by which no path occurs twice in a constant.

Assumptions: the named `ASSUME`s of the modules only. Special values are not calls, ids, handlers or inbounds; the `Receiver` is not a handle;
capacities and the number of attempts are positive; the widths of ids are ordered; the routes of the constants
that compile are sequences of paths.

Model-checked only: all liveness properties. Every invariant, action property and refinement of the passing
runs is proved.

## Not modelled

- Memory orders weaker than sequential consistency, in all modules.
- The task of `split_recv_task` is not dropped before it ends. The futures of both runners are, in `Connection`,
  `WriteRunner` and (the writer's) `RequestContext`.
- An answer whose own serialization fails: it loses the token like one that cannot be encoded. The bytes of a
  failed encoding stay in the caller's buffer.
- Typed views (`CachedNotify`, `CachedWaitResponse`), which keep no state; the dynamic codec, which forwards.
- Byte layout, formatting, `Debug` output, user data, packet reuse.
- Read-only cores: without a channel or a table there is no state. `create_notify_sender` of one gives a handle
  whose channel is assumed to exist (`sender.rs:121`).
- Code generation beyond names, routes and refusals: types, visibility, `ALL_PASCAL_CASE`, `type_util`. An arm
  of `direct` without a route is not Rust; `Compiles` refuses it.

## Plan

1. Done: `RequestContext`, `WriteRunner`, `InMemoryPipe`, `Connection`, `Codec`, `Inbound`, `Router`, each with its
   run, its abstract specification where there is one worth stating, and its proofs; aborted runners.
2. Next: one module from end to end, composed of `RequestPromise`, `FramePipe` and `AnswerOnce`: the answer a caller
   gets was made of its own request, by the one who had the right to it.
3. After that: `Inbound` composed with `WriteRunner` in place of its one-line writer, and notifications next to
   requests in the queue.
