# A TLA+ model of nnrp-py

nnrp-py is the Python SDK of the NNRP protocol. A native runtime (a Rust
library behind ctypes) does the wire work for the *native* roles; Python keeps
sessions, correlates operations with frames, moves events from the native queue
to the application, and makes all of it usable from threads and from asyncio.
Beside it stands a pure-Python packet transport (TCP, QUIC) with its own client
and server sessions. What is hard in this code is neither the byte layouts nor
any single call: it is that several threads, executor workers and asyncio tasks
share one event source, one table of bindings and one terminal reply per
operation, and that cancellation, timeouts, failures and close may come between
any two of their steps.

## Inventory

| Component | State | Operations | Hard parts | What makes it correct |
|---|---|---|---|---|
| Native client session (`native.py`, `NativeRuntimeSession`) | `_closed`, `_pending_events`, `_operation_frames`, `_poll_lock`, frame and control counters | six receiving calls, submit, cancel, operation-scoped controls, close | several threads; filters that retain events; submit and its binding are two steps; close against polls | each event reaches one caller, in order; a binding lives from submit to the evidence of the end |
| Async submit and wait (same class) | two flags under `dispatch_lock`, `cancellation_requested`, two executor tasks | `async_submit_operation`, `async_submit_and_poll_result` | cancellation at every await, more than once; deadline against result | nothing is sent after an early cancel; a late one cancels natively; every call ends |
| Native server session (`NativeRuntimeServerSession`) | `_pending_events`, `_operation_frames`, `_poll_lock`, `_closed` | `next_event`, `receive_submit`, `poll_events`, `poll_runtime_frames`, `close` | waits that hold the lock; selective receive; batches with bad events | nothing decodable is lost; order is kept; accepted operations stay answerable; close returns |
| Server operation (`NativeRuntimeServerOperation`) | `_terminal_reply_started`, its binding | `send_result`, `send_result_drop`, `send_progress`, `send_partial_result` | replies from several tasks; cancellation during a native send; retry after failure | one terminal reply; a settled send before the call returns |
| Policy dispatcher | `_futures`, `_closed`, `_first_error` | begin, evaluate, complete, close | callbacks against close | each request is completed once; close reports the first error |
| Native server (`server/native.py`) | listeners, sessions, accept tickets, `_accept_lock` | accept, close, listen with rollback | close does not take the accept lock | no session survives the server |
| Native transports and handles | ownership flags of native handles | probe, connect, listen, adopt, close | adoption half way; double close | each handle is closed exactly once |
| Native client connection (`client/native.py`) | sessions, bounded sets of suppressed operations | open, submit, abort, close | late results; a failing close | a late result is suppressed; close closes everything |
| Packet client (`client/transport.py`) | session state, frame ids, migration state | handshake, submit, receive, migrate | validation before an await, switch after it | the session id is the one the server chose; no frame id is used twice |
| Result router (same file) | one queue per frame, `_task`, `_error`, `_closed` | enter, receive, close, the task | the task ends while receivers wait; one sentinel per queue | results in order per frame; every receiver wakes |
| Packet server (`server/transport.py`) | its session id | accept, handshake, receive, send results and controls | errors half way through the handshake | no submit of the own client is refused; a failed handshake closes the connection |
| TCP and QUIC adapters | reassembly buffers, queues, terminal error | send, receive, close | fragmentation, resets, timeouts | each packet is delivered once and in order |
| Ordered result buffer (`tools/ordered_buffer.py`) | heap, dict, event | add, pop, wait | several waiters, timeouts | a waiter whose frame is there wakes |
| Transport selection and role start (`_native_routes.py`, `client/native.py`, `server/native.py`) | the handles made so far | resolve, probe, compare, connect or listen, adopt | any native call may fail; several tables decide who is eligible | nothing is leaked; a secured application stays secured; the best candidate is taken |
| Codecs (`core/`, `schema.py`, `runtime/`) | none | pack, unpack, build, validate | lengths, bounds, offsets; two descriptions of one body; tables of message types | what is written is read, what is read can be written, the rest is refused |
| Value types, façade, tools | none | none that change shared state | - | - |

Within a native role components interact by calls: the server session creates
operations and gives them out with their submit events; an operation calls back
to its session to send and to be forgotten; the async calls run the synchronous
ones on executor threads; every session takes its events from the native queue.
The packet roles exchange messages over a connection, whose reader task feeds
queues that sessions and the result router wait on.

`PROJECT.json` lists each component with its status, and the hazards with the
line where each bites and the property that would catch it.

## Modules

| Module | Models |
|---|---|
| `EventQueues` | the one-pass split of a list of events into taken and retained, by index sets |
| `NativeSession` | the client session as threads use it |
| `ServerSession` | the receiving side of a server session |
| `TerminalReply` | abstract: what an operation promises about its terminal reply |
| `ServerReplies` | the replies to one operation; implements `TerminalReply` |
| `AsyncSubmit` | one async submit, its workers and its cancellers |
| `PacketConnection` | the client's end of a TCP connection, `NnrpTcpConnection` |
| `OrderedDelivery` | abstract: an ordered queue per key, each item consumed at most once |
| `PacketExchange` | client session, result router and server session over a `PacketConnection`; implements `OrderedDelivery` |
| `FrameResultBuffer` | the buffer that orders results by frame, and the coroutines that wait for them |
| `PolicyDispatcher` | the workers and callbacks of a server's application policy |
| `NativeServer` | accept and close of a server over several transports, with a `PolicyDispatcher` for each |
| `NativeClient` | the client connection: its role thread, sessions, late results and close |
| `TransportSelection` | routes, policies, eligibility and the comparison of candidates, as operators |
| `RoleStart` | a client that connects or a server that starts, and who owns what on the way |
| `WireFields` | a field of a fixed-width message: its width and the values let through when written and when read |
| `RuntimeMessages`, `WireMessages` | the layouts of all message classes and their cross-field rules; `Pack` and `Unpack` |
| `PacketBodies` | tile indexes, tensor sections, inline objects, references, typed frames, extensions, patch bodies; their validators |
| `PacketBuilders` | the packet and the builders of control and data packets |
| `RuntimeFrames` | runtime messages, their tails and the event a receiver makes of them; recovery tickets; frame batches |
| `RuntimeSenders` | the helpers and session methods that send runtime messages, and the choice of a frame id |
| `QuicStreams` | the QUIC adapter's streams |
| `PacketCodec` | a sender and a receiver with all of these codecs between them |
| `EventQueuesProofs` | lemmas about `At`, `Rank`, lists of events, and picking from a list by content |
| `NativeSessionProofs` | theorems about `NativeSession`, and about `AsyncSubmit`, the async calls of the same class |
| `ServerSessionProofs`, `ServerRepliesProofs`, `NativeServerProofs`, `NativeClientProofs`, `RoleStartProofs`, `PacketExchangeProofs` | theorems about the module each is named after, the last one also about `FrameResultBuffer` |
| `MC...` | small instances for TLC |

**NativeSession.** `pendingEvents`, `operationFrames`, `closed` and `pollLock`
are the fields of the class; `native` is the queue in the native runtime, which
is external: it emits at most one result and one terminal lifecycle event per
operation, and nothing after the peer's SESSION_CLOSE. A receiving call takes
three steps, the points between which another thread can run: the checks
(`PollBegin`), the critical section up to the native call (`PollTake`) and the
return of the native call with the lock still held (`PollReturn`, `PollFail`,
`PollDecodeFail`). The six shapes of a call (`await_event`, `poll_events_batch`,
`poll_events` without a limit, `poll_result`, `poll_runtime_frames` with and
without a limit) differ in what they want, how much, and when they are
satisfied, which is what the operators `Wanted`, `Room`, `NativeLimit`,
`Filtered` and `Satisfied` say. What the poll took is then returned, handed out one
by one (`HandOut`: `dispatch_*`, `iter_*`), or first converted (`Convert`: the polls
for one type of event and `next_event`), which drops some of it or raises and loses
all of it. A `poll_result` asks of one event after the other whether it is the result,
and converts it: `Unfit` says over which events it raises, in `_pending_events`
(`PollTakeFail`) or in a batch (`PollDecodeFail`, where `GoneThrough` and `Observed`
say how far it came). `submit_operation` is two steps,
because the binding is made after the native call and outside the poll lock; an
operation-scoped control is two steps for the same reason. An event kind stands
for one way the code classifies an event. The variables `seen`, `discarded`,
`lost`, `log`, `returned` and `cancelled` are history.

**ServerSession.** The same receiving pattern with the difference that
`next_event` and `receive_submit` loop with the lock in hand. A submit is bound
when it is converted, whoever receives it later. The replies appear as one
action, `ReplyCompleted`, whose detail is `ServerReplies`.

**ServerReplies.** A reply is an asyncio task (`pc`) and an executor worker
(`worker`). `BeginReply` is `_begin_reply`; `WorkerStart` the worker's
`_ensure_open`; `WorkerSend` the native call; `CancelTask` a cancellation, which
ends an incremental reply's await but not a terminal one's; `Settle` the rest of
`_send_terminal_reply`. `wire` is what the native runtime accepted.

**AsyncSubmit.** One task, the dispatch worker and the poll worker. `task` is the
await the task is suspended in; the specification is `SubmitSpec`, so that the
module can stand beside `NativeSession` in one module of proofs. A cancellation takes effect at that await
even when the value is already there, as asyncio does it. `calls` is the
sequence of native calls.

**PacketConnection.** Everything here runs on one event loop, so an action is
what happens between two awaits. Bytes are counted in half packets: a chunk may
end inside a packet (`half` is what is left in the buffer) or hold several, and a
packet may be cut so that its second half never comes (`torn`). `ReadChunk` is
one turn of `_read_packets`; `ReadEnd`, `ReadIdle` and a packet that does not
unpack end the task and set the terminal error, as does a send whose drain
raises, after which the reader goes on. A `_receive_from_queue` is a call that
waits (`call`), whose `queue_task` takes a packet (`QueueTask`) before the
coroutine resumes. `Terminated` says when the coroutine resumes with the
connection's end and no packet: `queue_task` was created first and runs first, so
this needs an empty queue, or a reader that still runs and brings a packet too
late. `ReadIdle` needs that no chunk is there to read: a chunk that is there
completes the read before the timer. `writer` is the transport of the writer: it ends
when this end closes it or the connection breaks, and not when only the peer closes,
since asyncio keeps a half-closed connection. `WaitClosedReturns` is when `wait_closed`
has all it awaits: the terminal error, the end of the writer, the end of the reader.

**PacketExchange.** The client's session context (`ClientHello`, `ClientAck`,
`ClientSubmit`, `ClientFlow`, and `ClientExit` and `ClientExited`, the two ends of the
`finally` of `connect_tcp`), the server (`ServerResolve`,
`ServerAck`, `ServerReceive`, `ServerSend`, `ServerClose`) and the router. The
server's end of the connection is a pair of FIFOs: `outbox` is what it has still
to receive, and what it sends is appended to `inflight`; the detail of an end is
in the client's. `PeerSends` is what the server side sends besides results; a
peer that is not this library may send a result whose body does not validate, or
bytes that are no packet. `Filed` is the router's put into the queue of a frame,
asked for or not. `sends`, `sent` (per frame), `delivered` and `refused` are
history. `Landed` is what a frame's receivers got or can still get, `Underway`
what is on its way to the router's queues. A router is entered once. Projected to
`sent` and `delivered` the whole is `OrderedDelivery`, whoever receives.

**NativeServer with PolicyDispatcher.** `accept` is one poll after the other
under `acceptLock`. `close` takes no lock and may come between any two reads and
writes of a server's ticket (`ticket`) and of the id it was begun with (`ticketId`),
which are therefore steps of their own: `AcceptTry`, `AcceptCheck`, `AcceptStore`
and `AcceptKeep` on one side, `ReleaseFree`, `ReleaseClear` and `ReleaseEnd` (the
parts of `_release_pending_accept_ticket`, `phase` says where a thread is in it) on
the other; each native call is a step too. `handleIds` is the list of handle ids
that goes on from one poll to the next, `held` the ticket an accept has in a local
variable. `close` runs beside an accept, beside another close, and inside an accept
that failed. It needs the poll lock of each session (`polling`), which `next_event`
and `receive_submit` hold while they wait (`Receive`).
A policy request is a future: begun, evaluated by a worker, completed by a
callback that runs on whichever thread comes last; `shutdown(wait=True)` is the
step that waits for the workers.

**NativeClient.** `queue` is the queue of the one role thread. `open_session`
queues a job under the close lock and awaits it; a cancelled await leaves the job
queued or running. `close` holds the close lock until the role thread has closed
the sessions, newest first, and the connection. A poll is a lock, a native poll
and a look at each of the two suppression sets, every one a step of its own: a
cancel or a close may come in between. A cancellation is sent natively (`CancelSend`)
and then remembered, in one set after the other (`todo`), with no lock: the insertion,
the comparison of the size, the iterator, the oldest value and its removal
(`RememberInsert`, `RememberTrim`, `RememberIterate`, `RememberOldest`, `RememberPop`)
are steps between which other threads take theirs on the same set, `seen` is what a
thread has read of it, and `next` or `pop` may raise (`Raise`). `detached` are the
threads that work on a set which `close` has taken out of the mapping. `log` is the
history of what was remembered. A withdrawn job leaves the queue by `At` of `EventQueues`.

**RoleStart over TransportSelection.** An `ask` is what an application and an
installation look like: role, security, policy, routes, bindings. Selection is a
function of it and of what the probes measured. The actions are the native calls
between which something is owned; each may fail, at most `MaxFaults` times, and
every failure takes the code's own way out.

**The codecs.** A struct is a sequence of words with their widths and the sets of
values each direction lets through; packed into a body it is one token followed
by the bytes it stands for, so that every offset, length and alignment is the
code's while a byte of payload is opaque. `u32` and `u64` fields have stand-in
widths, as TLC has no larger integers; their ends are still ends. `PacketCodec`
writes one thing at a time (`job`), reads it (`got`), and may send on what it
read. `PeerWrites` and `PeerCrosses` are peers that are not this library. The
layouts were compared with the Python classes on random messages, the builders
and validators with the Python functions on the packets of the run.

**QuicStreams.** A run sends packets by the adapter's three calls, which gives
the streams. Their bytes then arrive in chunks, in any interleaving of streams;
streams are reset or stopped, the connection ends, and meanwhile an application
receives results.

**FrameResultBuffer.** An action is what runs between two awaits: an `add`, a pop,
or a turn of the loop in `wait_for_frame` and `wait_for_next` (`Look`), which are
one action with `wants` for the frame and `NextFrame` for any. `heap` counts the
entries of each frame id, stale ones included; `byFrame` holds the number of the add
that stored a packet. `_ready` is cleared by whoever is about to wait for it, so it
needs no variable: an `add` wakes those in phase "waiting". A wait with a timeout
goes through `asyncio.wait_for`, which before Python 3.12 starts a task for
`_wait_ready`; until it runs (`WaitStarts`) the coroutine is "starting" and no add
wakes it. `Wraps` says which Python it is. `added`, `out` and `skipped` are history.
In `PacketCodec` a buffer is a job of its own, with packets in any order.

Operators named `X_Something` directly before a definition `X` are deliberately
wrong variants of it. They are not used by any specification; each shows that a
property notices that mistake.

## Runs

| Run | Question | Answer |
|---|---|---|
| `session_events` | two threads, all receiving calls, submit, cancel, close, failures and bad events: is every event in exactly one place and in order, and is a binding there while its operation lives and gone on the evidence of its end? | yes |
| `session_binding_race` | is an ended operation always unbound? | **no**: the binding may be made after the evidence |
| `server_receive` | two threads, all receiving calls with timeouts, failures, bad events, replies, close: events in one place and in order, accepted submits answerable, close returns? | yes |
| `server_bad_batch` | does a bad event take good ones with it? | **yes** |
| `async_calls` | three replies, failures, retries, cancellations, close: one terminal reply, settled, correlated, and the abstract promise? One async submit, up to two cancellations: quiet before dispatch, cancelled on timeout and after one cancellation? Does every attempt and call end? | yes |
| `async_double_cancel` | is a cancelled call cancelled natively after two cancellations too? | **no** |
| `packet_exchange` | a handshake, a submit and two packets of the server, over a connection that may be cut, broken, idle, garbled or closed at any point: results in order, none lost while connection and router last, each frame an ordered queue to its receivers, submits accepted, receivers woken, does every exit of `connect_tcp` end? | yes |
| `role_start` | every policy, security, route and installation of a small world, one native call failing: is everything owned by exactly one party at the end, is a secured application never on an unsecured carrier, is the selected carrier the best of the eligible ones, were all of them probed, does a refusal name its reasons, does a server listen where it was told to? | yes, where the comparison of candidates is an order |
| `client_role` | two callers open, cancel the opening, submit, poll, cancel and close: does close release every session, are late results of what was cancelled recently suppressed and no others, though the sets are changed without a lock, does every call return? | yes |
| `server_role` | accept, its deadline, failures, a close beside it and one inside it, a receiving session and a policy request at once: are tickets used with their handle ids, is what close leaves behind accounted for, are policy errors raised, does every call return? | yes |
| `packet_codec` | everything this code can write or accept at the boundaries of its fields: is it read as it was meant, can what was read be sent on, do metadata and body agree, do runtime messages and application calls arrive with their tails and on their frames; do QUIC streams deliver each packet once; does the result buffer hand out the smallest frame first and each packet once, and does nobody who waits without a timeout wait for a packet that is there? | yes, with the exceptions named at the properties |
| `buffer_lost_wakeup` | does a wait with a timeout notice the packet that it waits for? | **no**, up to Python 3.11: not if the packet is added before the task of `wait_for` runs |

Some properties are conjunctions of named parts, each with its own comment in the
module: `EventsOnceInOrder` (both sessions), `GivenUpIsCancelled` (`AsyncSubmit`),
`ResultsInOrder` (`PacketExchange`), `ResultsInFrameOrder` (`FrameResultBuffer`),
`MessagesAreRead`, `DataAgrees`, `ControlsAreRead`, `RuntimeArrives` and `CutIsRefused` (`PacketCodec`), `BestIsTaken` and `StartedOrExplained`
(`RoleStart`). The type invariant of every module is checked as a part of another
invariant of its run.

The runs that end in a violation state a sentence of the repository's contract
documents (`doc/todo/v1-preview4`) or of a docstring and show an interleaving in
which the code does something else; `PROJECT.json` quotes the sentence for each.

`async_calls` checks two systems that share nothing, the replies to a server
operation and an async submit of the client: a behaviour is one of either, and
`checked` says of which.

*Bounds.* Two threads are enough for every pairwise interleaving; the code has
no state that a third thread could see and two could not. Three events
(`MaxEvents`) let a batch hold a wanted and an unwanted event, on both sides of a
limit, with one more behind them; `FrameBatch` and `BatchSize` stand for the 64
of the code and are 2, so that a batch can be full. `MaxRare` allows one event of the
kinds in `RareKinds` (those that do not decode, cannot be converted or have no wire
header, the peer's cancel and close), which is enough for it to stand before,
between and after others. One operation suffices, because the tables are keyed by operation and no
code relates two entries. `MaxCalls` bounds the calls in the server model. Three
replies allow a terminal one, its retry and an incremental one. Events that are
operation-scoped controls occur only in `session_binding_race`, the one run
whose property speaks of them. In `packet_exchange` two packets of the server
(`MaxSends`) can be two results of a frame, of two frames, or one result and
something else before or after it; a submit (`MaxSubmits`) shows the session id,
which never changes. The two threads of `session_events` are symmetric, since no
property names one; nothing else is declared symmetric.

In `client_role` two sessions with equal operation and frame ids show that
suppression is per session. With a limit of 2 and four identities (`MaxCancels`) two
threads find a set too large at once, both trim it, and one may find the value that it
was about to pop gone; the 4096 of the code is the same code. `MCSpec` bounds what may
begin: two identities while sessions are opened and closed, and up to four on the first
session alone while the connection stays open, their frame ids in ascending order. In
`server_role` two servers let an accept hold a ticket at one while it polls the
other, one caller accepts and one closes, two tickets (`MaxTickets`) are one for each
server or one after another, and the first of three session ids receives (`Polled`);
the invariants were also checked with three tickets. `role_start` enumerates each transport as absent, without a route,
with a usable, an unusable and a broken one, and three measurements that differ
in each criterion. In `packet_codec` a message is one field away from a base
object, or two where the class relates its fields; tile lists have up to three
tiles, bodies up to two sections, frames and references. The chunk sizes 39 and
40 end one byte before a header is complete and with it. For the result
buffer two frames and three packets (`MaxAdds`) let a frame be replaced, or popped by
frame and added again behind a smaller one, so that it has two heap entries, one of
them stale; beside the one waiter the application pops what the waiter was woken
for. `BufferIInv` was also checked with three frames and two waiters.

*Deadlock* is not checked, except in `packet_codec`, where a job always ends and a
result buffer can always be asked again: the other systems may stop, when the
events, calls or replies that the bounds allow are used up or the session is closed.

*Fairness.* `ServerSession`: a thread that can take a step takes it, a native
poll returns within its time slice, and a deadline expires; the mutex is not
assumed to be fair. `ServerReplies`: the executor runs queued work, native calls
return, the event loop resumes a task whose worker is done. `AsyncSubmit`: the
same, and time passes. `PacketExchange`: the event loop runs what is ready and a
stream that was closed comes to its end; of timeouts and of the idle timer
nothing is assumed. What was written to a writer that is closed is flushed or the
connection breaks, so `wait_closed` returns when all that it awaits is there. `NativeClient`: the role thread runs what is queued, a native
poll returns within its timeout, `close` returns when its job is done, and the
role thread gets a poll lock that is free again and again. `NativeServer`: a
thread in a call goes on, a policy worker runs, an accept whose deadline comes up
again and again passes it once, a receive has a deadline and so gives up its poll
lock, and a close gets a poll lock that is free again and again. Nowhere is anything assumed of the peer
or the application.

## Proofs

Each theorem holds for every value of the constants: any number of threads,
sessions, operations, servers and replies, any limits and bounds. The assumptions
are the named `ASSUME`s of the component's module, which say that sets are finite
where the code keeps them in a list, that limits are natural numbers, and that
`NoThread` and its like are none of the things they stand for. TLC evaluates them
on every run. Every safety invariant and action property of the runs named below
is proved as a theorem `Spec => []P` or `Spec => P`; the inductive invariant
`IInv` of each module (`BufferIInv` of the buffer) was checked by TLC before it was proved.

| Proved | In | Inductive invariant |
|---|---|---|
| `OneTerminalReply`, `SettledWhenDone`, `CorrelationKept`, the refinement of `TerminalReply` | `ServerRepliesProofs` | `WorkerOfTask`, `OneActive`, `SentMeansOk`, `OkMeansSent` |
| `EventsOnceInOrder`, `LiveBindingKept`, `ReleasedOnEvidence` | `NativeSessionProofs` | `Accounted`, per thread `LockHeld`, `Holding`, `CollectedOldest`, `NoneWantedLeft`, `TakenFirst`; `QueuedWasSent` |
| `EventsOnceInOrder`, `AcceptedStaysBound`, `WaitKeepsRetained` | `ServerSessionProofs` | `Accounted`, `LockHeld`, `OnlyPollsHold`, `QueuedWasSent`, `ConvertedStaysBound` |
| `QuietBeforeDispatch`, `GivenUpIsCancelled` | `NativeSessionProofs`, last section | `DispatchGuarded`, `AwaitKnows`, `CancelsSeen`, `PollerCancels`, `OutcomeExplained` |
| `TicketKeepsId`, `ClosedLeavesNothing`, `PolicyErrorsRaised` | `NativeServerProofs` | `AcceptInv`, `CloseInv`, `PolicyInv` |
| `CloseReleases`, `OnlyCancelledDropped`, `LateResultSuppressed` | `NativeClientProofs` | `OpenedInOrder`, `CloseIsLast`, `CloseProgress`, `ArgsKnown`; per set `EachOnce`, `Trimmed`, `EnoughLeft`, `KeepsRecent`, `HeldAreOld` |
| `NothingLeaked`, `SecureStaysSecure`, `BestIsTaken`, `StartedOrExplained` | `RoleStartProofs` | `RouteInv`, `RolesInv`, `LiveInv`, `UnclosedInv`, `RolesHeld`, `HereHeld` |
| `ResultsInOrder`, `SubmitsAccepted`, the refinement of `OrderedDelivery` (`DeliveryKept`) | `PacketExchangeProofs` | `CallsInv`, `FlowInv`, `AcksInv`, `SessionInv` |
| `ResultsInFrameOrder`; `WaitersSeeArrivals` where no wait starts a task | `PacketExchangeProofs`, last section | `EntryKept`, `NewestStored`, `AddedOnce`, `StartedByWaitFor` |

**Server replies.** `OneTerminalReply` alone says nothing about a worker that is
about to send. The invariant adds that only tasks past `_begin_reply` have a worker
(`WorkerOfTask`), that the flag admits one terminal reply at a time (`OneActive`),
and that a terminal reply is on the wire exactly when its worker succeeded, with no
other under way (`SentMeansOk`, `OkMeansSent`). The critical steps are `WorkerSend`,
where a terminal worker that is still sending belongs to the active reply, and
`Settle`, where the flag comes down only for a failed worker. The refinement
mapping is read off the invariant: the abstract attempt is the active reply, what is
delivered is the terminal reply on the wire.

**Event queues.** `At(s, I)` is defined by counting (the k-th index of I is the one
of rank k), since a recursive filter cannot be proved about here. The lemmas derive
from cardinalities that ranks are monotone and onto, hence that the pass over
`_pending_events` takes and keeps each element once and in order, and what
concatenation, append and a shift of events between a queue and a thread do to
`Kept`: every event number is in one place, and the queue is in order.

**Both sessions.** `Accounted` is that one place for the retained and native events
together, what each thread has, and what was lost. Conservation is then a counting
of places. Order needs more on the client, where an unlimited `poll_events` collects
over several native calls, between which other threads take events:
`CollectedOldest` says that what it has is older than what it may still add, and
`NoneWantedLeft` that a call goes to the native runtime only when nothing retained
is for it, so that `TakenFirst`, the order per kind of event, survives events that
overtake others of another kind. The bindings follow from `QueuedWasSent` and, on the
server, from `ConvertedStaysBound`: the binding is made when a submit is converted,
so it is there for retained submits too.

**Async submit.** Whether something was sent is tied to the flags under
`dispatch_lock` (`DispatchGuarded`) and, over `AwaitKnows` and `CancelsSeen`, to the
await the task is suspended in; `PollerCancels` says that the poll worker reports a
timeout or a cancellation only after the native cancel.

**Native server.** `TicketKeepsId` needs that accepts exclude each other, that one
past its attempt has an id, that unused ids are fresh (`IdsFresh`), and where each
ticket is on its way from the native runtime over the local variable to the server
(`BegunFor`); `IdKept` says that ticket and id agree as long as no close has begun.
For close, the invariant follows every ticket and session from the native runtime
into the lists that close walks (`LiveKept`, `HeldHere`, `OpenKept`) and says what of
them each close has passed (`TicketsReleased`, `ServersPassed`, `SessionsPassed`):
a server's flag is set only after its ticket was released, so a ticket that is still
live was refused or stored since (`ticketsLeft`). For policies, a future is counted until its callback has run and
recorded its error, so the join knows of every error there is.

**Native client.** Sessions are opened in order and listed in order
(`OpenedInOrder`), nothing is queued behind a close (`CloseIsLast`), and while a
close runs a session that is open is still on its list or older than one that
failed (`CloseProgress`).

For suppression the invariant speaks of each set with the threads at work on it. A
remembered value that is recent has only values remembered after it behind it
(`KeepsRecent`). This needs to know what a thread that has read the oldest value and
not yet popped it may do: that value is still the oldest, is gone, or has been outlived
(`HeldAreOld`). A second thread may pop while the first one does, so a set can become
smaller than its limit; but each thread between its comparison and its pop found the
set too large, which bounds by how much: while there are such threads, the size plus the number of threads stays above
the limit plus the number of those threads (`EnoughLeft`). So a set holds at least `Room`
values behind the one popped, all distinct and later than it, and by the pigeonhole
principle (`BehindTheFirst`) it was no longer recent; `Room` is the limit less one for
every other thread. That a set is over its limit only while a thread trims it
(`SetsTrimmed`, a part of the type invariant) holds although threads raise and leave
the loop: the last one to have changed the size finds what it has read still true
(`Trimmed`).

**Starting a role.** `LiveInv` says for each kind of native handle in which phases
of a start it exists, for the transport being opened and for those already adopted,
as long as every close worked; `NothingLeaked` is what it says of the last phases.
What a failing close may have left behind is bounded, phase by phase, by
`UnclosedInv`, and what exists whatever failed by `RolesHeld` and `HereHeld`: without
them nothing would say that a handle that is released was still there to release.
`RouteInv` ties the routes to the selection that made them, and the rest is about
`TransportSelection`: the reason for a rejection is that of the first failing check
(`RejectionIs`), so that no rejection means that every check passed; whatever can be
compared can be sorted, transitive or not (`OrdersInsert`, `OrdersExist`), so that a
refusal always has a reason; and the first of a sorted list is the best by its
measurements, by the whole comparison only when the cost models agree
(`MeasureTransitive`, `CompareTransitive`). `list.sort` is any order in which
neighbours are in order; `Orders` is shown to list every candidate once.

**Packet exchange.** `ResultsInOrder` speaks of both ends of the way of a result
and of nothing in between, so it is not inductive. `FlowOf(f)` is the whole way, for
one frame: what landed, the router's hand, `_result_packets`, and what of the stream
the reader has still to read. `FlowInv` says that it is a prefix of what the server
sent for the frame, and all of it while connection and router last
(`NothingLost`, a part of `ResultsInOrder`). A step of the
reader, of `_receive_from_queue`, of the router or of a receiver moves results along
the way and leaves the flow as it is; a cut, a fault or a closing router takes from
its end; only a send adds to it. That a step keeps the flow is an equation
between lists picked by content (`Pick` in `EventQueuesProofs`: picking distributes
over concatenation, a pick of a pick is a pick, a chunk that is sorted into two
queues leaves each queue's share in order). `CallsInv` says who waits on which queue
and what kind of packet may be in hand. For the session ids, `SessionInv` follows
the handshake: a hello is sent once, before it the server knows nothing, and an ack is
on its way only after the server resolved an id; `AcksInv` says that every ack,
in the stream, in a queue or in hand, carries that id. In `DeliveryKeptHolds` every
step appends one result to `sent` or the next one to `delivered`, by `FlowInv`, or
changes neither. The bounds on submits and sends are constants of the theorems
like any other; nothing depends on their values.

**The ordered result buffer.** That the front of the heap is the smallest frame needs
`EntryKept`: a packet that is stored has an entry, so the stale entries that a pop
drops never hide one. `pop_frame` leaves an entry behind and the next `add` pushes
another, so frames may have several; a pop that drops all entries before the front
drops none that is live, since the front is the smallest live one. Once-only follows
from `NewestStored`: what is stored for a frame is the last packet added for it, and
what was handed out is older. That nobody waits in vain is preserved since a
coroutine starts to wait only in the turn in which it found nothing, and every add
wakes all; the one step for which this fails is `WaitStarts`, and
`StartedByWaitFor` says that only waits with a timeout, and only where
`asyncio.wait_for` starts a task, take it. `ArrivalsSeenWithoutTasks` is the sentence
of the docstring for the Python versions where there is no such step.

### Only model-checked

* Liveness (`AttemptEnds`, `CloseReturns`, `CallEnds`, `ReceiversWake`, `CloseEnds`,
  `CallsReturn`): the prover does not handle fairness.
* `PacketCodec`: what the codecs compute is recursive over data, which needs an
  induction the provers cannot do.

## Observations

Behaviour met while modelling that no run reports as a violation, mostly because
no document says otherwise or because the native runtime may still prevent it.

* An incremental reply checks the terminal flag and is sent later by a worker, so
  it can reach the native runtime after the terminal reply (`native.py:5506`);
  Python does not prevent it.
* A cancelled async call ends with the error of the native cancel, a
  `TimeoutError` or a would-block error instead of `CancelledError`, when one of
  these is raised inside the handler (`native.py:4903`, `5083`).
* A native batch that fails to decode is gone, and with it the evidence that
  would have released a binding (client) or the only copy of a submit that is
  already bound (server). An unlimited `poll_events` loses what it took when a
  later native call fails or the session is closed.
* Conversions come after the events were taken. `poll_credit_updates`,
  `poll_result_hints` and `poll_payload_family_events` drop events without a wire
  header and, when one event of another kind is refused, the whole batch
  (`native.py:4457`). `poll_result` deletes its event before it converts it, so an
  ERROR event for the operation is consumed by the `NativeHandleError` it causes
  (`native.py:4981`). A lifecycle event without an operation id passes
  `_observe_polled_event`, is retained, and from then on every `poll_result` of the
  session raises over it (`native.py:4980`, `3721`) until another poll takes it.
* The router puts one sentinel into each queue: with two receivers of one frame
  the second keeps waiting. A router closed before its task first ran never
  reaches the `finally`: waiting receivers are not woken and `_closed` stays
  false. `ReceiversWake` is stated for the other cases.
* `_receive_from_queue` raises the terminal error although packets are queued,
  and a cancelled receive loses the packet its `queue_task` took.
* `connect_tcp` awaits `wait_connected` before its `try`: if the connection fails
  there the writer is not closed. `accept_server_connection` closes the
  connection on `Exception`, not on `CancelledError`.
* `FrameResultBuffer.wait_for_frame` looks for its packet and then clears its event
  inside `asyncio.wait_for` (`ordered_buffer.py:139`), which before Python 3.12 runs
  it in a task that starts later; `pyproject.toml` allows 3.11. A packet added in
  between is not noticed until the next one, and after the timeout the call returns
  `None` although the packet is there; the docstring says "Returns `None` if *timeout*
  expires before the frame arrives" (run `buffer_lost_wakeup`).
  `ArrivalsSeenWithoutTasks` proves that nothing else delays a waiter.
* Codecs: a DELTA tile index is read with zero deltas and with ids beyond u16,
  which `pack` refuses; the typed and mixed builders accept the tensor profile,
  which the validators refuse, and `build_frame_submit_packet` does not validate
  a body without a tensor; `TypedPayloadDescriptor` accepts a payload kind that
  the metadata's bitmap refuses; `ControlRequestMetadata.unpack` does not check
  the flags that `pack` checks; object kinds, roles and hints of runtime objects
  are checked only when they are read. Errors in runtime metadata leave
  `_decode_wire_runtime_event` as a plain `ValueError`.
* The comparison of transport candidates is not transitive when cost models mix:
  with tcp and ipc of one model and quic of none, each beats the next in a circle,
  and the selection then depends on the order of the providers, though the
  release notes (`doc/v1-preview4-release-notes.md:160`) speak of a deterministic
  comparator. `SelectedIsBest`, a part of `BestIsTaken`, is stated
  for comparisons that are an order.
* A server whose ipc or websocket artifact is installed and has no route refuses
  to start, while a transport that lacks security is skipped in silence.
* `schema_registry.close()` that fails after `server_bind` succeeded leaks the
  bound server, and a configuration that cannot be closed after `connect` or
  `listen` drops the carrier.
* Nothing guards the suppression sets of a client connection (`client/native.py:726`).
  When two threads trim one set, `next` or `pop` may raise a `RuntimeError` or
  `KeyError` out of a cancel whose native cancel was sent;
  `cancel_operation` then remembers the frame and not the operation. A set may forget as
  many recent identities too early as there are other threads. An identity that is
  remembered again keeps its old place and goes with it.
* A TCP connection that the peer closes and this end does not keeps its writer: `wait_closed`
  does not return, so the listener's `_handle_connection` (`adapters/tcp.py:332`) stays
  and the connection remains among the live ones until the server session is closed,
  accepting fails, or the listener closes.
* The cancel of `operation_scope` is not remembered, so its late results are
  handed out. A frame id reused after a cancel is suppressed, and its result
  consumed. `close` empties the suppression sets while a poll may be between the
  native poll and its look at them.
* A client's close stops at the first session whose close fails; a server's goes
  on. A server session claimed while close runs is handed out by a closed server
  and left open, as is a ticket stored after close released them. A claim that
  names an unknown transport loses the claimed session (`native.py:4019`): nobody has
  it and nobody closes it. A close beside an accept may clear a ticket's id before the
  accept compares it, which then fails with "requires the original session handle id
  and generation". `NativeServer.close` waits for the poll lock of every session, so
  a `next_event` or `receive_submit` without a timeout keeps it waiting until an
  event comes. A second close of a
  policy dispatcher returns without waiting for the workers.
* `_next_runtime_frame_id` starts at 1 and may meet the frame id of a live
  operation, so that a session-wide message travels on an operation's frame.
* QUIC: STOP_SENDING drops what was read of the stream, so half a control packet
  is lost and the bytes after it are misread; a RESULT packet sent as control is
  queued as a result when the two ends have different control streams; a
  terminal error hides packets that are already queued. The docstring of the
  ordered buffer names `add_from_connection`, which does not exist.
* `send_submit` of a migrated session records the frame id after its await, so
  two overlapping submits can leave a smaller id recorded.

## Plan

What is left, in this order:

1. `SessionMigration` with its monitor: frame ids across a transport switch, over
   `PacketConnection`; the ranking of the packet client's transports.
2. The QUIC handshake and listener.

Abstract specifications worth stating: a queue that loses nothing for
`NativeSession` and `ServerSession`, `OrderedDelivery` for the streams of the QUIC
adapter, a closable waiting room for the router and the buffer.

## Not modelled

* The native runtime is external; only what the Python code relies on is
  modelled. The ctypes layer, the loading of artifacts and the resource handles
  (buffers, views, leases, registries) are single calls into it.
* Session migration and its monitor in `client/transport.py`, and the profile
  sessions on top of the packet sessions.
* The QUIC handshake, datagrams and listener, and the TCP listener.
* Byte order, logging, wording of diagnostics and frozen value types, which carry
  no state that two actors share.
* The tools and scripts, which are command-line drivers around the library.
