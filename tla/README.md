# Verification of pykedixa

TLA+ specifications of `pykedixa` (`src/pykedixa`), model-checked with TLC; the safety
of the worker pool, the connection, the WebSocket client, the read-until buffer, the
server and the two rate limits is proved with TLAPS.

`pykedixa` is a small Python library with two halves: a pool of worker
*processes* fed through a queue (`mprocess.py`), and `comm`, an asyncio
communication library in which a *connection* is a stack of *transformers*
(TLS, read-until buffering, HTTP chunks, proxies, rate limits) on an *adaptor*
(a socket, a loopback buffer), with HTTP messages and a WebSocket client above.

Its errors do not hide in single functions, which the tests cover, but between
them: in what two processes or two tasks do in an order nobody tried, in what is
left of a half-done call when it is cancelled, in what a reader finds at the edge
of a message.  These are what the specifications are about.

## 1. Inventory

| Part of the code | State | Operations | Interacts with | What is hard | What makes it correct |
| --- | --- | --- | --- | --- | --- |
| `MProcess`, `MContext`, `_worker` (`mprocess.py`) | task queue (buffer, pipe, slot semaphore, reader lock), stop event, barrier; per worker `_finished` | `put_task`, `start`, `stop`; `__next__` and `__anext__` in each worker | owner process, n worker processes, feeder thread of the queue, a thread per asynchronous worker | all interleavings; `queue.Empty` also means "lock busy"; workers that raise or are killed anywhere; a cancelled `__anext__` whose `get` goes on in the thread | no task lost or done twice; no slot leaked; all done when `stop()` returns; calls return |
| `Connection` (`comm/connection.py`) | `_closed`, `_comms`, `_c`; `_nxt` of each layer | `open`, `bind`, `unbind`, `request`/`send`/`receive`, `close` | transformers and the adaptor it calls, tasks that share it | a failure or cancellation at each await; two closes at a time; bind/unbind sequences | resource released on every path, once; layers finished top down; stack = chain |
| `CommunicateBase`, `LoopbackAdaptor` (`comm/basic.py`) | list of slices and its size | `read_exactly`, `write_all`, `read`, `write` | everything below | short reads and writes, limits, a buffer that is used again | bytes in order, once; exactly what was asked for |
| `ReadUntilTransformer` | `_data` | `read_until`, `read`, `finish` | the layer below, HTTP decoders above | delimiters across pieces, `max_bytes` reached exactly, end of stream, cancellation | nothing lost; shortest match; no pointless wait |
| `CommBridge` (`comm/bridge.py`) | `_total_read`, `_stop`, one buffer | `run`, `stop` | any two communicators | short writes, the budget, stop in the middle | a faithful copy within the budget |
| TCP adaptors (`comm/socket_adaptor.py`) | the streams of asyncio, a socket | `prepare`, `read`, `write`, `finish` | operating system | end of stream against `read(0)` | - |
| HTTP messages (`comm/http/http_message.py`) | headers, body, `_empty_body` | `encode`, `decode`, header setters | `ReadUntilTransformer`, or one made for a single decode | pipelined messages; framing left over in a reused object; three ways to end a body | what is decoded is what was encoded; the next message starts where this one ended |
| `HttpChunkTransformer` | `_buf`, `_buflen` | `read`, `write`, `flush` | HTTP messages around it | chunk ends against reads of any size | as above |
| WebSocket client and processor (`websocket_processor.py`) | `_closed`, `_conn`, `_recv_task`, `_lock` | `open`, `close`, `send`, the receive loop | handlers (which call back), `Connection` | close runs as a task of its own while the client is opened again; `self._conn` read anew after each await; senders queued on a lock | one reader per connection; none leaked; frames never mixed |
| WebSocket frames (`websocket_message.py`) | - | `encode`, `decode` | the byte stream | lengths at the borders of the encodings | frames come out as they went in |
| WebSocket handlers (`websocket_handler.py`) | `_frames` | `on_frame`, `process_frames`, `on_*` | the receive loop | processing in new tasks, control frames inside messages | messages of their own frames, in order |
| SSL transformer (`ssl_transformer.py`) | two `MemoryBIO`s, the SSL object | handshake in `prepare`, `read`, `write` | layer below | a reader and a writer pump one pair of buffers; data the engine holds across an await | records stay whole and in order; what was decrypted is returned; no mutual waiting |
| `TcpServer` (`tcp_server.py`) | `_stopped`, `_server`, `_forever`, `_port_zero` | `start`, `stop`, `run_forever`, `wait_finish` | a `Connection` and a processor per client | `stop` while `start` is awaited; start again after stop | a stopped server listens no more; no connection is left open by a processor |
| `QpsPool` (`qps_pool.py`) | `_last`, the next free time | `acquire`, `sync_acquire` | clock; tasks of one loop, threads | requests of different sizes; threads between the read and the write of `_last` | no more permits than the limit allows; each request granted |
| `SpeedLimitTransformer` | `_rnext`, `_wnext`, the hints | `read`, `write` | clock, layer below, many writers | sleepers wake late and do not look again; ends and cancellations after some pieces | bounded burst above the speed; no byte lost; each call returns |
| Upgraders (`websocket_upgrader.py`, `http_proxy_upgrader.py`) | - | `prepare` | `Connection.bind` | one request and one response | - |
| `file_loader`, `file_adaptor`, `debug_transformer`, `address`, `exception`, `compat`, code map, example server | little or none | - | - | - | - |

Interactions, from the bottom up: an adaptor delivers pieces of a stream;
transformers call `read`/`write` of the layer below (`_nxt`); `Connection` owns
the stack, and hands its top to `MessageBase.encode/decode`; HTTP and WebSocket
messages cut the stream with `read_until` and `read_exactly`; `WebSocketProcessor`
runs a task that decodes frames from its connection and calls its handler, which
calls `send` and `close` of the processor again.  `TcpServer` makes a `Connection` for
each client.  `MProcess` and `QpsPool` are separate.

`PROJECT.json` lists each part with its status, and under `hazards` each place
where the code could go wrong in a way that a test would hardly reach, with the
properties that would notice.

## 2. Modules

| Module | Models | Built on |
| --- | --- | --- |
| `TaskPool` | abstract: what the pool promises its owner | - |
| `MProcess` | `mprocess.py` in detail | implements `TaskPool` |
| `MProcessProofs` | theorems and proofs about `MProcess` | `MProcess`, TLAPS |
| `Connection` | `connection.py` | layers as states |
| `WebSocketProcessor` | `websocket_processor.py` | a connection is open, closing or closed (`Connection` says how it gets there) |
| `WebSocketFrames` | `websocket_message.py`, `websocket_handler.py` | the receive loop of `WebSocketProcessor`, for one connection |
| `ReadUntil` | `read_until_transformer.py`, `read_exactly` | a socket that delivers pieces |
| `HttpStream` | `http_message.py`, `http_chunk_transformer.py` | `read_until`, `read_exactly` as `ReadUntil` shows them to be |
| `CommBridge` | `bridge.py`, `write_all`, `LoopbackAdaptor` | short writes |
| `Ssl` | `ssl_transformer.py`, both ends | a stream that takes writes whole or in parts |
| `TcpServer` | `tcp_server.py` | a connection that is closed releases its socket (`Connection`) |
| `SpeedLimit` | `speed_limit_transformer.py` | a layer below that takes and has any part of a piece |
| `QpsPool` | `qps_pool.py` | the clock |
| `MCRates` | the last two in one run; a behaviour follows one of them | `SpeedLimit`, `QpsPool` |
| `MCWebSocket` | one receive task at work while the processor rests: both sides in one module for the proofs | `WebSocketProcessor`, `WebSocketFrames` |
| `MCHttpStream` | one connection at work while a read rests: both sides in one module for the proofs | `ReadUntil`, `HttpStream` |
| `MC...` | the sets and symmetries TLC needs | the module of that name |
| `Sums` | `SumOver(g, S)`, a fold of the community modules | - |
| `ConnectionProofs`, `WebSocketProofs`, `StreamProofs`, `CommBridgeProofs`, `SslProofs`, `TcpServerProofs`, `RatesProofs` | theorems and proofs | the component (`RatesProofs`: `MCRates`, and what `SumOver` computes; `WebSocketProofs`: `MCWebSocket`; `StreamProofs`: `ReadUntil` and `MCHttpStream`); TLAPS |

In all asyncio modules a step runs from one `await` to the next, since that is
what an event loop interleaves; an await may end with a result, with an
exception, or with a cancellation, which is an exception in the code as well.
Faulty variants of some definitions (`Name_Variant`, each with a comment) stand
directly before them. No specification uses them; they are the changes under
which each property must fail. `TypeOK` of a module is a conjunct of one of its checked
invariants (of `IInv` in `MProcess`, of the first or widest one elsewhere).

### MProcess

Tasks are numbered. The queue is FIFO, so three counters tell where each task is:
`fed+1..put` in the owner's buffer (`Queue._buffer`), `got+1..fed` in the pipe,
`1..got` received. `multiprocessing.Queue` is the standard library's; it is
modelled from what `mprocess.py` needs of it and marked external: `put` takes a
slot (`sem`) and appends to the buffer; the feeder thread moves tasks to the pipe
(`Feed`); `get(timeout)` takes the reader lock (`Acquire`) or gives up
(`LockTimeout`), polls (`PollEmpty`), receives (`Receive`), and gives the slot and
the lock back (`Release`).

| Code | Actions |
| --- | --- |
| `put_task` | `PutCall`, `PutTask` (blocks without a slot), `PutFull` (with a timeout, or not blocking) |
| `start` | `StartCall`, `Fork(w)`, `BarrierTrip` |
| `stop` | `QueueClose`, `JoinThread`, `SetEvent`, `JoinWorkers`; `JoinUnstarted` if `start` was never called |
| `MContext.__next__` | `NextCall` (reads `_finished` into the local `finished`), the steps of `get`, `EmptyStop`, `EmptyRetry` |
| `MContext.__anext__` | `NextCall` and the same steps for `get(False)`; then `EmptyRetry`, and `ThreadGet`: `get` in the one thread of the pool (`pooled`) |
| a cancelled `__anext__` | `Cancel`: the `get` in the thread goes on as a `stray` (`StrayAcquire` ... `StrayRelease`), and the task it takes is `dropped` |
| `MContext.shutdown` | `ShutDown`, in `JoinWorkers`; a worker may be killed while it waits there |
| the `for` body, `_worker` | `Work`; `Raise`: an exception of the function, or an interrupt (line 99), which may also come inside `get`, after it received a task and before or after it frees the slot |
| the operating system | `Kill`: the worker is gone with all it holds, its lock too |

The crux is lines 42 to 45: `queue.Empty` comes both from an empty pipe and from a
lock that another worker held for 50 ms. A worker therefore may leave while tasks
are left. The code is right nevertheless, since the worker that held the lock is
still there; `LastOneDrains` says so, and `DrainInv` is the form of it that is
inductive.

A cancelled call is an exception to it. Its `get` is still in the thread; when the worker
asks again, `get(False)` finds the reader lock held, by its own stray, and if the stop event
is set the worker ends with tasks left in the queue, the one the stray takes among them.
`cut` remembers that a call was cancelled, and the properties that would not hold then say
so. A worker has one coroutine that iterates: the semaphore that keeps several of them
apart is not modelled.

### Connection

`comms`, `c`, `closed`, `nxt` are the fields of the code; `st` is the life of each
layer; `todo` is the rest of the local copy `_comms[::-1]` of a task in `close()`.
The owner opens the connection and builds the stack, then shares it (`Share`), as
all callers in `src/` do; then several tasks use and close it at the same time.
`FinishReturn` and `FinishRaise` are the two outcomes of each awaited `finish()`,
and the second is the force close of lines 79 to 84.

### WebSocketProcessor

Every `open()` makes a connection and a receive task, both called by the number
of that open (a *generation*). `close()` only takes the fields away and schedules
`_close()`; `CloseCall`, `CloseStart` and `CloseEnd` are those three moments,
between which the client may be opened again. `earlier` remembers, for an
`open()`, which `_close()` tasks are due before it continues. The receive task
asks `self._conn` again for each frame: `rconn` is what it got.
`lockq` is the `asyncio.Lock`: its holder and then its waiters in order.
A `service` is given a connection that is open already and opens once (`ServiceOpen`). Its
constructor (line 205) lacks a comma after `*`, so the handler becomes a tuple; each call of
a handler method raises, and `HandlerReturn` is for clients only.

### ReadUntil, HttpStream, WebSocketFrames, CommBridge

`ReadUntil` starts from every stream up to a length over two bytes and cuts it by
any mixture of calls; `src`, `data`, `taken` partition it.

`HttpStream` takes a sequence of symbols for the stream: bytes of bodies, CR, LF,
one symbol for a head, one for the hexadecimal length of a chunk. The sender has
one message object, as the code allows, so that what `encode()` leaves in its
headers meets the next message. The receiver either has a
`ReadUntilTransformer` in its stack (`layered`), or lets `decode()` make one
(lines 271 to 288); then `ahead` is how far it has read beyond what was consumed,
a choice made anew at each `read_until`.

`WebSocketFrames` uses the real lengths: a stream is a sequence of parts with a
name and a width in bytes, and a decoder that expects another width is lost.

`CommBridge` numbers the bytes of the stream. A slice of a memoryview is no copy:
the list of the `LoopbackAdaptor` holds *positions* of the bridge's buffer.

### Ssl

Both ends are modelled, since it takes two to deadlock. The engine of the `ssl` module is
external: it takes whole records from `_in` and produces records in `_out`: flights of the
handshake, a session ticket, data, key updates that ask for a reply, a close. A record is
two pieces, so it can be half there. The tasks are a reader, which runs `prepare()` first,
and a writer; `Flush` is the part that `_do_want_read` and `_do_want_write` share, and
`SslRead` and `Handshake` go from one await to the next. The layer below takes a write as a
whole and waits in `flush` for the peer (`TcpAdaptor`), or takes it piece by piece (`short`).

### TcpServer

Servers and `_forever()` tasks are numbered in the order they were made; `life` and `task`
are their states, `server` and `forever` the fields. `crossed` remembers a `stop()` that
came while a `start()` was awaited. `start_server` listens one turn of the loop before it
returns (`StartListens`); a `start()` cancelled in that turn leaves a server that listens and is
in no field (`orphans`). `CancelForever` has two cases: the awaited task is cancelled with its
caller, or it has ended already and the caller is thrown the error when it resumes (`severed`).
Then, as when the task was cancelled before its first line, line 101 does not run and the field
stays set (`ForeverRaise`). `wait_closed()` waits for the connections of the server
or does not, as the version of Python has it (`patient`).

### SpeedLimit, QpsPool

Both reserve time on a float clock that is only ever compared with now. The models count in
ticks, the time one byte takes, and keep `next` and `last` as distances from now that `Tick`
lowers; what is long ago is the same as a little later, so the distances are bounded below.
`level` is a leaky bucket beside the code: it rises with each byte or permit and sinks with
each tick, and a bound on it is a bound on every stretch of time. A sleeper may wake late,
by any number of ticks. `QpsPool` is used by tasks, for which `_get_wait_sec` is one step,
and by threads, which may meet in it.

## 3. Runs

| Run | Module, bounds | Shows | States |
| --- | --- | --- | --- |
| `mprocess` | `MProcess`; 3 workers, one asynchronous that may raise, be cancelled and be killed, one that may be killed; 3 tasks; 2 slots; pipe of 1 | `TasksAccounted`, `StoppedMeansDone`, the inductive invariant `IInv`, `PoolSpec` (implements `TaskPool`), `CallsReturn` | 546,642 |
| `connection` | 3 transformers, one prepare-only; 2 tasks; 2 opens; 2 unbinds per layer | `ClosedIsReleased`, `FinishedOnce`, `ChainIsStack`, `FinishTopDown` | 220,588 |
| `connection_unbind` | the same | finding: `ExposedNotFinished` fails | |
| `websocket` | `WebSocketProcessor`; client or service, 2 openers, 2 senders, 2 connections, a send each, frames of 2 writes | `OneReader`, `NoLeak`, `FramesNotMixed`, `SendsOnCurrent`, `CloseCompletes`, `SendsEnd` | 138,088 |
| `readuntil` | all streams up to 6 bytes over CR, LF; delimiters CRLF and CRLFCRLF; reads of 1 and 3; limits none and 2 | `Conservation`, `ShortestPrefix`, `WaitsForReason`, `ExactIsExact`, `CallsEnd` | 237,329 |
| `bridge` | `CommBridge`; 6 bytes, reads of up to 3, budgets none, 0, 4, loopback of 4 | `Conveyed`, `LoopbackInOrder` | 17,142 |
| `bridge_loopback` | the same | finding: `LoopbackKeepsBytes` fails | |
| `http` | `MCHttpStream`; 2 messages, 2 edits before each, 2 chunks, bodies empty or CRLF, reads of 1 and 4 | `Faithful`, `Aligned`, `Received` | 177,735 |
| `websocket_frames` | `MCWebSocket`; 3 frames of 0, 126, 127, 65536 bytes, masked or not | `FramesExact`, `MessagesInOrder`, `MessagesArrive` | 494,250 |
| `ssl` | 3 or 4 flights; the client writes once, the server twice, key updates and a close among them; 1 cancelled call; flush waits at 2 pieces | `StreamIntact`, `ReadsAccounted`, `HandshakeEnds`, `DataArrive` | 231,785 |
| `tcp_server` | 2 callers, 1 client, 2 starts, 2 runs; a given port or one of the system's | `FieldsHold`, `ForeverReturns`, `WaitReturns` | 263,226 |
| `rates` | `MCRates`; 2 writers or a reader, speeds of 16 and 4 bytes per second (pieces of 2 bytes, and of none), 3 turns, calls of up to 4 bytes, 1 cancelled; 2 tasks and a thread, requests of up to 2 permits | `WithinRate`, `ReadKeepsBytes`, `PermitsSpaced`, `SleepersReturn` | 117,063 |

`CHECK_DEADLOCK FALSE` is set in all of them because all these systems may come to rest: a
pool that was stopped, a connection nobody uses, a stream at its end. What must not come to
rest is stated as a liveness property.

All runs are complete within their bounds, use no constraints, and take every action of
every module; the longest (`mprocess`) needs about two minutes on two cores.

Why the bounds are enough:

- *Pool.* The interesting rivalry is between a worker that times out on the lock,
  one that holds it, and one that is lost: three. Two slots and a pipe of one make
  a task wait in each place (buffer, pipe, hands), and the third task needs a slot that
  was used before. The theorems of section 5 hold for all values.
- *Connection.* Three layers have a bottom, a middle and a top; a second open shows
  what a close left behind.
- *WebSocket.* With two generations an old task meets a new connection; a third adds
  only another pair. Two senders and a frame of two writes suffice to mix frames.
- *ReadUntil.* Six bytes hold a four-byte delimiter with bytes before and after it,
  and every partial match the two overlapping delimiters have.
- *Bridge.* A read fills the buffer, a second one overwrites it; the loopback of
  four is full in the middle of the second.
- *HTTP.* The second message is the one that suffers from the first. A body of CRLF
  looks like the end of a line, so a reader that lost its place would go on.
- *Frames.* One length on each side of each border, and three frames for a message of
  three, a message with a control frame inside, and two messages.
- *Ssl.* With three flights the client sends the last one, with four the server. Two
  records from the server let one follow the other in `_in`; one from the client is
  under way in the other direction, and two tasks of an end meet in `_out`. Only the server
  sends key updates, as the engines of Python start none; with both ends doing so there are
  1,195,799 states, and the properties hold.
- *TcpServer.* The second start and the second run meet what the first left in the fields.
  Clients only meet in `wait_closed()`, which waits for each; two of them give 1,507,902
  states, which pass as well but take too long for a run.
- *Rates.* Two sleepers and a newcomer; three turns stand for ten (a call that ends at its
  turns, and one that ends at its length); a request of two permits beside one of one.

### Fairness

Safety properties assume none. For liveness:

- `MProcess`: weak fairness of the owner *inside* a call, the feeder thread, and each
  live worker: the operating system runs processes that can run, and the functions
  of workers finish their tasks. Nothing makes the owner put or stop. A worker blocked
  on the reader lock needs no strong fairness, since `get` gives up after 50 ms.
- `WebSocketProcessor`: the loop runs every task that is ready, and writes end. The peer
  need not send; nobody need open, send or close. The lock is FIFO (asyncio's is).
- `ReadUntil`: the peer sends its stream and closes. `HttpStream`: the
  receiver goes on with a message while there is something to read. `WebSocketFrames`:
  the receive loop and the tasks it created run.
- `Ssl`: both ends prepare and read on, and what a write hands down goes on; nobody need
  write. `TcpServer`: tasks that can go on do, processors end; nobody need connect or call.
- `SpeedLimit`, `QpsPool`: time passes, a sleep that is over ends some time, the layer below
  answers.

## 4. Findings

1. `connection_unbind`: `Connection.unbind()` (line 104) takes `_comms[-1]` for the next
   top, which is the layer it is about to finish, and never removes it. After
   bind A, unbind, the connection exposes the finished A, and `close()` finishes it a
   second time. `basic.py:58` wants `finish` after all use. The properties of `Connection`
   except layers that were unbound (`unbound`).
2. `bridge_loopback`: the comment at `basic.py:210` says that `LoopbackAdaptor.write`
   copies its argument. It slices it, and a slice of a memoryview is no copy: the next
   read of a bridge overwrites what the adaptor holds.

Met on the way, and part of the models without a run of their own:

- `WebSocketProcessor._close()` (line 100) closes the connection without the lock that
  `send()` holds, so layers are finished under a sender that still writes to them.
- `MContext.__anext__`: the task that a cancelled call takes is lost, and the worker may end
  with tasks left (section 2).
- `TcpServer`: a `stop()` while `start()` is awaited either raises (no server yet) or closes
  an earlier server, and the new one listens on while the object says it is stopped. If
  `run_forever()` is cancelled before `_forever()` has begun, or after `_forever()` has
  ended and before it resumes itself (lines 100 and 101), its field is never reset and
  every later `run_forever()` fails its assertion; `FieldsHold` says that there is no third
  way. If `start_server` fails, `_stopped` stays `False`; if it is cancelled when it listens
  already, a server listens that `stop()` does not know.
- An interrupt of a worker inside `Queue.get` (`mprocess.py:99`) may cost the queue a slot; when
  all slots are gone `put_task()` blocks for ever.
- `HttpChunkTransformer.flush` (line 69) uses `write()` and not `write_all()`: over a layer that
  takes a part of a write, the end of the last chunk would be cut off. `HttpStream` is about a
  `TcpAdaptor`, which takes all.
- `SslTransformer.read` (line 75): data the engine has decrypted go with a read that is
  cancelled while it flushes the reply to a key update; over a layer that takes writes in
  parts, records of a reader and a writer mix.
- `SpeedLimitTransformer`: at four bytes per second or less the hint is a fraction and every
  call raises (line 42); a `TransformerEofError` below, unlike an `AdaptorEofError`, loses
  what was read before it (line 116); two pieces per task may go beyond the speed, since a
  late sleeper does not look at the time again. `SPEED_LIMIT_MAX_HINT` has 1204 for 1024.
- `QpsPool.sync_acquire`: two threads in `_get_wait_sec` at once may be granted the same
  time.

A payload of exactly 126 bytes is encoded without its extended length and cannot be decoded
(`websocket_message.py:105`); lengths beyond 65535 are read from four bytes instead of
eight (line 137); a control frame between fragments joins their message
(`websocket_handler.py:34`); `WebSocketFuncHandler.on_close` without a function raises
(line 144). The properties of `WebSocketFrames` are stated for streams without them
(`Agreed`, `mixed`), and the model contains the steps that follow.

## 5. Proofs

Every theorem holds for all values of the constants that satisfy the named assumptions of
the module: no bound of a run is in them. In each module the properties are not inductive;
`IInv` of the proof module (of `MProcess` itself for the pool) is, and it was checked by TLC
on the instance of the run before it was proved (`IInv` of `RatesProofs`, whose
`Sharing` is about every natural number `x`, for `x` up to 20; `PoolInv` there on
instances of `QpsPool` alone). Each theorem is `Spec => []Property` of its component, or
`Spec => Property` where the property is temporal. The last two are about `MCRates`, those about
frames are `OneStream => []Property` of `MCWebSocket`, and those about HTTP messages
`OneConnection => []Property` of `MCHttpStream`.

| Module | Theorems |
| --- | --- |
| `MProcessProofs` | `Invariance` (`IInv`), `Typing` (`TypeOK`), `Accounting` (`TasksAccounted`), `Slots` (`SlotsAccounted`), `Draining` (`LastOneDrains`), `Completion` (`StoppedMeansDone`), `Refinement` (`PoolSpec`: `MProcess` implements `TaskPool`) |
| `ConnectionProofs` | `ConnectionInvariance` (`IInv`), `Released` (`ClosedIsReleased`), `Once` (`FinishedOnce`), `Chained` (`ChainIsStack`), `TopDownAlways` (`FinishTopDown`) |
| `WebSocketProofs` | `WebSocketInvariance` (`IInv`), `OneReaderAlways` (`OneReader`), `NothingLeaks` (`NoLeak`), `NeverMixed` (`FramesNotMixed`), `OnCurrentOnly` (`SendsOnCurrent`); for `MCWebSocket`: `FramesInvariance` (`FramesInv`), `FramesSurvive` (`FramesExact`), `MessagesAreWhole` (`MessagesInOrder`) |
| `StreamProofs` | `ReadUntilInvariance` (`IInv`), `NoByteLost` (`Conservation`), `ShortestAlways` (`ShortestPrefix`), `WaitsAlways` (`WaitsForReason`), `ExactAlways` (`ExactIsExact`); for `MCHttpStream`: `HttpInvariance` (`HttpInv`), `MessagesFaithful` (`Faithful`), `MessagesAligned` (`Aligned`) |
| `TcpServerProofs` | `TcpServerInvariance` (`IInv`), `FieldsAgree` (`FieldsHold`) |
| `CommBridgeProofs` | `CommBridgeInvariance` (`IInv`), `StreamIsConveyed` (`Conveyed`), `LoopbackStaysInOrder` (`LoopbackInOrder`) |
| `SslProofs` | `SslInvariance` (`IInv`), `StreamStaysIntact` (`StreamIntact`), `ReadsStayAccounted` (`ReadsAccounted`) |
| `RatesProofs` | `SpeedLimitInvariance` (`IInv`), `RateIsKept` (`WithinRate`), `BytesAreKept` (`ReadKeepsBytes`); for `MCRates`: `RatesInvariance` (`IInv` and `PoolInv`), `PermitsStaySpaced` (`PermitsSpaced`) |

These are all the safety properties, state or action, that a passing run checks.

### Assumptions

- `MProcess`: workers are a finite, nonempty set, `None` is not one of them, the queue and
  the pipe have room for one.
- `Connection`: the adaptor is no transformer, and the owner is one of the tasks.
  `WebSocketProcessor`: `Nobody` is no sender, a frame has a piece. The transformers, tasks,
  openers and senders may be infinitely many.
- `ReadUntil`: no delimiter is empty (`bytearray.find` of nothing finds it everywhere),
  limits are natural or -1, `read` asks for at least a byte.
- `TcpServer`: the bounds are natural numbers.
- `CommBridge`: the stream, `max_per_read` (at least 1), the budgets (natural or -1) and
  `maxsize` are numbers of any size.
- `Ssl`: the ends differ, a handshake has at least two flights, and the numbers of writes, of
  cancellations and the low-water mark are natural.
- `QpsPool`: `Assumed` is a hypothesis of its lemmas and not an `ASSUME`, since `MCRates`
  instantiates the module; `MCRates` assumes it of its instance. Tasks and threads are finite
  and disjoint, requests are bounded.
- `WebSocketFrames`: lengths and the number of frames are natural numbers (`Assumed`, which
  `MCWebSocket` assumes of its instance).
- `HttpStream`: CR and LF are two bytes, and no other byte is one of them; a byte, a head and the
  length of a chunk are never the same symbol; bodies are any sequences of bytes, lengths any
  natural numbers, and a read asks for at least a byte (`Assumed`, which `MCHttpStream`
  assumes of its instance).
- `SpeedLimit`: tasks are finite, and there is at least one: `hint` is a bound for the
  first piece although nobody has to send it.

### Arguments

*`MProcess`.* `StoppedMeansDone` needs to know why the queue is empty
when all workers have ended, and this is a chain: a worker ends on an `Empty` only after it
saw the event (`EventInv`), the event is set only when the buffer is flushed (`fed = put`),
and an `Empty` that came from a busy lock means that somebody is inside `get` (`LockInv`)
who has a task or has not looked yet. `DrainInv` puts it together: if some worker is bound
to end, then nothing is left, or some live worker is not bound to end, or one was lost, or a call was cancelled.
Being *bound to end* (`Leaving`) begins at the `Empty` and not at the exit: this is the
strengthening that `LastOneDrains` lacks. `SlotsAccounted` needs `TaskInv` and `LockInv` to
know that at most one worker holds a slot back, and `StrayInv` that a stray and a `get` of
the same thread never coexist; a slot is missing only if some lost worker had received a task
(`Leakers`). There is one lemma per part of `IInv` (`TypeOKStep`, ...),
with a case for each action that can disturb it. For the refinement, `put`, `got`, `task`,
`done`, `dropped`, `cut`, the lost workers and a phase stand for the state of the pool, and
`StepRefines` maps each action to `Submit`, `Hand`, `Complete`, `Crash`, `Abandon`, `Drop`,
`Close`, `Finish` or a stutter; `Finish` uses `IInv` in the step of `JoinWorkers`.

*`Connection`.* `ClosedIsReleased` looks at the end of a `close()`, which may have many
awaits. `Loop` says what is true at each of them: the rest of the copied list is the lower
part of the stack, upside down, with everything above finished and everything below still
prepared. `OneClose` says that a second `close()` never gets that far (`_closed` is set
before the first await), and `Balance` that one `finish()` of the adaptor is due until then.
`FinishTopDown` follows step by step from `Loop`, since only the head of the rest is finished.

*`WebSocketProcessor`.* `close()` takes the fields away and leaves the connection to a task
that runs later, so `OneReader` must know that whatever is left of the past is due to end:
`Receivers` has for each receive task that is not told to end either the current connection
or a `_close()` that is scheduled, and `OneAtATime` that an `open()` at work was called after
all of these (`earlier`), which is why they are over when it sets the fields. `LockHeld`
carries the lock: who sends is at the head of the queue, and what it wrote last is what is last
on the wire. `FramesNotMixed` and `SendsOnCurrent` are properties of steps, from the same `IInv`.

*`WebSocketFrames`.* The parts of the frames under way are one sequence, and nothing in it says
where a frame ends: `OnWire` does, for a function `at` that rises by the parts of each frame.
`decode()` takes the parts of the first frame exactly if its length `Fits`, and gives the
frame back; after that the stream begins with the next one. `CutUp` cuts the received frames into
those of the messages delivered, those of the tasks not started and the rest, in which no
frame has `fin`. A step of `on_frame` adds a cut or lengthens the rest, a task or a
call at once moves the border between delivered and waiting. `FramesInv` has `at` and the cuts
behind a quantifier; TLC was given both as explicit functions of the state. That no
message begins with a continuation is part of `Numbered`.

*`ReadUntil`.* `Conservation` says that the stream is what was taken, what is buffered and
what has not come; its steps move a piece over one of the two borders (`MovesLeft`,
`Arrives`, `PassesThrough`). `ShortestPrefix` rests on `SearchIsFind`: what `read_until` skips
when a piece has come, all but one length of the delimiter before it, was searched without success
and ends before the new bytes (`AtInside`); that it *was* searched is `WaitsForReason`, which
is therefore part of `IInv` and not only a property. `ExactIsExact` needs `Gathering`: the bytes
gathered so far are the last ones taken.

*`HttpStream`.* What was consumed has left `wire`, and `log` does not say where the chunks of a
body began. So `HttpInv` says that there are a sequence `s` of all symbols ever sent, `wire` being
what is left of it after `pos` (`Left`), and a set of marks, one where each chunk begins or will
begin, with how much of the body comes before it. `Sent` is about `s`, the marks and the sender:
each message begins where the one before ends and is laid out as `encode()` does it, with the
length in its head that of its body unless it is chunked, or it is the last one and has no status
line; at each mark stand a chunk and the next mark, or the empty chunk and the end of the
message, or nothing yet, or what the peer broke the framing with. `Current` is about the receiver: it is at the beginning of
a message, behind its head, at a mark, in the chunk of a mark or behind it, and `in.body` with
`tbuf` is the body up to there (`Held`). Sending only adds at the end (`SentGrows`), which moves
neither the messages nor the receiver (`CurrentGrows`); `NewMessage` and `OpenMessage` are the two
ways `log` changes. A step of the receiver finds what stands at its place (`HeadFound`,
`ChunkFound`), reads exactly that (`EndOfHead`, `EndOfLine`: `read_until` stops at the line end
it is meant to, whatever the bodies hold), and goes on, fails or completes the message
(`GoesOn`, `Fails`, `Completes`). What is behind a chunk that was longer than its length is a
byte that is no line end, so `AfterChunk` allows for it, and `decode()` raises. TLC was
given `s` as a history variable and the marks as a function of it.

*`TcpServer`.* `start()` writes its fields after an await. `Starting` says what it may rely
on: unless a `stop()` crossed it, it is the only one, and nothing else listens but what a
cancelled `start()` left (`orphans`). `Given` and `PortHolds`: a port that was given is
never replaced, and one of the system is that of the server that listens. `Inside` and `Reset` are about `_forever`: a caller in `run_forever()` owns the field
and its task, a returned task whose caller was not cancelled has one that will reset it, and what
remains is a task cancelled before its first line, or one that had ended when its caller was
cancelled.

*`CommBridge`.* How far the copy is follows from `pc`, `pos`, `nread` and `_total_read` alone
(`Copying`), whatever the sizes of the reads and of the short writes. For the loopback,
what `FlattenSeq` makes of a list that grows, or loses its first slices and a part of the next,
has to be known for lists of any length: `Joins` are the sequences it makes of the first `i`
slices, which exist and are unique (`JoinsExists`, `FlattenIs`), and from which
`FlattenBoth` follows. `LastSliceIs` says that `read` ends in the slice that `n` reaches and the
ones before do not, `ReadLeaves` that what stays in the list is the rest of what it held.

*`Ssl`.* The bytes between two engines are in five places: read but not decrypted, on the wire,
left over in the `write_all` of either task, and in `_out`. `Uncut` says that these
are five adjacent stretches (`Stretch`) of one numbered stream. Each step moves a piece over
one border; that the two `write_all` never both hold some, unless the
stream is damaged, is `Writers`. Streams that were damaged also matter, since `seen`
counts records of the peer: `Known` says that none is taken that was not produced. `Flights` keeps
the handshake in step at both ends; it is why a task in its handshake never finds data.
`ReadsAccounted` counts replies against dropped records, which needs `InHand`: whoever holds a
record has produced a reply that no dropped record has used up.

*`QpsPool`.* A bound on `level` alone says nothing about sleepers who will add to it.
`Apart` gives each sleeper a stretch of time for its permits, before it is due, that is
disjoint from the others'; `Room` says that now, and at each of these times, the bucket has
room. When time passes by more than one sleep (`Tick`), all that come due add up to at most the
time that passed: a sum over a set of disjoint stretches, by the lemmas about `SumOver`.

*`SpeedLimit`.* A sleeper does not look at `_wnext` again, so `next` says how much is ahead
only together with those who may go on. `Sharing` is a family of bounds: for each `x`, `next`
is at most `x` and a piece for each active task, less a piece for each that may go on within
`x` ticks. It is inductive since the task that goes on moves `next` by its piece and
leaves the set, and `WithinRate` follows with `Behind`.

*`MCRates`.* A step of `MCRates` is a step of one component and a stutter of the other, so
`IInv` of `SpeedLimit` and `PoolInv` of `QpsPool` hold together (`RatesInvariance`).

*Induction over data.* The induction theorems of the library take an operator as a parameter,
which the provers at hand cannot instantiate. What a fold over a finite set computes is proved
without them: by a smallest counterexample among the subsets of the set
(`SmallestSubset`), which exists because strict inclusion is well-founded on them.
`JoinsExists` and `FlattenIs` do the same with a smallest number (`Least`). `StreamProofs`
gets by without induction: `Find` and `EndOf` are defined by a smallest position, and everything
else by lengths and indices.

### Only model-checked

Liveness: `CallsReturn`, `CloseCompletes`, `SendsEnd`, `CallsEnd`,
`HandshakeEnds`, `DataArrive`, `ForeverReturns`, `WaitReturns`, `SleepersReturn`,
`Received`, `MessagesArrive`. Fairness and `ENABLED` are out of the prover's reach.

## 6. Not modelled

- Several coroutines that iterate over one `MContext` at the same time (its semaphore).
- Several readers of one `SslTransformer` at the same time: each end has one, and a writer.
- An `HttpChunkTransformer` over a layer that takes short writes (section 4).
- Interrupts of a worker in the barrier or in `shutdown()`, which end it as `Kill` does.
- URL parsing; in the upgraders, which headers the request has and how the answer is judged
  (a request, a response and the layer they are made for are in `HttpStream` and
  `Connection`).
- The clock itself: rounding of floats, and a `QpsPool` without a limit, which never waits.
- Parsing and formatting of text: header lines, request lines, addresses.
- `file_loader`, adaptors for files, debug output: sequential, around a single call.

## 7. Plan

The order was: the pool first, since it is the only part with real parallelism and crashes
and has a promise to its owner that can be refined and proved; then the connection and the
WebSocket client, where most of the interleavings are; then what cuts streams into messages,
from the bottom (`ReadUntil`) up (`HttpStream`, `WebSocketFrames`); `CommBridge` beside them.

After them came what pumps and waits: asynchronous iteration in `MProcess`, the SSL pump at
both ends, `TcpServer`, and the two rate limits.

Then came the proofs, in the order of section 5: the pool and its refinement, the connection,
the WebSocket client, the server, the two rate limits, the read-until buffer, the SSL pump,
the bridge, the frames and the HTTP messages. They changed the models only in form (a step that was hidden in a temporal formula
got a name, a sum became `SumOver`).

What is left are abstractions: a byte pipe that `ReadUntil`, `CommBridge` and `Ssl` implement;
a resource, opened and released once, that `Connection` implements and `TcpServer` and
`WebSocketProcessor` use.

## 8. Running

In this directory, `tlc -config MProcess.cfg MProcess` and likewise for the other
runs (`PROJECT.json` names the module of each); `tlapm MProcessProofs.tla` checks the proofs
of the pool, and likewise for the other modules whose names end in `Proofs`.
