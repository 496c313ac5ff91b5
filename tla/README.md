# rsocket-js: a TLA+ verification project

Formal models of the core of [rsocket-js](../src/README.md), an implementation
of the RSocket protocol in TypeScript: requests, streams and channels
multiplexed over one TCP or WebSocket connection, with leases, fragmentation
and resumption of a session over several connections. `src/packages/rsocket-core`
is the library; the other packages are transports, adapters and helpers.
Paths below are relative to `src/packages/rsocket-core/src/` unless they start
with a package name.

## 1. Inventory

The program is single threaded. What interleaves is (a) the events of the
event loop: socket data, socket close, timers, promises, calls of the
application; (b) the two peers; and (c) application code that runs *inside* the
library, because receivers are called synchronously, and calls the library back.

| Component | State it keeps | Operations | Talks to | What is hard | What makes it correct |
|---|---|---|---|---|---|
| `ClientServerInputMultiplexerDemultiplexer` (`ClientServerMultiplexerDemultiplexer.ts:40-168`), `StreamIdGenerator`, `Deferred` | stream registry, current id, done | createRequestStream, connect, disconnect, handle, close | streams, connection, request handler | callbacks in the middle of `next`, `handle` and `close` | ids grow, a stream stays registered under its id, one terminal signal each, nothing survives close |
| `ResumableClientServerInputMultiplexerDemultiplexer` and the two that await RESUME / RESUME_OK (`:170-407`), `FrameStore` (`Resume.ts`) | outbound connection, byte positions, stored frames, session timer, session store | send, handle, resume, close, dropTo, drain, record | two peers over several connections, `RSocketConnector`, `RSocketServer` | connection lost anywhere, also in the handshake; old and new connection overlap; timer against late RESUME | stream frames arrive exactly once and in order; positions agree; a dead session stays dead |
| `LeaseHandler` (`RSocketSupport.ts:183-238`), `LeaseManager` | pending requests, units left, expiration | handle LEASE, requestLease, cancelRequest | multiplexer, streams | application runs in the drain loop; expiry; the bound; cancel; close | no lease overdrawn, queue bounded and in order, nobody waits beside a usable lease |
| `RequestChannelStream.ts` | two half-closed flags, demand, fragments, deferred error | request, cancel, onNext, onComplete, onError, every frame, close | multiplexer, peer stream, two applications | CANCEL, COMPLETE, ERROR crossing; calls before the stream id; handler that fails its stream | one terminal signal; the ends agree; demand conserved; not leaked in the registry |
| `RequestStreamStream.ts`, `RequestResponseStream.ts`, `RequestFnFStream.ts` | done, fragments, initial demand | as above, one direction | as above | cancel against response, close against emission | one terminal signal; cancel once |
| `Fragmenter.ts`, `Reassembler.ts` | positions in two buffers, bytes left; the fragments held | fragment, fragmentWithRequestN, add, reassemble, cancel | streams, codec | boundaries of metadata, data and headers | the bytes arrive, no fragment is too big, the last one ends the payload |
| `KeepAliveHandler`, `KeepAliveSender` (`RSocketSupport.ts:397-523`) | Paused/Running/Closed, timer, time of the last frame | start, pause, close, handle, timeout | connection, resumption | timer against late frames; paused by a lost connection | a dead peer is noticed, a live one is not closed |
| `RSocketConnector.ts`, `RSocketServer.ts`, `DefaultConnectionFrameHandler`, `DefaultStreamRequestHandler`, `RSocketRequester` | session store, config | connect, setup, resume, reject | all of the above | async acceptor while the socket closes | a peer is accepted once or told why not |
| `Codecs.ts`, `Frames.ts` | none | serialize, deserialize, length framing | transports | chunk boundaries | round trip |
| `rsocket-tcp-client`, `rsocket-tcp-server` | socket, rest of the last chunk, done | send, handleData, close, accept | multiplexer | a frame split over chunks; close inside the loop over a chunk | every complete frame is handled once, none after close |
| `rsocket-websocket-*` | socket, done | send, handleMessage, close | multiplexer | as TCP, without chunks | as TCP |
| `rsocket-adapter-rxjs` | buffer, requested, work in progress, done | next, error, complete, request, cancel, drain | streams, rxjs | demand against emission, reentrant drain | items in order and on demand, then one terminal signal |
| `rsocket-messaging`, `rsocket-composite-metadata` | none or a builder | encode, decode, route | core | - | round trip |
| `rsocket-graphql-*`, `rsocket-examples` | - | glue | third parties | - | - |

The hazards, each at its line, are listed in `PROJECT.json`, with the
properties that would catch them and a note where none can.

## 2. Modules

| Module | Models | State and actions against the code |
|---|---|---|
| `Multiplexer` | requester side of the multiplexer under `TcpDuplexConnection.handleData` | `registry`, `currentId`, `connState` are the fields; `stack` holds the library calls in progress, so that an application call inside a callback is an ordinary action with a deeper stack. One action per call and per return; a step of a loop (`handleData`, `close`) is an action. A stream is the generic requester: handleReady, handleReject, a response, cancel, close |
| `LeaseHandler` (EXTENDS `Multiplexer`) | `LeaseHandler` over that multiplexer | `pendingRequests`, `availableLease`, `timeLeft` (expiration minus now); `RequestWithLease`, `RequestRefused`, `RequestQueued` are the three outcomes of `requestLease`; the drain loop is a frame on the stack |
| `ReliableDelivery` | what a session promises: exactly once, in order | abstract; two actions |
| `ResumableSession` | both peers of a session, their frame stores, the connections | stream frames are numbered and have arbitrary sizes (`FramePos`), so positions are the code's byte counts; `StoredFrames` is `storedFrames`, `Transfer` is `send` over the current connection; `HandleResume`, `HandleResumeOk` are `resume()` on the server and on the client; `LoseConnection`, `PeerClosed` close an end of a connection at any time, also from `close()` of the application |
| `RequestChannel` | both ends of one channel, their applications, the frames in flight | `phase` is how far a stream is (no id yet, assembling the request, inside the handler, receiver known); half-close flags as in the code. All callbacks come last in their function or when both directions are done, so a call made inside one is the next action; the exception, the handler of the responder, is a phase |
| `StreamPair` | what the other three kinds of stream share | the fields of the two stream objects, the two registries, the frames on their way, what subscriber and publisher did and were told |
| `RequestStream`, `RequestResponse`, `RequestFnF` (EXTEND `StreamPair`) | both ends of one stream | one action per frame handler, per call of the application and per end of the handler, which may run synchronously inside the constructor (phase `handler`) |
| `Streams` | the three kinds, chosen in the initial state | composes them (`INSTANCE`) over the same variables |
| `Fragmentation` | the two generators and the receiver's reassembly, for one payload | a byte is its position in its buffer; one action per `yield` or loop round; `Slice` is `Buffer.slice` with negative positions; the receiver is fed at once, for fragments are only ever delivered in order |
| `Codecs` | every serializer, deserializer and size, and `deserializeFrames` | operators on sequences of bytes, with the code's flags, widths and signedness (`readInt32BE` against `writeUInt32BE`); `Throws` is the exception of a deserializer. `null` is `<<>>` and a buffer is `<<bytes>>`, so that an empty buffer is told from none |
| `CompositeMetadata` | composite metadata, routes, credentials | operators on bytes, errors included |
| `Wire` (EXTENDS `Codecs`) | `send`, the data, message and close handlers of the four duplex connections, the accept path of the two servers | `remaining` is `remainingBuffer`; `held` is the rest of the first chunk that waits for the acceptor; chunks end at any of `ChunkSizes` |
| `Messaging` (EXTENDS `Wire`, `CompositeMetadata`) | requester and responder of `rsocket-messaging` over that wire | a request is built, encoded, cut into chunks, decoded and dispatched among the routes registered when it arrives |
| `KeepAlive` | `KeepAliveHandler` and `KeepAliveSender` of one end | records with the state, the time since the last frame and the timers; a timer is due after its interval and fires up to `Lag` late |
| `Connection` | connecting, SETUP and its rejections, the awaited acceptor, keepalive at both ends, a link that is cut, a resumption | `CloseWith` is everything `close()` of a connection sets off; `Cut` loses all from now on; `Pass` is time |
| `RxAdapter` | both ends of a response, stream or channel through the rxjs adapter | the buffering subscriber with its drain loop turn by turn (`missed`, `requested`, `delivered`, `wip`), the prefetching observable, the scheduler's tasks; the core streams are taken down to what they tell the adapter |
| `Sums` | how demand, items and requests are counted | used by `Streams`, `RequestChannel`, `Connection` and `RxAdapter` |
| `LeaseHandlerProofs` (of `Multiplexer`, too), `FragmentationProofs`, `ResumableSessionProofs`, `SumsProofs`, `StreamsProofs`, `RequestChannelProofs`, `ConnectionProofs`, `RxAdapterProofs` | theorems | section 5 |

`MC...` modules hold the constants of the configurations. An operator that no
specification uses and `PROJECT.json` lists under "mutants" is a faulty variant of
the definition that follows it; for each property one of them makes TLC find a
violation.

What composes what: `LeaseHandler` runs over the multiplexer it extends;
`Streams` puts the one-directional streams over one pair of registries;
`Messaging` puts routing over metadata over codecs over the wire; `Connection`
puts two `KeepAlive` ends, setup and the transports together; `ResumableSession`
implements `ReliableDelivery`. `RxAdapter` stands on the interface that
`RequestChannel` and `Streams` are about, not on those modules, whose state
would be multiplied by that of the drain loops.

## 3. Runs

| Run | Instance | Shows |
|---|---|---|
| `mux_calls` | 6 requests (2 fire-and-forget), calls from the callbacks of responses, rejections and close, chunks of up to two frames | ids increase; a live stream is the registered one and gets its own response; receivers are told once, and all of those whose request was written by the time of close |
| `lease` | 3 requests, calls from every callback, chunks of 2, queue of 2, leases of 0-2 requests that expire at once or later | unit account; bounded queue that holds what waits, in order, and nothing beside a usable lease; a waiting request is served while the peer grants |
| `resume_orderly` | 2 frames each way of different sizes, 3 connections, keepalives both ways | delivery once and in order, positions and stores, refinement of `ReliableDelivery`, and delivery in the end |
| `resume_stale` | RESUME may overtake the end of the old connection, the token may be reused | what still holds then |
| `channel` | demand of 2 and 1, whole and fragmented payloads, every interleaving and a close of either end | what both applications are told, agreement on the open directions, demand conserved, no leak, both ends finish |
| `streams` | one stream, response or fire-and-forget, demand up to 3, whole and fragmented payloads, a lease that comes late or never, an extension while it waits, every interleaving and a close of either end | the same for one direction |
| `fragments` | all payloads up to 20+16 bytes, fragments of 7-13, the four kinds of use | round trip, fit, termination |
| `messaging` | 13 frames of all types and 5 requests with all kinds of metadata, at most 2 on a connection after what opens it, chunks of 3 and 400 bytes, WebSockets, client and server, an acceptor that answers late or throws, handlers registered at any time | frames survive chunks, sizes agree at both ends, requests reach the handler of the first of their routes that has one, metadata arrives |
| `connection` | 4 pairs of configurations (fitting with and without resumption, leases on one side, no store), one request, keepalive of 1 tick, lifetime 3, the floor of the check 2, timers up to 1 late, one resumption | rejections are told, requests made before the acceptor answered are handled, no timer is left, no live peer is given up, no dead one kept |
| `rx` | a response, streams of 3 and 5 items with prefetch 1 and 4, channels of 2 and 1 or 2 items with prefetch 1 and 2; sources and unsubscribing also from inside `onNext` | items in order and then the terminal signal, demand conserved, every source's end arrives |
| `mux_nested_requests`, `keepalive_resumed` | small | disagreements of the code with what its docs and tests say, section 6 |

**Why the bounds are enough.** *Requests*: a corrupted id needs one request that
runs inside the callback of another, a third to reuse the id and one more to be
hit; 6 with symmetry cover it, and leave two for a chunk that outlives its
connection and for the loop of `close`. *Lease*: a queue of 2 is the smallest with an
order and a limit, 3 requests the fewest that overflow it. *Connections*: with
three there is a resumed connection that is itself lost, so that a store is
filled, dropped from and resent twice; the last one is never lost, or nothing
could be delivered. *Frames*: two per side with different sizes, so that
"dropped one, kept one" and a position between two frames exist. *Demand*: 2 and
1 give a terminal signal before, between and after items; items are alike to the
code. *Bytes*: fragments of 7 to 13 with up to 20 and 16 bytes give up to four
metadata-only fragments at the smallest size, the shared fragment, each exact
fit, and first frames with every amount of room left, also negative ones.
*Chunks*: 3 bytes is the length field, so that a chunk ends right after it,
inside it once frames are not multiples of 3, and inside headers and payloads;
400 takes frames together. *Fields*: values at the ends of their widths (31 bits,
a type name of 128 bytes, a route of 255, positions over 2^32). *Time*: a check
that is put off (2) is shorter than the lifetime (3) and longer than the interval
(1), so a handler looks before, at and after a timeout. *Prefetch*: 1, 2 and 4
are where `prefetch - (prefetch >> 2)` is the prefetch, and where it first is
less; 5 items cross the limit of 3 with some left.

**State limits.** Deadlock is not checked where a run may really end (a closed
connection, a finished stream, an exhausted generator). Unbounded counters of
the code (stream ids, byte positions) are unbounded in the models; the number of
requests, frames, connections, items and units of demand bounds them.
`KeepAlive` caps the time since the last frame at `LongestIdle` + 1, past which
nothing depends on it. A listener is only closed before the client connects:
after that it has no part in a connection.

**Fairness.** Only the library, the transport and the clock are fair, never the
application. `LeaseHandler!FairLeaseSpec`: calls in progress run on (the event loop is not
blocked), and leases keep coming: strong fairness of a grant, for the library may be
busy whenever one arrives. `ResumableSession!FairSpec`: frames that arrived are
handled, a socket learns that its other end is closed (TCP and the keepalive
timeout see to it), and `reconnectFunction` resolves in the end.
`RequestChannel!FairSpec`, `Streams!FairSpec`: the event loop of each end does not stop while it has
frames to handle, a handler that can return, or a socket whose other end is
closed. `Fragmentation!FairSpec`: the
`for ... of` loop runs the generator to its end. `Connection!FairSpec`: the
transport binds and connects or fails, data that came is read, the acceptor
settles, timers fire, time passes. `RxAdapter!Spec`: the drain loop goes on,
frames are handled, scheduled tasks run; sources owe nothing. All are weak
fairness but for the grant.

## 4. Properties and why they need a model

* *Reentrancy* (`IdsIncrease`, `ResponsesReachTheirRequest`, `OutcomesAreTrue`,
  `LeaseAccounting`, `QueueSound`, `RxDelivery`): violated only by an application
  that calls back at one of a handful of points. The first three hold in
  `mux_calls`, where any callback but the completion of a fire-and-forget may call
  the library, also in the middle of a chunk and of the loop of `close`; the
  first two fail with the completion, too (`mux_nested_requests`). What `OutcomesAreTrue`
  promises of those hard cases is that the loop reaches every written request
  although receivers cancel others and issue more meanwhile, and that nobody is told
  twice. It excuses two things the code gets wrong, each with a configuration of its own (section 6): the
  response that follows, in its own chunk, a close (`LateResponse`,
  `MuxCloseInChunk.cfg`), and a request made inside the loop of `close`, of which
  nothing is written (`Written`, `MuxRequestInClose.cfg`).
* *Two ends* (`ApplicationContract`, `RegistryAgrees`, `DemandConserved`,
  `EventuallyBothDone`, `EventuallySettled`): the streams are written and
  unit-tested one end at a time, against mocks. That no unexpected frame
  arrives (part of `DemandConserved`) is also why the "Unexpected frame type"
  branches are not modelled: no frame of these peers reaches them. The liveness
  properties excuse a request that was never sent (`onError` before the id), never
  arrived, or was rejected.
* *Positions* (`Delivery`, `SessionConsistent`, `SizesAgree`): the
  protocol counts bytes and trusts both sides to count the same ones. The first
  two hold if the server sees the old connection close before RESUME arrives, and
  `ResumeOverlap.cfg` shows how they fail if it does not; that the three functions that know a frame's layout agree is what they rest on.
* *Refinement*: `DeliversReliably` maps a session to `ReliableDelivery`, with
  `delivered` of the other peer for `arrived`.
* *Reference definitions*: `RoundTrip` compares fragmentation with the payload,
  `FramesIntact` what is handled with what was sent (no byte lost between two
  chunks, no whole frame left waiting), `MetadataArrives` the decoded metadata
  with the entries given. `RequestsReachTheirRoute` relates what became of a request
  to the routes the application gave it, as data, and the handlers registered: no
  encoder or decoder is in it, so that an error of the route codec cannot stand on
  both sides, and it does not follow the search of the dispatcher. It excuses one
  thing: a route that comes after one registered for other types only may be
  shadowed by it. `MessagingShadowed.cfg` checks the answer "Route not
  found" itself, and finds it false for just that.
* *Setup and time* (`SetupAgreed`, `CloseIsComplete`, `KeepAliveSound`): an
  acceptor is awaited while the socket goes on living, and two periodic timers
  race with frames that are late. `stalled` is why the second clause of "a live
  peer is not given up" is needed: an acceptor that takes longer than the lifetime
  does get its client given up, for the server's socket is paused.

## 5. Proofs

All in TLAPS (SMT, Zenon, PTL), for **every** value of the constants the named
assumption allows.

`LeaseHandlerProofs`, first part: of the multiplexer alone, from `MuxAssumption`, for
every set of requests:

* `MuxTypeCorrect`: `MuxSpec => []MuxTypeOK`, for every choice of reentrant
  callbacks and chunk size. The stack is the hard part: every call in progress must
  have the fields its return will read (`FrameFields`). One lemma per shared
  operation (`CreateType`, `SettleType`), one step per action.
* `IdsIncreaseCorrect` and `RoutingCorrect`: `IdsIncrease` and
  `ResponsesReachTheirRequest` hold whatever the application calls from callbacks,
  but for the completion of a fire-and-forget: the theorems' assumption is exactly
  what `mux_nested_requests` drops. Neither property is inductive. `RouteInv`
  adds that a `handleReady` in progress is the innermost call and has the id after
  `currentId` (`ReadyIsInnermost`), that ids on the wire and in the registry have
  been handed out, and that an id belongs to the same request in both
  (`WireAgrees`), also when the frames of a chunk are handled after that
  request ended (`ChunksFromWire`).
* `OutcomesCorrect`: `OutcomesAreTrue` under the same assumption and no other: for
  chunks of every size and calls from the callbacks of `close` and of responses.
  `OutcomeInv` adds what makes the loop of `close` complete although
  its callbacks go on calling. There is at most one such loop on
  the stack, at whatever depth, while the connection is closing, and the
  keys it has left cover every written stream in progress (`ClosingWith`, `Covers`):
  a request made meanwhile is not written, and a key that is gone has no stream in
  progress. The registry holds streams in progress and those the loop has failed
  (`EntriesSound`); the former were told nothing and the latter once
  (`SignalsTold`), which is why a second signal can only be the late response of a
  chunk. `ToldOncePerStep` draws
  the action property from it.

`LeaseHandlerProofs`, second part, from `MuxAssumption` and `LeaseAssumption`, for every set of
requests, choice of reentrant callbacks, chunk size, queue bound and lease:

* `LeaseTypeCorrect` and `LeaseCorrect`: `LeaseSpec => []LeaseTypeOK` and
  `LeaseSpec => [](LeaseAccounting /\ PendingBounded /\
  WaitsOnlyWithoutLease)`. The account alone is inductive
  given types; `WaitsOnlyWithoutLease` is not: that the queue is drained when
  the `while` loop ends needs that the loop is still the *outermost* call of
  the stack whatever the application does inside it. That is `Draining`; the
  lemmas `PushKeepsOutermost`, `ReturnKeepsOutermost`,
  `CreateKeepsDraining` and `MuxStepKeepsDraining` show that no step but the end of
  the loop itself removes it, and `LeaseInv` adds it to the invariant.
* `QueueSoundCorrect`: `LeaseSpec => QueueSound`, an invariant and an action
  property. `QueueHoldsPending` needs that no request of the multiplexer's registry
  waits (`RegisteredStarted`), or the end of a stream could be taken for that
  of one in the queue; `FieldsOfAppend`, `FieldsOfTail` and `FieldsOfSplice` are
  the lemmas about the three operations on the queue. The order of service
  (`HeadFirst`) follows from `WaitsOnlyWithoutLease`: a request that finds a usable lease
  while others wait can only come from a callback of the drain loop.

`FragmentationProofs`, from `FragmentationAssumption`, for payloads of **every**
length and **every** fragment size bigger than the headers:

* `FragmentationTypeCorrect`: `Spec => []TypeOK`, where only the upper end of a
  position is bounded by types; `StageInv` adds how the three stages relate to the
  positions, which also holds of the payloads the generators get wrong.
* `RoundTripCorrect` and `FragmentsFitCorrect`: `Spec => []RoundTrip` and
  `Spec => []FragmentsFit`. `RoundTrip`
  speaks of the end only. What is inductive is `Underway`: the receiver holds the
  prefixes of both buffers up to the positions, but for the metadata cut for the
  next fragment. Two clauses carry the argument that the payload is delivered by
  its *last* fragment. The room of the first fragment is less than the data
  (`Room < Len(data)`), for else the payload would not have been fragmented, so the
  first fragment is never the last; and the receiver has metadata from its first
  fragment on, for it drops what comes later. `FitInv` keeps the room nonnegative,
  which is where `HeaderTwice` has to be excluded. One lemma per action; `CutFacts`
  says what `Buffer.slice` returns between positions in order.

`ResumableSessionProofs`, from `SessionAssumption`, for every number and size of
frames and every number of connections. With stale connections and reused tokens:

* `OneClientConnectionCorrect`: `Spec => []OneClientConnection`. Not inductive:
  the reconnector opens a connection without looking for one. `ClientInv` adds that
  it waits only while no connection of the client is open; a close may start it
  because, by the property itself, the connection that closes was the only one.
* `GivenUpIsClosedCorrect`: `Spec => []GivenUpIsClosed`. Inductive as it is; the
  lemmas `NothingGivenUp` and `FailureCloses` say why for all steps but the two
  that reset or forget a session.
* `SessionTypeCorrect`: `Spec => []TypeOK`: stores hold frames that exist, and
  positions are never negative although they are differences. `FramesTo` is the
  strengthening: a stream frame on its way to p has a number of the *other* peer,
  or what it adds to `lastReceived` would be undefined (`SizeNat`);
  `StoredFramesType` is the same of what is sent again.

And for a session resumed in order, `Orderly == ~StaleConnections /\ ~TokenReuse`
(what `ResumeOrderly` runs). Each half is needed: with either constant TRUE, TLC
finds both properties below violated.

* `DeliveryCorrect` and `SessionConsistentCorrect`: `Spec => []Delivery` and
  `Spec => []SessionConsistent`. Neither is near inductive: what keeps the two
  stores together is on its way between them. `OrderInv` describes it, for the one
  connection `InUse` that the server's multiplexer sends on:
  `FramesFollow(p)`: the stream frames on their way continue, in order and without
  a gap, where the receiver stands (`InSequence`), and while both ends are open and
  p sends there, none is missing (`Complete`);
  `PositionsFollow(p)`: the positions in keepalives and in RESUME_OK are
  those after a frame p still has, and do not decrease (`Acknowledges`), so that `dropTo`
  lands on a frame boundary (`DropReaches`, from the strict growth of
  `FramePos`); `FrameOrder`: any other connection carries at most one pending
  RESUME, with the client's *present* positions, and RESUME_OK comes first on
  a connection that awaits it; `Succession`: connections are opened and left in order at
  both ends; `TimerInv`: only the remembered timer is set, and only without a connection.
  One lemma per action (`SendStreamFrameOrder` ... `HandleResumeOkOrder`), over
  lemmas about what appending to and taking from a pipe does to `InSequence`,
  `Complete` and `Acknowledges`. `NoFailure` shows that the five failing actions,
  whose positions cannot be found, never happen in such a session.
* `DeliversReliablyCorrect`: `Spec => DeliversReliably`, the refinement of
  `ReliableDelivery`. `StepRefines`: a `SendStreamFrame` is a `Send`, a
  `HandleStreamFrame` is an `Arrive` of the *next* frame, because `FramesFollow` says what the
  head of the pipe is, and all other steps stutter (`NothingArrives`).

`SumsProofs`, about sequences of every length: `Total` is a recursive function, and
what it computes is proved by induction all the same. The induction theorems of the
library take an operator, which the provers cannot instantiate; `LeastNatural`
(every nonempty set of naturals has a least member, from the well-foundedness of
strict inclusion among finite sets) takes a set, and serves as well: of the
lengths for which a statement fails, take the least. `UpToTotal` and `UpToExists` replace the
recursion by its equations; `TotalConcat` and `WeighTail` are what the streams
need, `OccurrencesAppend` the same for counting a signal.

`StreamsProofs`, from `StreamAssumption`, for every `MaxDemand`, with payloads of
one frame and of two, and for the three interactions at once:

* `StreamsTypeCorrect`, `RegistryAgreesCorrect`, `ApplicationContractCorrect`,
  `DemandConservedCorrect`: `Spec => []P` for every invariant of run `streams`.
  None of the last three is inductive, for each speaks of one end and what makes it
  true is at the other or on its way. `IInv` has a part for each: the phases of the
  two ends and what they exclude (`PhaseInv`, `RegistryInv`); the request comes
  first, once, and its last fragment right after it (`RequestInv`), so that neither
  a `REQUEST_N` nor a cancel can find a responder still assembling; when one end is over
  and the other is not, a CANCEL or a frame that ends the stream is on its way, and
  such a frame is the last of its pipe (`EndsInv`); while the requester is not done,
  the items given to the subscriber and the items in flight are the items published
  (`ItemsInv`, by weight); and the demand of the subscriber is that of the
  publisher, that in flight and that which the one end that waits holds (`DemandInv`).
* The proof does not go through the 26, 22 and 12 actions for each part:
  `StreamSteps`, `ResponseSteps` and `FnfSteps` show that every action has one of nineteen
  effects, among them `Asks`, `CallsHandler`, `Publishes` and `ClosesResponder`, and
  `PhaseStep` ... `DemandStep` that each effect preserves each part.

`RequestChannelProofs`, from `ChannelAssumption`, for every `MaxDemand` of the two
subscribers, and with payloads and requests of one frame and of two:

* `ChannelTypeCorrect`, `RegistryAgreesCorrect`, `ApplicationContractCorrect`,
  `DemandConservedCorrect`: `Spec => []P` for every invariant of run `channel`.
  A channel is harder than a stream because its two directions end separately: the
  CANCEL, COMPLETE and ERROR of each cross those of the other. `IInv`
  therefore speaks of one end `p` at a time, and of the direction towards it. When
  the sender of that direction is done and p is not, a frame that will end it is on
  its way to p, and vice versa a CANCEL or ERROR for what p's publisher sends
  (`EndsInv`), which also says what such a frame proves about the end that sent it;
  `EndsAgree` is that clause with empty pipes. No item or completion follows, in the
  pipe to p, a frame that ends p's direction, and once p's subscriber has its
  terminal signal none is on its way at all (`SignalsInv`); the error a handler raises in its own
  stream is owed to it until it returns (`DeferredInv`). Items given and items
  on their way are the items published, where a payload counts in its last frame and
  the last frame of a fragmented request, which is no item, is subtracted
  (`ItemsInv`, `Extra`); demand likewise (`DemandInv`). The second fragment of a
  payload or a request is the very next frame (`FragmentsInv`), so `REQUEST_N` never
  finds a stream that is reassembling.
* As in `StreamsProofs`, every action has one of nineteen effects (`StepEffect`),
  named after what an end does: `AsksMore`, `Publishes`, `Leaves`, `TakesEnd`,
  `CallsHandler` and so on. One lemma per part of the invariant (`PhaseStep` ...
  `DemandStep`) goes through them. TLC
  checked `IInv` first, over all 419316 states of run `channel`.
* `DoneIsSignalled` keeps its exception: the error that a handler raises before it returns is
  lost if the request came in fragments (section 6).

`ConnectionProofs`, from `KeepAliveAssumption` and `ConnectionAssumption`: for every
set of configurations, number of requests and number of resumptions, and for every
interval, lifetime, floor of the timeout check, lateness of timers and delay of
frames such that an answer can come within the lifetime
(`Lifetime > Interval + Lag + 2 * Delay`; the code checks nothing of the kind, its
defaults are 60 s and 300 s, and with a shorter lifetime a live peer *is* given up):

* `SetupAgreedCorrect`, `CloseIsCompleteCorrect`, `KeepAliveSoundCorrect`:
  `Spec => []P` for every invariant of run `connection`. The hard one is that no
  live peer is given up, which needs a reason, in every state, why the next keepalive
  frame will come in time, as an inequality between the idle time of a handler
  and something that exists now. `ClientHears`: a frame on its way to the client that is old
  enough, a request for an answer on its way or held for the acceptor, or a timer of
  the client's sender with so many ticks left. `ServerHears` is the same of the
  server, where SETUP and the end of the socket count too. That the handlers run at
  all (`EndKept`) says of every end that it is new, running with one timer within its bounds
  (`Armed`, `Sending`), or closed for good, whichever of connection, acceptor and
  close came first; it gives `CloseIsComplete` and the bound `LongestIdle`.
  `Stages`, `Wires`, `Told` and `Counted` carry `SetupAgreed`: what
  excludes what until the acceptor has answered, what may be on its way to whom and
  when the end of a socket is, that a rejection is the first thing a client
  finds, and where every request is. `HeardInTime` is where the
  assumption about the lifetime is used. TLC checked the invariant first, with
  three sets of parameters (lifetimes 3, 6 and 4, delays 0 and 1).
* One lemma per action; `CloseInvariant` is shared by all five ways to close an end.

`RxAdapterProofs`, from `RxAdapterAssumption`, for responses, streams and channels
with **every** prefetch and any number of items from either source:

* `RxDeliveryCorrect` and `RxDemandConservedCorrect`: `Spec => []RxDelivery` and
  `Spec => []DemandConserved`, for every invariant of run `rx`. Neither is inductive:
  both speak of an observer at one end and a source at the other. Between them
  are a buffer, a loop that may be in the middle of a round, frames and tasks, and
  either direction may close without the other end knowing. `FlowInv(q)` describes the
  way to the observer of q: the items on their way have the numbers after
  those it got, in order and without a gap, up to some m (`InOrder`); those in the
  buffer follow m (`Following`) as long as the source's direction is open; no item
  follows the frame that completes, and such a frame is there only if the source is done
  and m is all it emitted (`CompletesLast`). `FailureInv` says
  what an ERROR or CANCEL on its way proves about the end that sent it (`Excused`),
  `UnbornInv` what can have happened before the responder sees the request,
  `SourceInv` why the last item may be sent as the completion, and `OpenInv` that
  an observer whose direction was closed under it has lost the other one, too.
  `DemandInv` counts the demand by weight; `NextRemainder` is the arithmetic of
  asking again after every `Limit` items, for every `Limit`.
* A call from inside the loop is what could break the count: `LoopInv` keeps the
  demand the round began with equal to the demand there is until
  the round ends, which `DrainFacts` and `DrainStep` carry through reentrant calls.
* As for streams, every action has one of sixteen effects on the end that takes it
  (`StepEffect`), and `UnbornKept`, `SourceKept`, `OpenKept`, `FlowReceived`,
  `FlowSent`, `FailureKept` and `DemandKept` go through them. TLC checked `IInv` and the
  effects first, over the 295734 states of run `rx`.

Model-checked only: the invariants of `Messaging`, with `Wire` below it; every
other invariant of a run is proved. Out of the prover's
reach and left to TLC: every liveness property
(`PendingProgress`, `EventuallyDelivered`, `EventuallyBothDone`,
`EventuallySettled` of streams and of connections, `Settles`, `Terminates`).
`Codecs`, `CompositeMetadata` and what extends them compute on concrete bytes: TLC
evaluates them on every input of their runs, and nothing is proved of other inputs.

## 6. What the models found

Two are violation runs whose trace TLC prints:

1. `mux_nested_requests`: `next` stores the id after its callback, so requests made
   from a fire-and-forget's `onComplete` reuse ids and responses go astray.
2. `keepalive_resumed`: the close callbacks of the first connection close
   `KeepAliveHandler` and `KeepAliveSender` for good, so the connection a session
   is resumed over sends no keepalive and is not watched: a dead link stays
   unnoticed.

Six more have a configuration that makes TLC print the trace (`tlc -config X.cfg M`,
each in seconds). They are no runs of the list above, which asks what holds:

| Configuration | Module | Property, and what the code does |
|---|---|---|
| `MuxCloseInChunk.cfg` | `MCMultiplexer` | `OneTerminalSignal`: `handleData` goes on with the chunk after a receiver closed the connection; a requester that `close` failed is then given its response, too |
| `MuxRequestInClose.cfg` | `MCMultiplexer` | `FnfCompletedWasSent`: a fire-and-forget issued from the `onError` of `close` completes though nothing is written, for the connection is done and the multiplexer is not; any other request made there waits for ever |
| `ResumeOverlap.cfg` | `MCResumableSession` | `DropToConsistent`: a keepalive of the old connection handled after RESUME asks `dropTo` for a position the store has passed, and the session dies of "State inconsistency"; stream frames handled then are counted twice |
| `ResumeLate.cfg` | `MCResumableSession` | `ResumeOkOnlyIfLive`: the session timer closes the session but leaves it in the store, and a RESUME is answered with RESUME_OK |
| `FragmentsNoData.cfg` | `MCFragmentation` | `EveryPayloadArrives`: metadata without data that needs several frames never ends unless it completes the stream, so such a fire-and-forget completes at the sender and reaches no handler (`NeverEnds`) |
| `MessagingShadowed.cfg` | `MCMessaging` | `NotFoundIsTrue`: the first route of a request that has any handler decides, so it is answered "Route not found" although a later one of its routes has a handler for its type |

The others are stated in the models as the conditions under which properties
hold, or follow from a definition; each line says where to look.

* A request that waits for a lease when the connection closes is never settled
  (`ClosedMeansNoneWaiting`).
* A connection lost between RESUME and RESUME_OK is not replaced
  (`LostInHandshake`); `close()` of a resumable RSocket closes a connection that is
  then reconnected; what a `FrameStore` keeps while disconnected is bounded by nothing.
* With one or two bytes left after the metadata the first frame of a
  REQUEST_STREAM or REQUEST_CHANNEL is cut at a negative position, and the
  payload is lost or corrupted (`HeaderTwice`).
* A handler that fails its stream before it returns is not told of the error if the
  request came in fragments (`DoneIsSignalled`); `onError` of a channel before the
  stream has an id throws and settles nobody (`OnErrorUnready`).
* `close()` of a stream or response responder does not set `done`: a publisher it
  cancelled may end afterwards (`PublisherContract`).
* An extension given while a request waits for a lease throws in `handleReady`
  after the request was sent, for no codec serializes it, and closes the
  connection (`HandleReadyExtension`).
* `pause()` of a session whose connection closes before the acceptor has returned
  calls a handler that is undefined yet (`ClientServerMultiplexerDemultiplexer.ts:328`).
* An entry of composite metadata whose type is spelled out has no `mimeType`
  (`CompositeMetadata.ts:262`), so a routing entry written by name is never
  routed; the documentation comment at line 255 says otherwise (`mimeType`).
* The first chunk a server reads must hold a whole frame (`FirstData`), and the
  deserializer of METADATA_PUSH throws (`deserializeMetadataPushFrame`).
* rxjs: an error that comes while items wait is dropped, and the last of them is
  sent as the completion; a completion waits for demand; a `null` item is taken for
  an empty buffer; a responder that unsubscribes from one direction of a channel
  silences the other (`cancel`, `Settles`); subscribing twice to what `requestChannel` returns
  sends one request; a handler that subscribes later than at once meets undefined
  fields.

## 7. What is left out

* Priorities, error codes and messages, the contents of payloads (but for
  fragmentation, codecs and messaging, where every byte counts).
* `onExtension` of channels; of the other streams it is modelled while the request
  waits, the only time it changes state.
* uint32 fields of 2^31 and more: outside the integers of TLC. Names of MIME types
  as text: a name is its bytes, a well-known one its id.
* Fragments smaller than the headers: the generators never end for them, and the
  code does not check the size; `FragmentationAssumption` says so.
* Stream ids beyond 31 bits: `next` does not stop at `MAX_STREAM_ID`, which takes
  2^30 requests.
* Back pressure of sockets: `socket.write` buffers without bound. Which listeners
  an emitter still has.
* Granting leases: both ends obey LEASE frames, and nothing in the library sends one.
* Null items, and late subscribers of channels, in `RxAdapter`.
* Liveness on the `Wire`: its states are bytes, and the question is put to
  `Connection` and `Streams`, where frames are.
* GraphQL packages and examples: glue to third parties.

## 8. Plan

Done: the request path (multiplexer, leases), the four kinds of streams,
fragmentation, codecs, metadata and routing, setup, keepalive, resumption, the
rxjs adapter. Next, in this order:

1. `onExtension` of channels, and a channel under a late lease with two requests in
   the queue of `LeaseHandler`.
2. A second resumption in `Connection`.
3. Proofs: of `Wire` that frames survive any chunks, which first needs its buffers
   abstracted from bytes to frames and positions; and that a core stream of
   `RequestChannel` gives `RxAdapter` the interface it stands on.
