# Verification of ZAP

TLA+ specifications of `luxfi/zap`, the TLC models that check them on small
instances, and TLAPS proofs of the safety properties that matter most. Every
definition is translated from the Go source; `PROJECT.json` maps definitions to
lines, lists the hazards the properties are about and the mutants that break
each property.

## The system and its parts

A ZAP **node** (`node.go`) listens, dials, exchanges node ids with a peer and
keeps one connection per peer in a table. Over a connection it sends messages
and makes **calls**: a request with an id, answered by the peer's handler.
Handlers run in the connection's receive loop. With the **QUIC** transport
(`node_quic.go`, `quic/`) a call has a stream of its own instead. Messages are
zero-copy views of byte buffers (`zap.go`, `builder.go`, `v1/`), read into
**pooled slabs** (`bufpool.go`). Below the node, a connection may be a **ZAP-PQ
session** (`handshake/`): a handshake guarded by a **replay gate**, then a record
layer with rekeying. Above it sit the **router** (`router.go`), `zapclient`,
`forward` (HTTP over ZAP), `dexsession` (capabilities, promises, swap flows) and
the MCP bridge.

| part | state | operations | hard behaviours | module |
|---|---|---|---|---|
| replay gate | two generations, their start time | CheckTimestamp, SeenOrAdd, Sweep | clock read before the lock, cap, idle periods | ReplayCache |
| PQ handshake, PSK store | transcripts, PSK entries, tickets | Run on both sides, Issue, Redeem, Sweep | damaged frames, dropped connections, old flights, retries | Handshake |
| PQ session | keys, counters, epochs, two mutexes | Send, Recv, Rekey, Close | concurrent senders, damaged and cut frames, close with parked I/O | PQSession, SecureStream |
| connection table | `Node.conns`, read loops | ConnectDirect, getOrConnect, handleConn, Stop, peer lost | crossing dials, stale addresses, stop during dial | NodeConns |
| calls | `pending`, `reqID`, channels | Call, dispatchLoop | late answers, nested calls, full buffers, lost connection | Rpc, AtMostOnceCall |
| QUIC nodes | `Node.transports`, streams | quicConnectDirect, quicCall, serveTransportConn, Stop | stale addresses, stop during accept or dial, failing handlers | QuicNode, AtMostOnceCall |
| QUIC connection | control stream, `closed` | Send, Recv, Close | Close drains next to the read loop, without the mutex | QuicConn |
| wire format | buffer, cursor | StartObject, Set*, Finish, Reset, the accessors | growth under half-written objects, reused buffers, any word on the wire | Wire, WireLayouts |
| buffers | reference counts | getBuf, retain, release | last release, a call that gives up as its answer arrives | BufPool |
| DEX sessions | promises, capabilities, grants | the five operations, flows, V4 sessions, Close | chained calls, revocation under way, foreign promises, a venue that lies | DexSession, V4Session |
| DEX streams | channel, last phase and hop | ReadStream, StreamQuotes | repeated and skipped phases, abandoned callers | V4Stream |
| router | slice of interfaces | Register, Send | walk without the lock over a shared array | Router |
| HTTP forwarding | receive loops | RoundTrip, Relay, Serve | handlers that stream, panic, never return; lost backends | Forward |
| zapclient | address memo, opcodes | Connect, Call, Register, Close | servers that move, colliding opcodes, dials that end after Close | ZapClient |
| MCP bridge | mutex and pipes per tool server | AddServer, CallTool, Stop | locks held across I/O | McpBridge |

## Modules and the code

**ReplayCache** — `handshake/replay.go` as `runFull` uses it. Workers are
handshake goroutines. `SeenOrAdd` reads the clock before it locks, so the
reading and the locked part are two steps. `admits` is a history of admissions.
The clock does not go back. Timestamps are integers. **ReplayLimits** holds its
constants, their assumptions and the promises stated over its generations.

**Handshake** — `initiator.go`, `responder.go`, `psk.go` with the transcript, key
schedule and identities they use. One client and one server over several
connections; an action per frame read with everything up to the next read. A
hash, key or signature is the term it is computed from. The network drops
connections, damages one frame, or delivers an earlier flight on another
connection. The replay cache is its contract here (a set of hellos); its
generations are in ReplayCache. The client offers the scheme of its suite, and the
server has a replay cache and a PSK store, which are optional in the code.

**PQSession** — `handshake/session.go`. One action per locked section or write.
A key is its number of ratchet steps. The network may lose, repeat, exchange or
alter frames. A write puts the whole frame on the wire, or fails with nothing or,
at a deadline on a full buffer, with part of it written (`Torn`); the key, epoch and
counter stay as they were. A reader that meets the torn part takes what follows for
the rest of that frame and then reads from the middle of another (`Misread`), so it
may find any header there. **SecureStream** is what one direction promises.

**NodeConns** — the table of `node.go` over TCP. Each side of a connection is a
goroutine; a step is one critical section or one socket operation. The accepting
side answers or hangs up (its read deadline). A node id always decodes (that it
does is `NodeIDHandshake` in Wire).

**Rpc** — `Call` and the correlated half of `dispatchLoop` and of the loop
`getOrConnect` starts, over one connection with buffers that fill. **AtMostOnceCall**
is the contract of `Call`, which both Rpc and QuicNode implement.

**QuicNode** — `node_quic.go` with the factory: dialling, accepting, the identity
handshake, the table of transports, one stream per call, Stop. A dial at a node that
has stopped calls the transport that `Client.Close` set to nil (`DialPanics`). Streams
have no limit, so opening one does not wait. **QuicConn** — the
control stream of one connection: frames are two writes, `Close` half-closes, reads
the stream in competition with `Recv`, waits and tears down. It keeps a history of what
each end wrote.

**Wire** — `builder.go`, `zap.go` and the typed layer of `v1/`, byte by byte. Each
message is built twice, in a reused and in a new builder, one Set per step, then
parsed and read; or one word of it is overwritten first. Words are unsigned and
signed as in the code; a word above `Huge` compares as `Huge`. The words that are
overwritten are the pointers and lengths of the header, the root object, the lists
and the objects they lead to. **WireLayouts** has
one definition per message of the repository: its fields, offsets and sizes.

**BufPool** — the slabs of `bufpool.go` under the receive loops, the response
channels and `Call`. A slab remembers the frame it holds, so that reuse shows.

**DexSession** — promises, `thenAsync`, the five client operations, both swap flows,
the watch, the capability table, and the server's handlers; D is the phase of each
intent. The venue is honest (it reports what D did, or that it has no view) or not: then
it answers a notify with a watch of any intent and a poll with any status, which is the
venue `wire_intent.go:268` speaks of. **V4Session** extends it by the scoped sessions, whose callers may hand over
promises of a session that is not theirs. **V4Stream** — the three event streams
with their bounded channel, of a truthful venue or of any. A hop
that was skipped and that a later poll reports after all is filled without having been
started: `StreamInOrder` asks for the start of that hop or of a later one.

**Router** — `router.go` with the backing arrays of `append` and the two stores
of each swap of the sort. A slot is read and asked in one step, and a store of
an interface value is one step.

**Forward** — `RoundTrip` at the ingress, `Relay` at the gateway, `Serve` at the
backend, each in the receive loop its request came in on. Headers are kept by
class, identities by whose they are. A gate names an identity, lets a request pass
without naming one (it keeps the one the ingress found in the X-* headers), denies or
fails. Rpc's contract stands for the calls; the connection to a backend may be lost
under one (`CutBackend`) and be made again or not.

**ZapClient** — `Connect`, `Close`, `Call` with the picker and the address memo, and
the server's `Register` and `dispatch`; connections are the node ids connected to.
`ConnectDirectID` registers a connection whether or not the node has stopped; the
read loop it starts then finds the context done and takes it out (`Drop`).

**McpBridge** — each goroutine runs a plan: the lock, write, read and unlock steps of
the functions it calls; `AddServer` stops a server whose tools it cannot list and
waits for the bridge's mutex, which `Bridge.Stop` holds while it stops servers. Because `AddServer` never returns (see `mcp_start`), the
steps after it are what would follow once `Start` released the mutex; no reachable
state of the present code takes them.

`MC*` modules give the constants their values. Several of them extend components that
share no state (`part`, chosen in the initial state): a behaviour is one part's,
and a property of one part holds trivially in the others. What a run checks of a
component and what is proved of it is then one definition, in the component's
module. The types of ReplayCache, Forward and ZapClient are proved and in no run.
`*Proofs` modules hold theorems.

## Runs

| run | shows | bounds |
|---|---|---|
| pq | replay gate: remembered for a TTL, admitted once per window, bounded. Session: secure streams, one whole frame per nonce, live keys, reliable when undisturbed; Close returns | 2 HELLOs, 2 workers, TTL 2, clock to 4: two flips; 2 senders, 2 payloads, 2 epochs, frame cap 2, 1 damaged or cut frame; closing: both sides send, buffers of 1 frame |
| handshake | agreement of full handshakes, keys of resumed ones, single use of psks and hellos, everybody returns | 2 connections, 4 configurations, 1 fault, clock to 2 with lifetime and window 1 |
| node | entries and loops match, one live connection, Stop drains, half-open connections heal; at-most-once contract, `pending` holds the live calls, only a full buffer holds a call past its ctx, answered calls return | 3 nodes, 2 connections, 1 break, 1 stop, 1 stale address; 2 + 1 calls, nesting, connection loss, ids modulo 2, 1 frame per direction |
| quic | table and loops agree and lead to the right peer, frames whole and in order, calls at most once and ended, Stop cleans | 3 nodes, 2 connections, 2 calls; 2 writers on one control stream |
| dex | commits of the watched intent, true ones if the venue is honest, calls inside scope and grant, funded notifies, Close stops settlement, ordered streams, cancellation ends all | one flow of each of 7 kinds with 5 requests, 3 grants; streams with 2 hops and a channel of 2 |
| wire | messages read back, reuse invisible, readers stay inside; slabs intact while held | 33 layouts, 3 fillings, 2 messages per builder, 11 words at every pointer and length; 2 loops, 3 slabs, 5 frames |
| bridges | cheapest reachable route; only the gate lets through; own procedure, at a server of the address picked; no connection outlives Close; only a lost backend or a handler that gives no answer holds the gateway's loop | 3 interfaces, 2 senders, 1 change; 9 kinds of request, 3 sent, 1 lost backend; 2 servers, 2 addresses, 2 calls, 1 loss |

Why the bounds are enough: two connections are the least for a crossing or a
repeated flight, one fault the least for a reordering, two flips the least for a
generation to be dropped. In `node` there are as many ids as an end makes calls, so
that ids wrap and none is given twice, the condition `FewCalls` of the proofs.
`bridges` stops at three interfaces because every append up to the third moves to a
new array (`BestOfThree` of the proofs); the fourth is `router_four`. In `wire` the builder starts with room for 40 bytes, so
that most layouts grow it; list elements have sizes that are multiples of eight,
the others are `wire_list`. Deadlock is not checked: every one of these systems may
come to rest.

`StopDrains` also holds without the step `CloseOnStop`: a connection in the table
when Stop empties it is closed there, and one registered later ends at the head
of its read loop. Over TCP `closeOnStop` is a second line, not the only one that
ends a blocked read, as its comment has it.

Five runs show where code and text disagree (details under `findings`):

| run | text | code |
|---|---|---|
| rpc_error | the client observes the handler's error | nothing is written |
| rpc_timeout | Call respects its timeout | a write parked on a full buffer does not look at the ctx |
| router_four | entries are immutable | sorted in place under a walk |
| wire_list | elements occupy exactly Size() bytes | the builder aligns each to eight |
| mcp_start | AddServer adds and starts a server | Start locks a mutex it holds |

Further disagreements met while modelling, not kept as runs:

- `node.go:636` has the lower id dial to prevent races; `getOrConnect` dials
  whatever the ids are, and two crossing connections can each be given up for the
  other.
- `session.go:178` keeps the counter when a write fails under way, so the next Send
  seals under the nonce of a frame of which part went out: `OneFramePerNonce` says
  that one at most is written whole, and no more.
- `Relay` calls the backend with the node's context, which has no deadline: a handler
  that never returns or panics, or a backend connection lost under the call, holds the
  ingress' receive loop at the gateway. `ForwardSettles` names exactly these.
- `quic/client.go:196` has in-flight Dials return errors when the client is closed; one
  that reaches the transport after Close meets a nil pointer and panics.
- `v1/view.go` counts header-alias safety among what Parse validates; a root word below
  HeaderSize is taken, and inline fields of the root then read the header.
- `dexsession/v4route.go:32` has an abandoned consumer that does not cancel never
  wedge a stream; `emit` waits until the context ends.
- `builder.go:416` has a reused buffer emit the bytes of a fresh one; `Reset` leaves
  the flag bytes and `Finish` writes none. `ReuseInvisible` excepts them.
- The comment of `safeHandle` in `node.go` has the loop drop the connection after a
  panic; it goes on, and no response is written.
- `replay.go:24` bounds the memory of the cache by 2×ttl, but generations flip only
  when somebody calls; `CheckTimestamp` accepts a skew of exactly the smallest int64.
- Section 6.5 of the PQ specification closes on a nonce violation, the session only
  reports it.
- `node.go:884` speaks of one implementation of routing, but the loop of
  `getOrConnect` drops requests (`Outbound` in Rpc).
- `Broadcast` and `Peers` look at `Node.conns` only, not at QUIC transports.
- `resolvePeer` never forgets a NodeID; a procedure a server does not have, whose
  opcode is that of one it has, runs that one.

## Fairness

Goroutines that are inside a call or a loop run on (weak fairness per goroutine),
the runtime runs `AfterFunc`s, a Stop that was begun goes on, handlers return,
a read with a deadline ends, a Call of a DEX session ends at the latest with its
connection or context, and a caller that ranges over a stream receives. Nobody is
obliged to dial, call, send, close, sign or stop, D need not produce a block, no
ctx has to end, and an `endless` HTTP handler does not return.

## Proofs

Proved for every value of the constants that satisfies the named assumptions, so
for any number of nodes, connections, calls, senders, flows, faults and ticks. Each
component has one inductive invariant; the properties follow from it.

- **ReplayCacheProofs**: types, `RememberedForTTL`, `ReadmittedOnlyAfterWindow`
  (from `TTLCoversWindow`: the TTL is at least twice the window) and
  `GenerationsBounded`. The invariant relates each admission to the generation
  its key is in and to the start of that generation: the property alone says
  nothing of a key whose generation is about to be dropped.
- **HandshakeProofs**: `FullAgreement`, `ResumedKeysTellDamage`, `AcceptedOnce`. The
  properties speak of two finished runs; the invariant says what holds on the way:
  which frames in flight the client (`FromClient`) and the server (`FromServer`) can
  have sent, damaged ones included, what a run knows at each of its stages
  (`Client`, `Server`), that an AUTH frame was signed by a run that got that far,
  that what was read is in the replay cache (`Remembered`) and that a psk is in the
  store or was redeemed, never both (`Stores`). The argument for a step of one
  connection (`Keeps`) is local to it; only the cache and the store connect them.
  Single use of keys then rests on the transcripts: a secret contains the ephemeral
  key or the hello of its connection (`SecretsApart`, `ClientAtInj`).
- **PQSessionProofs**: types, `OneFramePerNonce`, `KeysHeldAreLive`,
  `UndisturbedIsReliable`, and that each direction implements SecureStream. The
  invariant adds mutual exclusion, that a closing session's keys are wiped only behind
  its mutexes, that sealed frames are ordered by key and counter, and that every intact
  frame on the wire was sealed. A second one, `Undisturbed`, holds while no frame was
  damaged: there is a
  sequence of places (epoch, next counter, payloads) along which the frames in
  flight lead from where the receiver stands to where the sender stands. It is
  asserted to exist and not computed, as a REKEY frame does not name its epoch.
- **NodeConnsProofs**: types, `EntryHasLoop`, `OneLiveConn`. The two table properties
  are inductive together with the ownership of used sides. And of BufPool,
  `HeldIsIntact`: a slab's count covers the loop, channel and Call that hold it
  (`Covered`), these are of one connection (`OneUser`), and a slab in use is out of the
  pool (`OutOfPool`), so that nothing overwrites what is held.
- **RpcProofs**: `PendingIsLive`, and that a connection implements AtMostOnceCall.
  Nothing in the code keeps the wrapping uint32 from giving an id a second time, so
  the refinement is proved from a condition on the behaviour: `IdsApart` (no call in
  progress shares its id with another one in progress, or with one whose answer is on
  its way), and then from `FewCalls` (no end has begun more calls than there are
  ids), which implies it. The invariant ties each frame, channel and entry of
  `pending` to the call it belongs to.
- **QuicNodeProofs**: `TableIsTrue`, and that a call over a stream implements the same
  AtMostOnceCall, with no condition: a stream is the identity of its call. The
  invariant follows each connection through its roles (dialled, accepted,
  registered, served, closed) at both ends. And of QuicConn, `FramesArrive`. The
  property speaks of frames, the goroutines and Close of halves of frames, so the
  invariant counts halves: what one end has written is the frames sent, in turn a
  length and a body, with at most one length after them (`Whole`, `Dangling`); what
  is in the pipe is the rest of it (`Unread`); a handler was given a frame only if
  its body has been read (`Handed`); and until an end closes, its loop has read
  exactly the frames it has given out, or one length more (`InStep`). A loop that met
  the peer's FIN has therefore given out all of them (`Flushed`).
- **V4SessionProofs**: `CommittedIsReal`, `CallsAreAuthorized`, `NotifiedIsFunded`,
  `CloseStopsSettlement`. The invariant says what each promise of a flow holds once
  resolved, in terms of what was sent, what the venue answered and, if it is honest,
  what D did, and what the program counter of each goroutine implies about the grants
  it has asked for. And of V4Stream,
  `StreamInOrder`: the invariant says which events the goroutine may be about to
  send (`Sending`), given what its locals `imported` and `lastHop` say was sent before
  (`Reported`).
- **BridgesProofs**: of Forward, types and `GateDecides` (every frame in flight carries
  what its request and its token determine); of ZapClient, types and `RunsOwnProcedure`
  (a slot of a server's table holds a procedure with that opcode, `Slots`; the memo and
  the target of a call are servers that have listened at their address, `Addressed`); of
  Router, `SortedStable` without a condition, from the state of the insertion between two
  stores (`Insertion`), and `RouteIsBest` up to three interfaces (`BestOfThree`): there
  every append moves to a new array, so that no store falls into the places of an array a
  Send is walking (`WalkUndisturbed`), on which the walk rests and which the
  counterexample of `router_four` breaks.

The assumptions are `ReplayAssumption` and `TTLCoversWindow` (ReplayLimits),
`HandshakeConstants`, `SessionAssumption`, `ConnsAssumption`, `PoolAssumption`,
`RpcAssumption`, `QuicAssumption`, `ConnAssumption`, `DexAssumption`,
`StreamAssumption`, `RouterAssumption`, `ForwardAssumption` and `ClientAssumption`:
types of the constants, and that the identities used as markers are not members of
the sets.

Only model-checked:

- all liveness (`CloseReturns`, `HandshakeEnds`, `StopDrains`, `HalfOpenHeals`,
  `Answered`, `TimeoutOrParked`, `QuicEnds`, `StopCleans`, `CancelEnds`,
  `ForwardSettles`, `NothingLeaks`), which the prover does not reach;
- the invariants of Wire: what its builder and readers compute is recursive over
  data, which the prover cannot do induction on.

Of McpBridge nothing is proved: its one run is the counterexample `mcp_start`.

## Not modelled

- `conn_pq.go`, `identity_pq.go`, `pq_attestation.go`: `pqConn` re-chunks what
  Session returns and forwards deadlines; identities and attestations are signature
  checks without state.
  What a deadline does to a write is in PQSession.
- A peer that accepts a TCP connection and stays silent: the dialler waits, as it
  has no deadline (`node.go:704`); this repository's accepting side has one.
- `Send`, `Broadcast` and uncorrelated messages: one write each, no state.
- Reverse push in `forward`: a map from ConnID that nothing here sends to yet.
- Discovery (`mdns/`) is a library; its events are inputs. `network.go`, `transport/`
  and `zapweb/` are socket, hardware and HTTP I/O.
- TLS and configuration of `quic/`, ABI calldata and hook data of `dexsession`, the
  schema registry, the codecs of `zapclient`, the JSON of the MCP bridge: conversions
  no property here is about.
- The generators (`v1/codegen`, `tools/`), benchmarks and examples; the generated
  views that are checked in are in WireLayouts.
