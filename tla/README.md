# A TLA+ development of telegram-socks-ws-proxy

The program is a SOCKS5 proxy. A connection to a Telegram address is not relayed as
TCP: the proxy reads the 64-byte MTProto init, finds out which data centre (DC) it is
for, opens a WebSocket to `kws{dc}.web.telegram.org` and relays the traffic in
WebSocket frames. Everything else is passed through. This directory holds TLA+
modules of the whole of it, TLC configurations, and TLAPS proofs.

Paths below are relative to the repository; Rust sources are under `src/`.

## 1. Inventory

| Component | State | Operations | What makes it correct |
|---|---|---|---|
| `modules/routing.rs` (route_client) | the locals of one task per connection | SOCKS result, read init, resolve, remember, begin probe, connect loop, record outcome, relay | every attempt ends; the endpoint chosen agrees with the init sent; outcomes are recorded for the route that was tried |
| `modules/routing/backoff.rs` | one global table `(dc, media) -> Probing / Cooldown / Disabled404` behind a mutex | `begin_probe` (which also sweeps the whole table), `record_failure`, `disable_404`, `clear` | a live probe or cooldown is respected; only an all-404 attempt disables; disabled stays disabled |
| `modules/routing/ipv6_cache.rs` | one global map IPv6 target -> (dc, media) behind a mutex | lookup, insert | holds only what an init to that target said; a known target is not sent out directly |
| `modules/telegram/catalog.rs` | constant tables | `is_telegram_ip`, `ip_to_dc`, `ws_domains` | the tables agree with each other |
| `modules/telegram/init.rs` | none | `extract_dc`, `patch_init_dc` | what is patched in reads back |
| `modules/telegram/splitter.rs` | a cipher, so a key stream position | `new`, `split` | parts are contiguous and complete; cuts fall on message boundaries |
| `modules/relay.rs` (bridge_ws_tcp) | two async blocks in one `join!`, the write half behind a tokio mutex | init, chunk, part, close; binary, Ping, Pong, Close, EOF | frames whole, bytes in order, a graceful end only after everything was handed over, the session ends, and not before a download is complete |
| `modules/relay.rs` (bridge_tcp_tcp) | `copy_bidirectional` | connect, prelude, copy, shutdown | the same promise as a WebSocket session |
| `modules/ws.rs` connect | none | TCP and TLS connect (with timeouts), HTTP upgrade (without) | the response decides the outcome, and only it; nothing behind it is read; ends |
| `modules/ws.rs` frames | none | `build_frame`, `read_frame` | the frames sent are the frames read, at every length; a cut stream is not a finished one |
| `modules/socks.rs` | a user table | greeting, auth, request, reply | nothing is relayed without authentication where it is configured; the dialogue stays legal |
| `runtime/*`, `main.rs` | listeners, spawned tasks, a signal | bind, accept, shutdown | what is announced is served; the process ends when it has to |
| `modules/health.rs` | its listeners | accept, answer, sleep after an error | recovers |
| `config.rs` | the settings | account list, links | links lead to listeners; a malformed account list stops the start |
| `modules/stats.rs`, `modules/pool.rs` | no caller in the program | | |

Interactions: the accept loop spawns one `route_client` task per connection on a
multi-threaded tokio runtime. The tasks share only the backoff table and the IPv6
cache. A task calls the SOCKS handshake, the resolver, the backoff table and the
WebSocket connect in this order and ends in one of three relays.

What is hard here: a task takes its `Instant` once, before the connect, and uses it
again after it; lookup and write-back of the cache are two critical sections;
`ProbeInFlight` lets concurrent attempts through, so their outcomes arrive in any
order; the sweep of one route's task touches every route; the two blocks of a relay
share one writer, and either of them may stop at any await for as long as a peer
likes. PROJECT.json lists these hazards with their lines and the properties aimed at
them.

## 2. Modules

    Socks   Listen      Telegram   WsBackoff        WsFrame        Splitter <- MCSplitter
       \     /              \       /                  |
        Proxy <- MCProxy    Routing <- MCRouting    WsClient <- MCWsClient

    Relay, Passthrough  --refinement-->  Duplex
    WsClient            --refinement-->  FrameChannel

`RoutingProofs`, `SplitterProofs`, `RelayProofs`, `PassthroughProofs`, `ProxyProofs` and
`WsClientProofs` each extend the module they are named after; `HandshakeProofs` extends
`WsClientProofs`, and `ChannelProofs` extends `HandshakeProofs`.

One connection runs through them in this order: **Proxy** accepts it and conducts the
SOCKS handshake; **Routing** resolves the data centre and takes the connect of
**WsClient** as one answer (`ConnectOk`, `ConnectFails` with 404 or another error);
**Relay** takes the frames that WsClient reads and the parts that **Splitter** cuts;
**Passthrough** is what becomes of every other connection.

**Telegram** holds the whole catalogue and the init packet. A host is what Rust's
parser yields (octets, groups, or a name). An init packet is represented by what the
proxy can read from it: HTTP or not, known transport tag or not, and the signed
16-bit DC. The cipher is left out: encrypting and decrypting at one position of the
key stream cancel, so a patched value reads back as written. The truncation of the
absolute value to a `u8` is kept (`-260` is media DC 4).

**WsBackoff** has the methods of the table as functions from table to table.

**Routing** composes both with the IPv6 cache and any number of tasks. `pc[c]` is the
await or critical section a task stands before; `conn[c]` its local variables;
`states`, `learned` and `clock` the shared tables and the clock. Two history variables
are read by no action: `extracted` (pairs read from an init) and `probers` (tasks told
`ProbeNow` since the last outcome). One action per stretch of code between two points
at which another task can run:

| pc | action | code |
|---|---|---|
| `free` | `Accept` | `accept_loop` |
| `socks` | `SocksFails`, `SocksConnect` | the handshake result, `is_telegram_ip` |
| `read_init` | `ReadInit`, `ReadInitFails` | `read_telegram_init` |
| `resolve` | `ResolveInit` | `resolve_telegram_init` (reads the cache) |
| `remember` | `RememberIpv6` | `remember_telegram_ipv6` (writes the cache), HTTP and unknown-DC returns |
| `stamp` | `StampNow` | `Instant::now()` |
| `begin` | `BeginProbe` | `begin_ws_probe` with its sweep, and the early returns |
| `connect` | `ConnectOk`, `ConnectFails` | one turn of the loop in `connect_ws_route` |
| `clear`, `fail` | `ClearProbe`, `RecordOutcome` | `clear_ws_probe`; `disable_ws_route` or `record_ws_failure` |
| `bridge`, `passthrough`, `direct` | `RelayEnds` | the three relays |

**Relay** is `bridge_ws_tcp`. `up` and `down` are the positions of the two blocks,
`lockq` the tokio mutex of the write half with its FIFO waiters. A frame is written as
a head and a tail because `write_all` may be suspended in the middle. Bytes of the
client are numbered, 0 being the init; frames of the upstream are known by their
position. Peers send, read, finish or reset whenever they like; they are external.

**Splitter** is `MtProtoMessageSplitter` on the decrypted stream; `offset` is the key
stream position, the only thing kept between two calls, and each turn of the loop of
`split` is a step. A stream comes with the positions at which its messages end
according to the abridged transport (`Framed`), which the code does not see. The chunk
is any part of the stream, because a socket read ends anywhere.

**WsFrame** and **WsClient** are `ws.rs` on one connection: the two connects with their
timeouts, the upgrade, then `read_frame` until the stream ends. The upstream's bytes
are numbered; `avail` of them have arrived, and the header of every frame is there byte
by byte, so a wrong length sends `read_frame` into the middle of a payload. The text of
the request and of a response line is abstracted to what `parse_handshake_response` and
`validate_handshake_response` make of it: which header a line is, and whether its value
is the expected one. The loop over the lines is a recursive function of the line number
(`ParseLoop`). The upstream sends any response, any frames, and stops or falls
silent after any byte. Payloads are not stored: a frame read is known by where its
payload starts, how long it is and with which key it is unmasked.

**Socks** and **Listen** hold the pure parts of `socks.rs`, `listen.rs` and `config.rs`:
which accounts a list has, what each message is answered, which addresses are bound and
which are announced. **Proxy** is the process around them. `phase` is where `main`
stands; `loops` has one accept loop per listener; `pc[c]` is the message of client `c`
that is awaited, `told[c]` what it was told so far; `lookups` are name lookups, which
run on blocking threads and hold up the drop of the runtime. The health endpoint takes a
request from its queue (`HealthAccepts`), writes the response, whose failure it ignores,
and closes the connection without having read the request (`HealthWrites`); that a
response was written does not mean that it was received. `bind_host(h, ok)` takes the
set of addresses on which the operating system lets a bind succeed, any subset.

**Passthrough** is `bridge_tcp_tcp_with_prelude`. `copy_bidirectional` is tokio's and
modelled from its documentation: a buffer per direction, a shutdown of the target when
the source has ended and the buffer is empty, and the first error ends both directions.
Units have an identity and what is unread, buffered and written are sequences of them, so
a loss, a repetition or a wrong order shows. The prelude is what the client has sent
before: it is in `sent` but no longer in the client's socket, and the task alone holds it,
so that only `SendPrelude` can deliver it.

**Duplex** is the abstract specification of a session: two FIFO directions, delivered
is a prefix of sent, a graceful close only when the source has finished and everything
was delivered. Relay implements it under the mapping in `duplex`: delivered upwards
are the bytes of complete binary frames, delivered downwards the payloads written to
the client. Passthrough implements the same specification: what a client may rely on
does not depend on how its connection is relayed.

**FrameChannel** is the abstract specification of what `recv_frame` gives its caller, and
the link between WsClient and Relay: whole frames in order, nothing behind a close, an end
only when everything was read, a failure only if the stream broke off. Its `Send`, `Stop`,
`Receive`, `End` and `Fail` are what Relay has as `UpstreamSends`, `UpstreamStops`,
`DownRecv`, `DownRecvEof` and `DownRecvFails`, with an end of the stream inside a frame
counted as a reset. Relay also lets a finished upstream be reset, and leaves out what
follows a frame at which `recv_frame` reports the end, because it is never read. An
upstream sends nothing behind a Close; but the same end is reported for a frame of an
unknown opcode (`other`), and payloads behind one would be dropped although the client
sees a graceful end, which Relay does not show. WsClient implements FrameChannel with the
frames that have arrived as a whole for `sent`, so Relay may be read without its bytes.

## 3. Runs

Time is counted in units of 15 s: `WS_ATTEMPT_WINDOW` is 1 unit and
`WS_FAILURE_COOLDOWN` 4, the ratio of the code (15 s and 60 s).

| Run | Instance | Shows |
|---|---|---|
| `resolution` | 2 tasks, 3 targets, 4 inits | `LearnedFromInit`, `RouteMatchesInit`, `FirstHitOnly`, `AttemptResolves` (liveness) |
| `routes` | 2 tasks, 2 routes, clock to 6 | `TypeOK`, `BackoffKept`, `OneProbePerWindow`, `DisabledOnlyAfterAll404`, `QuietStaysDisabled` |
| `splitter` | streams of at most 3 messages, chunked everywhere | `TypeOK`, `PartsTile`, `OneFramePerMessage`, `CutsBetweenMessages` |
| `relay` | 2 bytes, 3 frames, wire of 1 piece | `TypeOK`, `FramesWhole`, `LockHeldByWriters`, `PingsAnswered`, `ImplementsDuplex`, `SessionEnds`, `DownloadCompletes` (the last two liveness) |
| `ws_client` | 25 responses, 11 frames, at most 2 of them | `TypeOK`, `FramesInSync`, `EndsAsCut`, `VerdictFollowsReply`, `ImplementsFrameChannel`, `ConnectEnds` (liveness) |
| `proxy` | 8 settings, 1 client, every kind of message | `TypeOK`, `SessionsAuthorized`, `DialogueLegal`, `LinksServed`, `StopsWhenTold`, `HealthRecovers` (the last two liveness) |
| `passthrough` | 3 units per direction, buffers of 2, sockets of 1 | `TypeOK`, `ImplementsDuplex`, `EndsWhenBroken` (liveness) |
| `disabled_for_runtime`, `learned_writeback`, `splitter_boundaries`, `relay_shared_lock`, `relay_client_gone` | smaller instances | violated; see section 6 |

Why the bounds are enough:

- Two tasks give every race between a lookup and a write-back and between two
  outcomes on a route; a slot is reused, so later connections meet what earlier ones
  left behind. For more tasks the properties are proved (section 4). Clients are
  interchangeable, so the runs without liveness use symmetry.
- The clock reaches past one cooldown plus one window (`routes`), so that entries
  expire while a task still holds an old `Instant`; where no property depends on
  time the clock stands still (`resolution`). `MaxClock` bounds only `Tick`.
- The targets are one of each kind: Telegram but not catalogued, Telegram IPv6, other
  (`resolution`) and catalogued (`routes`). The inits are one of each kind: with a DC,
  with one that only its low byte makes valid, without one, HTTP. An init with an
  unknown transport tag is resolved like one without a DC.
- Three messages, with short or extended headers, give a chunk with two boundaries and
  a rest; payloads of 1 and 127 are read as short and extended headers when a chunk
  starts inside a message, and the zeros of an extended header as empty messages.
- In the relay `MaxUp` = 2 is the shortest stream that can be read as one chunk or as
  two and cut into parts; `MaxFrames` = 3 has a Ping between payloads and a terminator
  after them; small `WireCap` and `ClientCap` make writes block. `CHECK_DEADLOCK FALSE`
  is there because a finished session, a closed connection, an exited process and a
  stream that is used up stop.
- The frames of `ws_client` have lengths on both sides of every change of the encoding,
  masked and not, and longer encodings than needed; two of them show whether the second
  one is found. The header limit is 6 bytes in place of 8192, with responses that end at
  it and one byte later. Headers have every required line missing, repeated with a wrong
  value before and after, and behind an empty or malformed line.
- One client in `proxy`: connections share only `auth`, which never changes after the
  start, and the shutdown, which treats each of them alike; a slot is reused. The
  settings have two accounts, none, only separators, and each kind of malformed entry; a
  wildcard, a name that resolves to one address twice, and one that does not resolve;
  interfaces with addresses of both families, with none worth announcing, and unlisted.
- In `passthrough` three units are a prelude and two units behind it, which can be read
  together and written one by one; with `BufSize` 2 and `SockCap` 1 buffer and connection
  both get full.

Fairness. `Routing`: a task that can run is polled again (tokio), and the init arrives or
its read times out. Nothing is assumed of upstreams: `perform_handshake` has no timeout,
only the TCP and TLS connects have one, so an upstream may be silent in the upgrade for
ever, and `AttemptResolves` names this as the only way in which a task stays in the
routing layer (`AwaitsAnswer`). `ConnectEnds` in `WsClient` says the same byte by byte.
Nothing is assumed of clients, so a relay may last for ever. `Relay`: the blocks are polled
when they can proceed, and peers go on reading what is in flight; there is no write
timeout, so a peer that stops reading without closing stalls the session, and no property
claims otherwise. `Passthrough` assumes the same, and that the kernel answers or gives up
a connect. `Proxy`: timers fire, main is
polled, the runtime cancels every task, a lookup returns; for `HealthRecovers` also that
accept does not fail for ever (strong fairness of a successful one) and that the response,
which is shorter than an empty send buffer, does not wait for its reader. Clients of the SOCKS
handshake owe nothing: a silent one is waited for without limit, and `StopsWhenTold`
holds in spite of it.

`AttemptResolves`, `SessionEnds` and `DownloadCompletes` are stated with `[]<>` and not as
leads-to. Under the first, a task is again and again outside the routing layer, so none
stays in it; in the second, the premise is stable, so both forms say the same; the premise
of the third may end (by a reset), and then nothing is claimed. `DownloadCompletes` is about
the time after a half-close: the up block is over, the write half closed, and the down
block goes on; a Ping that is read then cannot be answered and may end the download.

Every property of a passing run has a mutation of the code that breaks it. The mutated
forms (`retain_inverted`, `DownPongHead_unlocked`, ...) stand next to the definitions
they vary and are used by nothing else.

## 4. Proofs

`RoutingProofs` proves eight theorems about `Routing` for every set of clients,
targets and packets, all durations and any clock bound. Assumptions:
`DurationsAssumption` (positive durations), `RoutingAssumption` (targets and packets
have their types), `CatalogueAssumption` (no address has two rows; a fact about the
table that TLC evaluates).

| Theorem | Property | Inductive invariant and why it is needed |
|---|---|---|
| `TypeCorrect` | `TypeOK` | `TypeInv`: also a task past `stamp` knows its DC (so its key is in the table), a task past `socks` has a requested target (so the cache update is in range), and the loop position fits the label (so `domains` is indexed in range) |
| `CacheCorrect` | `LearnedFromInit` | `CacheInv`: what a task at `remember` will write is itself justified by `extracted`, whether it was extracted or came from the cache |
| `RouteCorrect` | `RouteMatchesInit` | `MatchInv`: packet and info agree from the resolution on, and the domain selected belongs to the DC |
| `BackoffIsKept` | `BackoffKept` | `StampInv`: a task's `Instant` is never later than the clock, so a sweep with it drops nothing that is alive |
| `ProbesAreSpaced` | `OneProbePerWindow` | `ProbeInv` (with `StampInv`): a prober is still attempting the route, and until its window is over the table shows its probe and no other |
| `DisabledMeans404` | `DisabledOnlyAfterAll404` | `AnswersInv`: `all_404` is set only while every domain tried has answered 404, and a task at `fail` has tried all of them |
| `DisabledForGood` | `QuietStaysDisabled` | `TypeInv` |
| `DirectOnlyFirst` | `FirstHitOnly` | `TypeInv`, `CacheInv` and the lemma that a known IPv6 target always resolves |

Each is proved with one step per action; the lemmas before them say what the operators
return (`ResolveType`, `DomainsType`, `BackoffType`), that a patched packet reads back
(`PatchedInit`), what a return or a jump does to the other tasks (`GotoEffect`,
`ReturnEffect`, `Locality`), and what `begin_probe` keeps (`BeginProbeKeeps`).

`SplitterProofs` proves four theorems about `Splitter` for every set of streams, from
`StreamsAssumption` (each stream is a sequence of whole abridged messages; TLC
evaluates it on the streams it is given).

| Theorem | Property | Inductive invariant and why it is needed |
|---|---|---|
| `SplitterTypes`, `SplitTiles` | `TypeOK`, `PartsTile` | `LoopInv`: the boundaries grow, lie in the chunk and end where the loop stands, so that the parts made of them tile the chunk |
| `BatchesSplit`, `CutsAligned` | `OneFramePerMessage`, `CutsBetweenMessages` | `AlignInv`: in a chunk that starts with a message the loop stands between messages and has noted exactly the ends it has passed; `NextMessage` relates the header the code reads to the next end |

`Relay` lets a chunk be cut into any contiguous nonempty parts; `SplitTiles` is why
that covers what `split` returns.

`RelayProofs` proves five theorems about `Relay`, for any number of bytes and frames and
any size of the connections (`RelayAssumption`: the sizes are positive, so that something
fits).

| Theorem | Property | Inductive invariant and why it is needed |
|---|---|---|
| `RelayTypes` | `TypeOK` | the invariant itself: a chunk loses parts only at its front, so what is left of it was read |
| `WritersHoldTheLock` | `LockHeldByWriters` | `LockInv`: the queue is one of the few lists its writers can form, and a block inside a frame is at its head |
| `FramesStayWhole` | `FramesWhole` | `WireInv`: a head is the last piece on the wire only while its block is inside the frame, so nobody else may write behind it |
| `PingsGetAnswered` | `PingsAnswered` | `PongInv`: a complete Pong answers a Ping before the one being answered now |
| `RelayImplements` | `ImplementsDuplex` | `UpInv`: bytes delivered and bytes left of the chunk are those read, in order. `LogInv`, `DownInv`: the payloads written to the client are the first binary frames of the upstream, up to the one being handled |

`PassthroughProofs` proves `PassthroughTypes` (`TypeOK`) and `PassthroughImplements`
(`ImplementsDuplex`) for any number of units and any sizes (`PassthroughAssumption`: they
are positive). The invariant is `FlowInv`: before the copy starts, what the client has sent
is the prelude and then what is unread; from then on, what a source has sent is what was
written, what the buffer holds and what is unread, in this order. So the order of units is
part of the proof, and a prelude that is not written would break it.

`ProxyProofs` proves four theorems about `Proxy` for any settings, any number of clients
and any messages (`ProxyAssumption`: they have their types).

| Theorem | Property | Inductive invariant and why it is needed |
|---|---|---|
| `ProxyTypes` | `TypeOK` | |
| `OnlyAuthorizedSessions` | `SessionsAuthorized` | `TasksInv`: a client past its login has sent an account, and `ServerInv`: the accounts are those of the settings for as long as tasks exist |
| `DialoguesLegal` | `DialogueLegal` | `Conversation`: what was told is determined by `pc` and by whether there are accounts |
| `LinksLead` | `LinksServed` | `ServerInv` (every address is bound, and no accept loop is cancelled while main runs), and `LinksAreBound`: what `link_addrs` announces is covered by what `bind_host` binds |

`WsClientProofs` proves three theorems about `WsClient`, from `WsClientAssumption`: every
frame is one that `build_frame_with_opcode` writes, or one that a peer may write with any
first byte, any of the three forms of a length that can hold it, and any key or none.

| Theorem | Property | Inductive invariant and why it is needed |
|---|---|---|
| `WsClientTypes` | `TypeOK` | with the invariant below: what `cur` holds is a number because it was read from a header |
| `FramesStayInSync` | `FramesInSync` | `LogInv`: frames follow one another without a gap, so a byte belongs to one header only; `PlaceInv`: `read_frame` stands in the frame behind the last one returned, where `pc` says, and `cur` is what the header has told so far |
| `CutsAreErrors` | `EndsAsCut` | `EndInv`: a stream given up with an error has ended, so nothing arrives that would make it whole |

They rest on the codec: `RoundTrip16` and `RoundTrip64` (a length reads back from its
bytes), `PeerFramesLegible` and `BuiltFramesLegible` (a header states opcode, length and
key where `read_frame` looks for them, at every length below 2^64).

`HandshakeProofs` proves, from the same assumption, what the upgrade makes of a response.

| Theorem | Property | Inductive invariant and why it is needed |
|---|---|---|
| `VerdictOf` | | The outcome of any complete response of any number of lines, stated without the loop. `LoopInv` is the invariant of the loop: whether it is over and whether it failed follow from the lines passed, and a field is good exactly if the last line with its name is |
| `VerdictsFollowReplies` | `VerdictFollowsReply` | `UpgradeInv`: while `connect` runs, the header is incomplete and within the limit, and an outcome reached with a complete header is the one `VerdictOf` gives it |

This is an induction over data. The library's induction theorems take a predicate as an
operator, which the provers cannot instantiate; but `WFMin` of WellFoundedInduction is
about sets, and `Induction` is derived from it: a set that contains 0 and with every number
its successor contains all of them. It is used twice, for the existence of the function
`ParseLoop` chooses (`ParseLoopUnfolds`) and for its invariant (`ParseResult`).

`ChannelProofs` proves `ImplementsChannel` (`ImplementsFrameChannel`): every step of
WsClient is a step of FrameChannel or none. `OneInFlight` is the invariant it adds: only
the last frame can be incomplete. With it `ReaderPlace` tells from where `read_frame`
stands and what has arrived whether the frame behind it is complete, begun or absent.

Two lemmas are theorems in their own right, because other parts rely on the conversion:
`PatchedInit` (what `patch_init_dc` writes, `extract_dc` reads back) and
`BuiltFramesLegible`.

The inductive invariants of Relay, Passthrough, Proxy and WsClient also hold on the
instances of their runs: TLC checked them as invariants there.

Only model-checked: liveness (`AttemptResolves`, `SessionEnds`, `DownloadCompletes`,
`ConnectEnds`, `StopsWhenTold`, `HealthRecovers`, `EndsWhenBroken`), which the provers do
not reach. Both implementations of `Duplex` are about its safety; it states no fairness.

## 5. Plan

1. Done: all components modelled and checked.
2. Done: every safety invariant, action property and refinement that a run checks is
   proved for all values of the constants.
3. Left: one module that composes Relay with WsClient step by step; FrameChannel states
   the interface between them, and so far only the side of WsClient is proved.

## 6. Where code and documents disagree

- `disabled_for_runtime`: the log says a route is disabled for the runtime, but a
  concurrent attempt that ends later replaces `Disabled404` by a cooldown or removes
  it. `QuietStaysDisabled` shows that this is the only way.
- `learned_writeback`: a task that took its DC from the cache writes it back, over a
  mapping another session has extracted in between. `LearnedFromInit` bounds the
  damage: what is there was always extracted once.
- `splitter_boundaries`: the splitter is called stateful and boundary-preserving, but
  a chunk with one whole message and a rest goes out as one frame, and the chunk after
  it is scanned from the middle of a message.
- `relay_shared_lock`: the halves are split "to avoid a shared lock blocking both
  directions", but answering a Ping takes the writer's lock, so a stalled upload
  stalls the download behind a Ping.
- `relay_client_gone`: traffic is relayed "until one side closes", but a failed read
  from the client ends only one block; with a quiet upstream the session remains.

Three disagreements are static, so no run is about them. 95.161.76.100 is in `IP_TO_DC`
and in no Telegram range, so it is relayed as plain TCP and its row is never used;
`CatalogueInRanges` in MCRouting states that it is the only such address. The request
offers `permessage-deflate`, and no code looks at the extensions of the response.
`docs/architecture.md` calls the SOCKS5 endpoint unauthenticated (lines 63 and 172),
which holds only where `SOCKS_USERS` is empty.

## 7. Not modelled

`stats`, `pool`, `RawWsClient::recv` and `send`, `ws::handshake`, `route_decision` and
`split_plain_mtproto_messages`, which nothing but tests calls; the settings
`config_file` and those of the pool, which nothing reads. The order and the text of the
links and of the log. TLS, AES, SHA-1, random keys and the wording of HTTP are
abstracted to their outcomes. A client that resets during a write of the SOCKS handshake
is the same as one that resets before it (`ClientGone`), because nothing but the end of
the task follows. Frames of more than `usize::MAX` bytes, and allocations that fail. What
an upstream sends behind a Close or a frame of an unknown opcode, in Relay. File
descriptors are not counted; an accept may fail at any time.
