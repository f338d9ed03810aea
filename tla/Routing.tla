------------------------------ MODULE Routing -------------------------------
(***************************************************************************)
(* route_client (modules/routing.rs): one task per accepted connection,    *)
(* all of them sharing two mutex-protected tables, the backoff table       *)
(* (WsBackoff) and the cache of learned IPv6 targets                       *)
(* (routing/ipv6_cache.rs).                                                *)
(*                                                                         *)
(* The tasks run on a multi-threaded tokio runtime, so any two of them     *)
(* interleave wherever a task awaits or is outside a critical section.  An *)
(* action is the code between two such points: every access to a shared    *)
(* table and every reading of the clock is a step of its own.  In          *)
(* particular the Instant that a task uses for begin_ws_probe and, much    *)
(* later, for record_ws_failure is read once, before the connect.          *)
(*                                                                         *)
(* A client is a connection slot: when its task ends, the slot is free for *)
(* another connection.  What the peers do (which target, which init, how a *)
(* WebSocket connect ends, when a relay ends) is nondeterministic here;    *)
(* module Relay models the relay.                                          *)
(***************************************************************************)
EXTENDS Telegram, WsBackoff

CONSTANTS Clients,    \* connection slots
          Hosts,      \* targets that clients ask for
          Packets,    \* init packets that clients send
          MaxClock    \* bound on the clock: the last Instant of a behaviour

ASSUME RoutingAssumption == /\ Hosts \subseteq Host
                            /\ Packets \subseteq InitPacket
                            /\ MaxClock \in Nat

VARIABLES pc,        \* where each task stands
          conn,      \* the local variables of each task
          states,    \* WS_BACKOFF.states
          learned,   \* LEARNED_IPV6_DC
          clock,     \* what Instant::now() returns
          extracted, \* history: the <<IPv6 target, entry>> pairs read from inits
          probers    \* history: per key, the tasks told ProbeNow since the
                     \* last recorded outcome

vars == <<pc, conn, states, learned, clock, extracted, probers>>

Labels == {"free", "socks", "read_init", "resolve", "remember", "stamp", "begin",
           "connect", "clear", "bridge", "fail", "passthrough", "direct"}

NoPacket == [http |-> FALSE, proto |-> FALSE, dcRaw |-> 0]
NoDomain == [dc |-> NoDc, alt |-> FALSE]

\* target: target_host.  packet, info, patched: the ResolvedTelegramInit.
\* stamp: now.  answers: how the domains tried so far answered; its length is
\* the position of the for loop.  all404: all_404.  via: the domain selected.
Conn == [target : Host, packet : InitPacket, info : TelegramInitInfo,
         patched : BOOLEAN, stamp : Nat, answers : Seq({"404", "error"}),
         all404 : BOOLEAN, via : WsDomain \cup {NoDomain}]

NoConn == [target |-> DomainName, packet |-> NoPacket, info |-> NoEntry,
           patched |-> FALSE, stamp |-> 0, answers |-> << >>,
           all404 |-> TRUE, via |-> NoDomain]

TypeOK == /\ pc \in [Clients -> Labels]
          /\ conn \in [Clients -> Conn]
          /\ states \in [WsKey -> WsState]
          /\ learned \in [Hosts -> TelegramInitInfo]
          /\ clock \in Nat
          /\ extracted \subseteq Hosts \X TelegramIpEntry
          /\ probers \in [WsKey -> SUBSET Clients]

Init == /\ pc = [c \in Clients |-> "free"]
        /\ conn = [c \in Clients |-> NoConn]
        /\ states = [k \in WsKey |-> Absent]
        /\ learned = [h \in Hosts |-> NoEntry]
        /\ clock = 0
        /\ extracted = {}
        /\ probers = [k \in WsKey |-> {}]

-----------------------------------------------------------------------------
Goto(c, label) == pc' = [pc EXCEPT ![c] = label]

\* route_client returns: the stream is dropped and the slot is free again
Return(c) == /\ Goto(c, "free")
             /\ conn' = [conn EXCEPT ![c] = NoConn]

ws_key(c) == <<conn[c].info.dc, conn[c].info.is_media>>

\* accept_loop spawns the task
Accept(c) ==
    /\ pc[c] = "free"
    /\ Goto(c, "socks")
    /\ UNCHANGED <<conn, states, learned, clock, extracted, probers>>

\* handle_socks5_handshake returned an error
SocksFails(c) ==
    /\ pc[c] = "socks"
    /\ Return(c)
    /\ UNCHANGED <<states, learned, clock, extracted, probers>>

\* handle_socks5_handshake returned Connect{h}: Telegram or plain TCP
SocksConnect(c, h) ==
    /\ pc[c] = "socks"
    /\ conn' = [conn EXCEPT ![c].target = h]
    /\ Goto(c, IF is_telegram_ip(h) THEN "read_init" ELSE "passthrough")
    /\ UNCHANGED <<states, learned, clock, extracted, probers>>

\* read_telegram_init: 64 bytes, an I/O error or the read timeout
ReadInit(c, p) ==
    /\ pc[c] = "read_init"
    /\ conn' = [conn EXCEPT ![c].packet = p]
    /\ Goto(c, "resolve")
    /\ UNCHANGED <<states, learned, clock, extracted, probers>>

ReadInitFails(c) ==
    /\ pc[c] = "read_init"
    /\ Return(c)
    /\ UNCHANGED <<states, learned, clock, extracted, probers>>

learned_ipv6_entry(h) == IF h \in Ipv6 THEN learned[h] ELSE NoEntry

\* Mutation of known_entry: the cache is never consulted
known_entry_static(h) == ip_to_dc(h)

\* the cache first, then the static table
known_entry(h) == IF learned_ipv6_entry(h) # NoEntry
                  THEN learned_ipv6_entry(h)
                  ELSE ip_to_dc(h)

\* Mutation of signed_dc: the sign that marks media is lost
signed_dc_positive(e) == e.dc

signed_dc(e) == IF e.is_media THEN -e.dc ELSE e.dc

\* Mutation of resolve_telegram_init: the media flag of the entry is dropped
resolve_media_dropped(h, p) ==
    IF extract_dc(p) # NoEntry \/ known_entry(h) = NoEntry
    THEN [packet |-> p, info |-> extract_dc(p), patched |-> FALSE]
    ELSE [packet |-> patch_init_dc(p, signed_dc(known_entry(h))),
          info |-> entry(known_entry(h).dc, FALSE), patched |-> TRUE]

resolve_telegram_init(h, p) ==
    IF extract_dc(p) # NoEntry \/ known_entry(h) = NoEntry
    THEN [packet |-> p, info |-> extract_dc(p), patched |-> FALSE]
    ELSE [packet |-> patch_init_dc(p, signed_dc(known_entry(h))),
          info |-> known_entry(h), patched |-> TRUE]

ResolveInit(c) ==
    LET r == resolve_telegram_init(conn[c].target, conn[c].packet)
    IN  /\ pc[c] = "resolve"
        /\ conn' = [conn EXCEPT ![c] = [@ EXCEPT !.packet = r.packet,
                                               !.info = r.info,
                                               !.patched = r.patched]]
        /\ extracted' = IF is_ipv6(conn[c].target) /\ r.info # NoEntry /\ ~r.patched
                        THEN extracted \cup {<<conn[c].target, r.info>>}
                        ELSE extracted
        /\ Goto(c, "remember")
        /\ UNCHANGED <<states, learned, clock, probers>>

remember_ipv6_entry(h, e) == [learned EXCEPT ![h] = e]

remember_telegram_ipv6(h, info) ==
    IF is_ipv6(h) /\ info # NoEntry
    THEN remember_ipv6_entry(h, info)
    ELSE learned

unknown_dc_action(h) == IF is_ipv6(h) THEN "DirectPassthrough" ELSE "Close"

\* remember_telegram_ipv6, then the early returns that need no shared state
RememberIpv6(c) ==
    /\ pc[c] = "remember"
    /\ learned' = remember_telegram_ipv6(conn[c].target, conn[c].info)
    /\ \/ /\ is_http_transport(conn[c].packet)
          /\ Return(c)
       \/ /\ ~is_http_transport(conn[c].packet)
          /\ conn[c].info = NoEntry
          /\ unknown_dc_action(conn[c].target) = "Close"
          /\ Return(c)
       \/ /\ ~is_http_transport(conn[c].packet)
          /\ conn[c].info = NoEntry
          /\ unknown_dc_action(conn[c].target) = "DirectPassthrough"
          /\ Goto(c, "direct")
          /\ UNCHANGED conn
       \/ /\ ~is_http_transport(conn[c].packet)
          /\ conn[c].info # NoEntry
          /\ Goto(c, "stamp")
          /\ UNCHANGED conn
    /\ UNCHANGED <<states, clock, extracted, probers>>

\* let now = Instant::now()
StampNow(c) ==
    /\ pc[c] = "stamp"
    /\ conn' = [conn EXCEPT ![c].stamp = clock]
    /\ Goto(c, "begin")
    /\ UNCHANGED <<states, learned, clock, extracted, probers>>

BeginProbe(c) ==
    LET decision == WsDecision(states, ws_key(c), conn[c].stamp)
    IN  /\ pc[c] = "begin"
        /\ states' = begin_probe(states, ws_key(c), conn[c].stamp)
        /\ \/ /\ decision \in {"ProbeNow", "ProbeInFlight"}
              /\ Goto(c, "connect")
              /\ UNCHANGED conn
           \/ /\ decision \in {"Cooldown", "Disabled404"}
              /\ Return(c)
        /\ probers' = IF decision = "ProbeNow"
                      THEN [probers EXCEPT ![ws_key(c)] = @ \cup {c}]
                      ELSE probers
        /\ UNCHANGED <<learned, clock, extracted>>

domains(c) == ws_domains(conn[c].info.dc, conn[c].info.is_media)

\* RawWsClient::connect succeeded for the domain the loop has reached
ConnectOk(c) ==
    /\ pc[c] = "connect"
    /\ conn' = [conn EXCEPT ![c].via = domains(c)[Len(conn[c].answers) + 1]]
    /\ Goto(c, "clear")
    /\ UNCHANGED <<states, learned, clock, extracted, probers>>

\* Mutations of ConnectFails: the last answer decides all_404; the loop
\* starts again after the last domain
ConnectFails_last_answer(c, answer) ==
    /\ pc[c] = "connect"
    /\ conn' = [conn EXCEPT ![c].all404 = (answer = "404"),
                            ![c].answers = Append(@, answer)]
    /\ IF Len(conn[c].answers) + 1 < Len(domains(c))
       THEN UNCHANGED pc
       ELSE Goto(c, "fail")
    /\ UNCHANGED <<states, learned, clock, extracted, probers>>

ConnectFails_retry(c, answer) ==
    /\ pc[c] = "connect"
    /\ conn' = [conn EXCEPT ![c].all404 = @ /\ answer = "404",
                            ![c].answers = IF Len(@) + 1 < Len(domains(c))
                                           THEN Append(@, answer) ELSE << >>]
    /\ UNCHANGED <<pc, states, learned, clock, extracted, probers>>

\* RawWsClient::connect failed, with HTTP status 404 or in another way
ConnectFails(c, answer) ==
    /\ pc[c] = "connect"
    /\ conn' = [conn EXCEPT ![c].all404 = @ /\ answer = "404",
                            ![c].answers = Append(@, answer)]
    /\ IF Len(conn[c].answers) + 1 < Len(domains(c))
       THEN UNCHANGED pc
       ELSE Goto(c, "fail")
    /\ UNCHANGED <<states, learned, clock, extracted, probers>>

\* clear_ws_probe after a successful connect; the relay starts
ClearProbe(c) ==
    /\ pc[c] = "clear"
    /\ states' = clear(states, ws_key(c))
    /\ probers' = [probers EXCEPT ![ws_key(c)] = {}]
    /\ Goto(c, "bridge")
    /\ UNCHANGED <<conn, learned, clock, extracted>>

\* disable_ws_route or record_ws_failure after the last domain failed
RecordOutcome(c) ==
    /\ pc[c] = "fail"
    /\ states' = IF conn[c].all404
                 THEN disable_404(states, ws_key(c))
                 ELSE record_failure(states, ws_key(c), conn[c].stamp)
    /\ probers' = [probers EXCEPT ![ws_key(c)] = {}]
    /\ Return(c)
    /\ UNCHANGED <<learned, clock, extracted>>

\* bridge_ws_tcp, bridge_tcp_tcp or bridge_tcp_tcp_with_prelude returned
RelayEnds(c) ==
    /\ pc[c] \in {"bridge", "passthrough", "direct"}
    /\ Return(c)
    /\ UNCHANGED <<states, learned, clock, extracted, probers>>

Tick == /\ clock < MaxClock
        /\ clock' = clock + 1
        /\ UNCHANGED <<pc, conn, states, learned, extracted, probers>>

-----------------------------------------------------------------------------
InitArrives(c) == ReadInitFails(c) \/ \E p \in Packets : ReadInit(c, p)

UpstreamAnswers(c) ==
    ConnectOk(c) \/ \E answer \in {"404", "error"} : ConnectFails(c, answer)

\* The steps a task takes without waiting for a peer
TaskStep(c) == \/ ResolveInit(c) \/ RememberIpv6(c) \/ StampNow(c)
               \/ BeginProbe(c) \/ ClearProbe(c) \/ RecordOutcome(c)

Step(c) == \/ Accept(c) \/ SocksFails(c)
           \/ \E h \in Hosts : SocksConnect(c, h)
           \/ InitArrives(c) \/ UpstreamAnswers(c)
           \/ TaskStep(c) \/ RelayEnds(c)

Next == Tick \/ \E c \in Clients : Step(c)

\* tokio polls a runnable task again, and the read of the init has a timeout.
\* Nothing is assumed of clients, and nothing of upstreams: only the TCP and TLS
\* parts of a connect have a timeout, perform_handshake has none.
Fairness == \A c \in Clients : /\ WF_vars(TaskStep(c))
                               /\ WF_vars(InitArrives(c))

Spec == Init /\ [][Next]_vars /\ Fairness

-----------------------------------------------------------------------------
(* What the caches and the backoff table promise *)

\* An attempt on route k that has not recorded its outcome yet
InFlight(c, k) == pc[c] \in {"connect", "clear", "fail"} /\ ws_key(c) = k

\* Task c records the outcome of its attempt on k in this step
Records(c, k) == /\ pc[c] \in {"clear", "fail"} /\ ws_key(c) = k
                 /\ pc'[c] \in {"bridge", "free"}

\* A learned mapping was read from the init of some connection to that very
\* target, although remember_telegram_ipv6 also writes back entries that the
\* same task took from the cache a moment ago.
LearnedFromInit ==
    \A h \in Hosts : learned[h] # NoEntry => <<h, learned[h]>> \in extracted

\* The init that goes into the WebSocket names the data centre and the media
\* flag by which the endpoint was chosen, patched or not.
RouteMatchesInit ==
    \A c \in Clients :
        pc[c] = "bridge" /\ conn[c].packet.proto
            => /\ extract_dc(conn[c].packet) = conn[c].info
               /\ conn[c].via.dc = conn[c].info.dc

\* The mapping of h is known and no task that looked it up too early is left
Settled(h) == /\ learned[h] # NoEntry
              /\ \A c \in Clients :
                    conn[c].target = h =>
                        /\ pc[c] # "direct"
                        /\ pc[c] = "remember" => conn[c].info # NoEntry

\* handle_unknown_dc sends only a first hit to direct passthrough: once the
\* mapping of an IPv6 target is settled, it stays so, and no later connection
\* to it goes out as plain TCP.
FirstHitOnly == [][\A h \in Hosts : Settled(h) => Settled(h)']_vars

\* A probe or cooldown that has not expired is replaced only by the outcome of
\* an attempt on the same route: the sweep in begin_probe, run by tasks of any
\* route with an Instant read some time ago, never drops it early.
BackoffKept ==
    [][\A k \in WsKey :
          Timed(states[k]) /\ states[k].until > clock /\ states'[k] # states[k]
              => \E c \in Clients : Records(c, k)]_vars

\* Within WS_ATTEMPT_WINDOW of a task told ProbeNow, no other task is told
\* ProbeNow for the same route, unless an outcome was recorded in between.
OneProbePerWindow ==
    [][\A k \in WsKey :
          \A c \in probers'[k] \ probers[k], d \in probers[k] :
              conn[d].stamp + WS_ATTEMPT_WINDOW <= clock]_vars

\* disable_ws_route is reached only by a task all of whose domains said 404
DisabledOnlyAfterAll404 ==
    [][\A k \in WsKey :
          states[k] # Disabled404 /\ states'[k] = Disabled404 =>
              \E c \in Clients : /\ Records(c, k)
                                 /\ Len(conn[c].answers) = Len(domains(c))
                                 /\ \A i \in DOMAIN conn[c].answers :
                                        conn[c].answers[i] = "404"]_vars

\* Route k is disabled and no attempt on it is under way
Quiet(k) == states[k] = Disabled404 /\ \A c \in Clients : ~InFlight(c, k)

\* Once a disabled route has no attempt under way it is disabled for good: no
\* later connection is let through and nothing replaces the state.
QuietStaysDisabled == [][\A k \in WsKey : Quiet(k) => Quiet(k)']_vars

\* The n-th answer is not there yet: the loop over the domains awaits its connect
AwaitsAnswer(c, n) == pc[c] = "connect" /\ Len(conn[c].answers) = n - 1

\* From whatever point between the SOCKS reply and its outcome, a connection to
\* a Telegram target ends or reaches a relay, with one exception: an upstream that
\* never completes its answer keeps the task at that one domain for ever.  There
\* are at most two domains to wait for.
AttemptResolves ==
    \A c \in Clients :
        \/ []<>(pc[c] \in {"free", "socks", "passthrough", "bridge", "direct"})
        \/ \E n \in 1..2 : <>[]AwaitsAnswer(c, n)

-----------------------------------------------------------------------------
(* What the documents say and the code does not do *)

\* routing.rs warns "ws disabled for runtime after HTTP 404": a disabled route
\* would stay disabled until the process ends.
DisabledForRuntime ==
    [][\A k \in WsKey : states[k] = Disabled404 => states'[k] = Disabled404]_vars

\* docs/architecture.md: "For IPv6 targets with extracted DC, proxy stores a
\* runtime mapping": only a task that read the DC from its own init would
\* change the mapping.
LearnedOnlyByExtraction ==
    [][\A h \in Hosts : learned'[h] # learned[h] =>
          \E c \in Clients : /\ pc[c] = "remember" /\ pc'[c] # "remember"
                             /\ conn[c].target = h /\ ~conn[c].patched]_vars
=============================================================================
