---------------------------- MODULE RoutingProofs ----------------------------
(***************************************************************************)
(* TLAPS proofs about Routing, for any set of connections, targets and     *)
(* init packets, any clock bound and any durations.                        *)
(***************************************************************************)
EXTENDS Routing, TLAPS

-----------------------------------------------------------------------------
(* Lemmas about the tables and the init packet *)

LEMMA DomainOf ==
    ASSUME NEW S, NEW T, NEW f \in [S -> T]
    PROVE  DOMAIN f = S
  OBVIOUS

\* A target of eight groups is in no row of the IPv4 catalogue.
LEMMA Ipv6Host ==
    ASSUME NEW h \in Ipv6
    PROVE  ip_to_dc(h) = NoEntry
  <1>1. DOMAIN h = 1..8
    BY DomainOf DEF Ipv6
  <1>2. 5 \in 1..8 /\ 5 \notin 1..4
    OBVIOUS
  <1>3. h \in Ipv4 => DOMAIN h = 1..4
    BY DomainOf DEF Ipv4
  <1>4. h \notin Ipv4
    BY <1>1, <1>2, <1>3
  <1> QED BY <1>4 DEF ip_to_dc

\* ip_to_dc returns a data centre or nothing.
LEMMA CatalogueType ==
    ASSUME NEW h
    PROVE  ip_to_dc(h) \in TelegramInitInfo
  BY DEF ip_to_dc, TelegramInitInfo

LEMMA ExtractType ==
    ASSUME NEW p \in InitPacket
    PROVE  extract_dc(p) \in TelegramInitInfo
  <1>1. (p.dcRaw < 0) \in BOOLEAN
    OBVIOUS
  <1>2. \A dc \in Dc, b \in BOOLEAN : entry(dc, b) \in TelegramIpEntry
    BY DEF entry, TelegramIpEntry
  <1> QED BY <1>1, <1>2 DEF extract_dc, TelegramInitInfo

\* patch_init_dc writes what extract_dc reads back, for every packet and every data
\* centre, media or not, and leaves the protocol tag alone.
THEOREM PatchedInit ==
    ASSUME NEW p \in InitPacket, NEW e \in TelegramIpEntry
    PROVE  /\ patch_init_dc(p, signed_dc(e)) \in InitPacket
           /\ patch_init_dc(p, signed_dc(e)).proto = p.proto
           /\ p.proto => extract_dc(patch_init_dc(p, signed_dc(e))) = e
  <1> DEFINE q == patch_init_dc(p, signed_dc(e))
  <1>1. e.dc \in 1..5 /\ e.is_media \in BOOLEAN /\ e = entry(e.dc, e.is_media)
    BY DEF TelegramIpEntry, entry, Dc
  <1>2. /\ e.is_media => signed_dc(e) = -e.dc
        /\ ~e.is_media => signed_dc(e) = e.dc
    BY <1>1 DEF signed_dc
  <1>3. signed_dc(e) \in I16
    <2> DEFINE lo == -32768   hi == 32767
    <2>1. I16 = lo..hi
      BY DEF I16
    <2>2. ASSUME NEW n \in 1..5
          PROVE  lo \in Int /\ hi \in Int /\ lo <= n /\ n <= hi /\ lo <= -n /\ -n <= hi
      OBVIOUS
    <2> HIDE DEF lo, hi
    <2>3. e.dc \in I16 /\ -e.dc \in I16
      BY <1>1, <2>1, <2>2
    <2> QED BY <1>1, <1>2, <2>3
  <1>4. signed_dc(e) < 0 <=> e.is_media
    BY <1>1, <1>2
  <1>5. unsigned_abs(signed_dc(e)) = e.dc
    BY <1>1, <1>2 DEF unsigned_abs
  <1>6. unsigned_abs(signed_dc(e)) % 256 = e.dc
    BY <1>1, <1>5
  <1>7. q \in InitPacket /\ q.proto = p.proto /\ q.dcRaw = signed_dc(e)
    BY <1>3 DEF patch_init_dc, InitPacket
  <1>8. p.proto => extract_dc(q) = e
    BY <1>1, <1>4, <1>6, <1>7 DEF extract_dc, entry, Dc
  <1> QED BY <1>7, <1>8

-----------------------------------------------------------------------------
(* Type correctness.  The for loop of connect_ws_route indexes the domains   *)
(* of the resolved data centre, so the type invariant needs the control      *)
(* state that bounds the loop and says when a data centre is known.          *)

\* From the resolution on, the data centre of a routed connection is known.
Routed == {"stamp", "begin", "connect", "clear", "bridge", "fail"}

DcKnown == \A c \in Clients : pc[c] \in Routed => conn[c].info \in TelegramIpEntry

TargetKnown ==
    \A c \in Clients : pc[c] \notin {"free", "socks"} => conn[c].target \in Hosts

\* The loop over the domains has not begun, is running, or is over.
LoopBounded ==
    \A c \in Clients :
        /\ pc[c] \notin {"connect", "clear", "bridge", "fail"} => conn[c].answers = << >>
        /\ pc[c] = "connect" => Len(conn[c].answers) < 2
        /\ pc[c] = "fail" => Len(conn[c].answers) = 2

TypeInv == TypeOK /\ DcKnown /\ TargetKnown /\ LoopBounded

LEMMA NoConnType == NoConn \in Conn
  BY DEF NoConn, Conn, Host, DomainName, NoPacket, InitPacket, I16,
         TelegramInitInfo, NoDomain

LEMMA InitTypeInv == Init => TypeInv
  <1> SUFFICES ASSUME Init PROVE TypeInv
    OBVIOUS
  <1> USE DEF Init
  <1>1. NoConn \in Conn
    BY NoConnType
  <1>2. TypeOK
    BY <1>1 DEF TypeOK, Labels, WsState, TelegramInitInfo
  <1>3. conn = [c \in Clients |-> NoConn] /\ NoConn.answers = << >>
    BY DEF NoConn
  <1> QED BY <1>2, <1>3 DEF TypeInv, DcKnown, TargetKnown, LoopBounded, Routed

LEMMA KnownType ==
    ASSUME TypeOK, NEW h \in Hosts
    PROVE  known_entry(h) \in TelegramInitInfo
  BY CatalogueType DEF TypeOK, known_entry, learned_ipv6_entry, TelegramInitInfo

LEMMA ResolveType ==
    ASSUME TypeOK, NEW h \in Hosts, NEW p \in InitPacket
    PROVE  /\ resolve_telegram_init(h, p).packet \in InitPacket
           /\ resolve_telegram_init(h, p).info \in TelegramInitInfo
           /\ resolve_telegram_init(h, p).patched \in BOOLEAN
  <1>1. CASE extract_dc(p) # NoEntry \/ known_entry(h) = NoEntry
    BY <1>1, ExtractType DEF resolve_telegram_init
  <1>2. CASE ~(extract_dc(p) # NoEntry \/ known_entry(h) = NoEntry)
    <2>1. known_entry(h) \in TelegramIpEntry
      BY <1>2, KnownType DEF TelegramInitInfo
    <2> QED BY <1>2, <2>1, PatchedInit DEF resolve_telegram_init, TelegramInitInfo
  <1> QED BY <1>1, <1>2

LEMMA BackoffType ==
    ASSUME NEW st \in [WsKey -> WsState], NEW k, NEW now \in Nat
    PROVE  /\ begin_probe(st, k, now) \in [WsKey -> WsState]
           /\ record_failure(st, k, now) \in [WsKey -> WsState]
           /\ disable_404(st, k) \in [WsKey -> WsState]
           /\ clear(st, k) \in [WsKey -> WsState]
  <1>1. Absent \in WsState /\ Disabled404 \in WsState
    BY DEF WsState
  <1>2. retain(st, now) \in [WsKey -> WsState]
    BY <1>1 DEF retain
  <1>3. /\ Probing(now + WS_ATTEMPT_WINDOW) \in WsState
        /\ Cooldown(now + WS_FAILURE_COOLDOWN) \in WsState
    BY DurationsAssumption DEF WsState, Probing, Cooldown
  <1>4. begin_probe(st, k, now) \in [WsKey -> WsState]
    BY <1>2, <1>3 DEF begin_probe
  <1>5. /\ record_failure(st, k, now) \in [WsKey -> WsState]
        /\ disable_404(st, k) \in [WsKey -> WsState]
        /\ clear(st, k) \in [WsKey -> WsState]
    BY <1>1, <1>3 DEF record_failure, disable_404, clear
  <1> QED BY <1>4, <1>5

LEMMA DomainsType ==
    ASSUME TypeInv, NEW c \in Clients, pc[c] \in Routed
    PROVE  /\ Len(domains(c)) = 2
           /\ domains(c)[1] \in WsDomain /\ domains(c)[1].dc = conn[c].info.dc
           /\ domains(c)[2] \in WsDomain /\ domains(c)[2].dc = conn[c].info.dc
  BY DEF TypeInv, DcKnown, domains, ws_domains, WsDomain, TelegramIpEntry

LEMMA LoopPosition ==
    ASSUME TypeInv, NEW c \in Clients, pc[c] = "connect"
    PROVE  /\ conn[c].answers \in Seq({"404", "error"})
           /\ Len(conn[c].answers) \in {0, 1}
           /\ Len(conn[c].answers) + 1 \in {1, 2}
  <1>1. conn[c].answers \in Seq({"404", "error"})
    BY DEF TypeInv, TypeOK, Conn
  <1>2. Len(conn[c].answers) < 2
    BY DEF TypeInv, LoopBounded
  <1>3. Len(conn[c].answers) \in Nat
    BY <1>1
  <1>4. \A n \in Nat : n < 2 => n \in {0, 1} /\ n + 1 \in {1, 2}
    OBVIOUS
  <1> QED BY <1>1, <1>2, <1>3, <1>4

\* Leaving route_client resets the slot to a state TypeInv allows.
LEMMA ReturnTypeInv ==
    ASSUME TypeInv, NEW c \in Clients, Return(c)
    PROVE  /\ pc' \in [Clients -> Labels]
           /\ conn' \in [Clients -> Conn]
           /\ (DcKnown /\ TargetKnown /\ LoopBounded)'
  <1>1. pc' \in [Clients -> Labels] /\ conn' \in [Clients -> Conn]
    BY NoConnType DEF TypeInv, TypeOK, Return, Goto, Labels
  <1>2. NoConn.answers = << >>
    BY DEF NoConn
  <1> QED BY <1>1, <1>2
       DEF TypeInv, TypeOK, DcKnown, TargetKnown, LoopBounded, Routed, Return, Goto

LEMMA NextTypeInv == TypeInv /\ [Next]_vars => TypeInv'
  <1> SUFFICES ASSUME TypeInv, [Next]_vars PROVE TypeInv'
    OBVIOUS
  <1> USE DEF TypeInv
  <1>1. CASE UNCHANGED vars
    BY <1>1 DEF vars, TypeOK, DcKnown, TargetKnown, LoopBounded
  <1>2. CASE Tick
    BY <1>2 DEF Tick, TypeOK, DcKnown, TargetKnown, LoopBounded
  <1>3. ASSUME NEW c \in Clients, Accept(c) PROVE TypeInv'
    BY <1>3 DEF Accept, Goto, Labels, Routed, TypeOK, DcKnown, TargetKnown, LoopBounded
  <1>4. ASSUME NEW c \in Clients, SocksFails(c) PROVE TypeInv'
    BY <1>4, ReturnTypeInv DEF SocksFails, TypeOK
  <1>5. ASSUME NEW c \in Clients, NEW h \in Hosts, SocksConnect(c, h) PROVE TypeInv'
    <2>1. h \in Host
      BY RoutingAssumption
    <2>2. conn' \in [Clients -> Conn]
      BY <1>5, <2>1, ZenonT(60) DEF SocksConnect, TypeOK, Conn
    <2>3. TypeOK'
      BY <1>5, <2>2 DEF SocksConnect, Goto, Labels, TypeOK
    <2>4. (DcKnown /\ TargetKnown /\ LoopBounded)'
      BY <1>5 DEF SocksConnect, Goto, Routed, Conn, TypeOK, DcKnown, TargetKnown, LoopBounded
    <2> QED BY <2>3, <2>4
  <1>6. ASSUME NEW c \in Clients, ReadInitFails(c) PROVE TypeInv'
    BY <1>6, ReturnTypeInv DEF ReadInitFails, TypeOK
  <1>7. ASSUME NEW c \in Clients, NEW p \in Packets, ReadInit(c, p) PROVE TypeInv'
    <2>1. p \in InitPacket
      BY RoutingAssumption
    <2>2. conn' \in [Clients -> Conn]
      BY <1>7, <2>1, ZenonT(60) DEF ReadInit, TypeOK, Conn
    <2>3. TypeOK'
      BY <1>7, <2>2 DEF ReadInit, Goto, Labels, TypeOK
    <2>4. (DcKnown /\ TargetKnown /\ LoopBounded)'
      BY <1>7 DEF ReadInit, Goto, Routed, Conn, TypeOK, DcKnown, TargetKnown, LoopBounded
    <2> QED BY <2>3, <2>4
  <1>8. ASSUME NEW c \in Clients, ResolveInit(c) PROVE TypeInv'
    <2> DEFINE r == resolve_telegram_init(conn[c].target, conn[c].packet)
    <2>1. conn[c].target \in Hosts /\ conn[c].packet \in InitPacket
      BY <1>8 DEF ResolveInit, TypeOK, TargetKnown, Conn
    <2>2. /\ r.packet \in InitPacket /\ r.info \in TelegramInitInfo
          /\ r.patched \in BOOLEAN
      BY <2>1, ResolveType
    <2>3. r.info # NoEntry => <<conn[c].target, r.info>> \in Hosts \X TelegramIpEntry
      BY <2>1, <2>2 DEF TelegramInitInfo
    <2> HIDE DEF r
    <2>4. [conn[c] EXCEPT !.packet = r.packet, !.info = r.info,
                          !.patched = r.patched] \in Conn
      BY <2>2, ZenonT(60) DEF TypeOK, Conn
    <2>5. conn' \in [Clients -> Conn]
      BY <1>8, <2>4 DEF ResolveInit, r, TypeOK
    <2>6. extracted' \subseteq Hosts \X TelegramIpEntry
      BY <1>8, <2>3 DEF ResolveInit, r, TypeOK
    <2>7. TypeOK'
      BY <1>8, <2>5, <2>6 DEF ResolveInit, Goto, Labels, TypeOK
    <2>8. (DcKnown /\ TargetKnown /\ LoopBounded)'
      BY <1>8 DEF ResolveInit, r, Goto, Routed, Conn, TypeOK, DcKnown, TargetKnown, LoopBounded
    <2> QED BY <2>7, <2>8
  <1>9. ASSUME NEW c \in Clients, RememberIpv6(c) PROVE TypeInv'
    <2>1. learned' \in [Hosts -> TelegramInitInfo]
      BY <1>9 DEF RememberIpv6, remember_telegram_ipv6, remember_ipv6_entry, TypeOK, Conn
    <2>2. CASE Return(c)
      BY <1>9, <2>1, <2>2, ReturnTypeInv DEF RememberIpv6, TypeOK
    <2>3. CASE /\ UNCHANGED conn
               /\ Goto(c, "direct") \/ (Goto(c, "stamp") /\ conn[c].info # NoEntry)
      BY <1>9, <2>1, <2>3, ZenonT(60) DEF RememberIpv6, Goto, Labels, Routed, Conn, TelegramInitInfo,
                              TypeOK, DcKnown, TargetKnown, LoopBounded
    <2>4. \/ Return(c)
          \/ /\ UNCHANGED conn
             /\ Goto(c, "direct") \/ (Goto(c, "stamp") /\ conn[c].info # NoEntry)
      BY <1>9 DEF RememberIpv6
    <2> QED BY <2>2, <2>3, <2>4
  <1>10. ASSUME NEW c \in Clients, StampNow(c) PROVE TypeInv'
    <2>1. clock \in Nat
      BY DEF TypeOK
    <2>2. conn' \in [Clients -> Conn]
      BY <1>10, <2>1, ZenonT(60) DEF StampNow, TypeOK, Conn
    <2>3. TypeOK'
      BY <1>10, <2>2 DEF StampNow, Goto, Labels, TypeOK
    <2>4. (DcKnown /\ TargetKnown /\ LoopBounded)'
      BY <1>10 DEF StampNow, Goto, Routed, Conn, TypeOK, DcKnown, TargetKnown, LoopBounded
    <2> QED BY <2>3, <2>4
  <1>11. ASSUME NEW c \in Clients, BeginProbe(c) PROVE TypeInv'
    <2>1. conn[c].stamp \in Nat
      BY DEF TypeOK, Conn
    <2>2. states' \in [WsKey -> WsState] /\ probers' \in [WsKey -> SUBSET Clients]
      BY <1>11, <2>1, BackoffType DEF BeginProbe, TypeOK
    <2>3. CASE Return(c)
      BY <1>11, <2>2, <2>3, ReturnTypeInv DEF BeginProbe, TypeOK
    <2>4. CASE Goto(c, "connect") /\ UNCHANGED conn
      BY <1>11, <2>2, <2>4 DEF BeginProbe, Goto, Labels, Routed, Conn,
                               TypeOK, DcKnown, TargetKnown, LoopBounded
    <2> QED BY <1>11, <2>3, <2>4 DEF BeginProbe
  <1>12. ASSUME NEW c \in Clients, ConnectOk(c) PROVE TypeInv'
    <2>1. pc[c] = "connect" /\ pc[c] \in Routed
      BY <1>12 DEF ConnectOk, Routed
    <2>2. domains(c)[1] \in WsDomain /\ domains(c)[2] \in WsDomain
      BY <2>1, DomainsType
    <2>3. Len(conn[c].answers) + 1 \in {1, 2}
      BY <2>1, LoopPosition
    <2>4. domains(c)[Len(conn[c].answers) + 1] \in WsDomain
      BY <2>2, <2>3
    <2>5. conn' \in [Clients -> Conn]
      BY <1>12, <2>4, ZenonT(60) DEF ConnectOk, TypeOK, Conn
    <2>6. TypeOK'
      BY <1>12, <2>5 DEF ConnectOk, Goto, Labels, TypeOK
    <2>7. (DcKnown /\ TargetKnown /\ LoopBounded)'
      BY <1>12 DEF ConnectOk, Goto, Routed, Conn, TypeOK, DcKnown, TargetKnown, LoopBounded
    <2> QED BY <2>6, <2>7
  <1>13. ASSUME NEW c \in Clients, NEW answer \in {"404", "error"},
                ConnectFails(c, answer)
         PROVE  TypeInv'
    <2>1. Len(domains(c)) = 2
      BY <1>13, DomainsType DEF ConnectFails, Routed
    <2>2. /\ conn[c].answers \in Seq({"404", "error"})
          /\ Append(conn[c].answers, answer) \in Seq({"404", "error"})
          /\ Len(Append(conn[c].answers, answer)) = Len(conn[c].answers) + 1
          /\ Len(conn[c].answers) \in {0, 1}
      BY <1>13, LoopPosition DEF ConnectFails
    <2>3. TypeOK'
      BY <1>13, <2>2 DEF ConnectFails, Goto, Labels, Conn, TypeOK
    <2>4. (DcKnown /\ TargetKnown /\ LoopBounded)'
      BY <1>13, <2>1, <2>2 DEF ConnectFails, Goto, Routed, Conn, TypeOK,
                               DcKnown, TargetKnown, LoopBounded
    <2> QED BY <2>3, <2>4
  <1>14. ASSUME NEW c \in Clients, ClearProbe(c) PROVE TypeInv'
    <2>1. states' \in [WsKey -> WsState] /\ probers' \in [WsKey -> SUBSET Clients]
      BY <1>14, BackoffType DEF ClearProbe, TypeOK
    <2>2. TypeOK'
      BY <1>14, <2>1 DEF ClearProbe, Goto, Labels, TypeOK
    <2>3. (DcKnown /\ TargetKnown /\ LoopBounded)'
      BY <1>14 DEF ClearProbe, Goto, Routed, Conn, TypeOK, DcKnown, TargetKnown, LoopBounded
    <2> QED BY <2>2, <2>3
  <1>15. ASSUME NEW c \in Clients, RecordOutcome(c) PROVE TypeInv'
    <2>1. conn[c].stamp \in Nat
      BY DEF TypeOK, Conn
    <2>2. states' \in [WsKey -> WsState] /\ probers' \in [WsKey -> SUBSET Clients]
      BY <1>15, <2>1, BackoffType DEF RecordOutcome, TypeOK
    <2> QED BY <1>15, <2>2, ReturnTypeInv DEF RecordOutcome, TypeOK
  <1>16. ASSUME NEW c \in Clients, RelayEnds(c) PROVE TypeInv'
    BY <1>16, ReturnTypeInv DEF RelayEnds, TypeOK
  <1> QED BY <1>1, <1>2, <1>3, <1>4, <1>5, <1>6, <1>7, <1>8, <1>9, <1>10, <1>11,
             <1>12, <1>13, <1>14, <1>15, <1>16
          DEF Next, Step, InitArrives, UpstreamAnswers, TaskStep

\* Every state of a behaviour is of the right type; in particular the loop over
\* the WebSocket domains never runs past its end.
THEOREM TypeCorrect == Spec => []TypeOK
  <1>1. TypeInv => TypeOK
    BY DEF TypeInv
  <1> QED BY <1>1, InitTypeInv, NextTypeInv, PTL DEF Spec

-----------------------------------------------------------------------------
(* Locality: a step of one task leaves the other tasks where they are *)

LEMMA GotoEffect ==
    ASSUME TypeOK, NEW c \in Clients, NEW l, Goto(c, l)
    PROVE  pc'[c] = l /\ \A d \in Clients \ {c} : pc'[d] = pc[d]
  BY DEF TypeOK, Goto

LEMMA ReturnEffect ==
    ASSUME TypeOK, NEW c \in Clients, Return(c)
    PROVE  /\ pc'[c] = "free" /\ conn'[c] = NoConn
           /\ \A d \in Clients \ {c} : pc'[d] = pc[d] /\ conn'[d] = conn[d]
  BY DEF TypeOK, Return, Goto

LEMMA Locality ==
    ASSUME TypeOK, NEW c \in Clients, Step(c)
    PROVE  \A d \in Clients \ {c} : pc'[d] = pc[d] /\ conn'[d] = conn[d]
  <1> SUFFICES ASSUME NEW d \in Clients \ {c}
               PROVE  pc'[d] = pc[d] /\ conn'[d] = conn[d]
    OBVIOUS
  <1> USE DEF TypeOK
  <1>1. CASE Return(c)
    BY <1>1, ReturnEffect
  <1>2. CASE Accept(c)
    BY <1>2 DEF Accept, Goto
  <1>3. CASE \E h \in Hosts : SocksConnect(c, h)
    BY <1>3 DEF SocksConnect, Goto
  <1>4. CASE \E p \in Packets : ReadInit(c, p)
    BY <1>4 DEF ReadInit, Goto
  <1>5. CASE ResolveInit(c)
    BY <1>5 DEF ResolveInit, Goto
  <1>6. CASE RememberIpv6(c)
    BY <1>1, <1>6 DEF RememberIpv6, Goto
  <1>7. CASE StampNow(c)
    BY <1>7 DEF StampNow, Goto
  <1>8. CASE BeginProbe(c)
    BY <1>1, <1>8 DEF BeginProbe, Goto
  <1>9. CASE ConnectOk(c)
    BY <1>9 DEF ConnectOk, Goto
  <1>10. CASE \E answer \in {"404", "error"} : ConnectFails(c, answer)
    BY <1>10 DEF ConnectFails, Goto
  <1>11. CASE ClearProbe(c)
    BY <1>11 DEF ClearProbe, Goto
  <1>12. SocksFails(c) \/ ReadInitFails(c) \/ RecordOutcome(c) \/ RelayEnds(c) => Return(c)
    BY DEF SocksFails, ReadInitFails, RecordOutcome, RelayEnds
  <1> QED BY <1>1, <1>2, <1>3, <1>4, <1>5, <1>6, <1>7, <1>8, <1>9, <1>10, <1>11, <1>12
          DEF Step, InitArrives, UpstreamAnswers, TaskStep

-----------------------------------------------------------------------------
(* The cache of learned IPv6 targets *)

\* An entry a task is about to remember for an IPv6 target was read from an
\* init of that target, by this task or by the one that filled the cache.
CacheInv ==
    /\ LearnedFromInit
    /\ \A h \in Hosts : learned[h] # NoEntry => h \in Ipv6
    /\ \A c \in Clients :
          pc[c] = "remember" /\ is_ipv6(conn[c].target) /\ conn[c].info # NoEntry
              => <<conn[c].target, conn[c].info>> \in extracted

\* What resolve_telegram_init returns for an IPv6 target is what the init says
\* or what the cache says.
LEMMA ResolveIpv6 ==
    ASSUME NEW h \in Ipv6, NEW p,
           resolve_telegram_init(h, p).info # NoEntry
    PROVE  \/ ~resolve_telegram_init(h, p).patched
           \/ /\ resolve_telegram_init(h, p).info = learned[h]
              /\ learned[h] # NoEntry
  BY Ipv6Host DEF resolve_telegram_init, known_entry, learned_ipv6_entry

LEMMA NextCacheInv == TypeInv /\ CacheInv /\ [Next]_vars => CacheInv'
  <1> SUFFICES ASSUME TypeInv, CacheInv, [Next]_vars PROVE CacheInv'
    OBVIOUS
  <1>1. ASSUME learned' = learned, extracted' = extracted,
               \A c \in Clients : pc'[c] = "remember" =>
                   pc[c] = "remember" /\ conn'[c] = conn[c]
        PROVE  CacheInv'
    BY <1>1 DEF CacheInv, LearnedFromInit
  <1>2. CASE UNCHANGED vars
    BY <1>1, <1>2 DEF vars
  <1>3. CASE Tick
    BY <1>1, <1>3 DEF Tick
  <1>4. ASSUME NEW c \in Clients, ResolveInit(c) PROVE CacheInv'
    <2> DEFINE h == conn[c].target
    <2> DEFINE r == resolve_telegram_init(h, conn[c].packet)
    <2>1. h \in Hosts
      BY <1>4 DEF ResolveInit, TypeInv, TargetKnown
    <2>2. conn'[c].target = h /\ conn'[c].info = r.info
      BY <1>4 DEF ResolveInit, TypeInv, TypeOK, Conn
    <2>3. learned' = learned /\ extracted \subseteq extracted'
      BY <1>4 DEF ResolveInit
    <2>4. is_ipv6(h) /\ r.info # NoEntry => <<h, r.info>> \in extracted'
      <3> SUFFICES ASSUME is_ipv6(h), r.info # NoEntry PROVE <<h, r.info>> \in extracted'
        OBVIOUS
      <3>1. CASE ~r.patched
        BY <1>4, <3>1 DEF ResolveInit
      <3>2. CASE r.info = learned[h] /\ learned[h] # NoEntry
        BY <2>1, <2>3, <3>2 DEF CacheInv, LearnedFromInit
      <3> QED BY <3>1, <3>2, ResolveIpv6 DEF is_ipv6
    <2>5. \A d \in Clients \ {c} : pc'[d] = pc[d] /\ conn'[d] = conn[d]
      BY <1>4, Locality DEF TypeInv, Step, TaskStep
    <2> HIDE DEF r, h
    <2> QED BY <2>2, <2>3, <2>4, <2>5 DEF CacheInv, LearnedFromInit
  <1>5. ASSUME NEW c \in Clients, RememberIpv6(c) PROVE CacheInv'
    <2>1. \A d \in Clients : pc'[d] = "remember" => pc[d] = "remember" /\ conn'[d] = conn[d]
      <3>1. \A d \in Clients \ {c} : pc'[d] = pc[d] /\ conn'[d] = conn[d]
        BY <1>5, Locality DEF TypeInv, Step, TaskStep
      <3>2. pc'[c] # "remember"
        BY <1>5, GotoEffect, ReturnEffect DEF RememberIpv6, TypeInv
      <3> QED BY <3>1, <3>2
    <2>2. extracted' = extracted /\ pc[c] = "remember"
      BY <1>5 DEF RememberIpv6
    <2>3. \/ learned' = learned
          \/ /\ learned' = [learned EXCEPT ![conn[c].target] = conn[c].info]
             /\ is_ipv6(conn[c].target) /\ conn[c].info # NoEntry
      BY <1>5 DEF RememberIpv6, remember_telegram_ipv6, remember_ipv6_entry
    <2>4. learned \in [Hosts -> TelegramInitInfo]
      BY DEF TypeInv, TypeOK
    <2> QED BY <2>1, <2>2, <2>3, <2>4 DEF CacheInv, LearnedFromInit, is_ipv6
  <1>6. ASSUME NEW c \in Clients, Step(c), ~ResolveInit(c), ~RememberIpv6(c)
        PROVE  CacheInv'
    <2>1. \A d \in Clients \ {c} : pc'[d] = pc[d] /\ conn'[d] = conn[d]
      BY <1>6, Locality DEF TypeInv
    <2>2. learned' = learned /\ extracted' = extracted
      BY <1>6 DEF Step, InitArrives, UpstreamAnswers, TaskStep, Accept, SocksFails,
                  SocksConnect, ReadInit, ReadInitFails, StampNow, BeginProbe, ConnectOk,
                  ConnectFails, ClearProbe, RecordOutcome, RelayEnds
    <2>3. pc'[c] # "remember"
      <3>1. \/ \E l \in Labels \ {"remember"} : Goto(c, l)
            \/ Return(c) \/ (pc[c] = "connect" /\ pc' = pc)
        BY <1>6 DEF Step, InitArrives, UpstreamAnswers, TaskStep, Accept, SocksFails,
                    SocksConnect, ReadInit, ReadInitFails, StampNow, BeginProbe, ConnectOk,
                    ConnectFails, ClearProbe, RecordOutcome, RelayEnds, Labels
      <3> QED BY <3>1, GotoEffect, ReturnEffect DEF TypeInv
    <2> QED BY <1>1, <2>1, <2>2, <2>3
  <1> QED BY <1>2, <1>3, <1>4, <1>5, <1>6 DEF Next

LEMMA InitCacheInv == Init => CacheInv
  BY DEF Init, CacheInv, LearnedFromInit

\* The cache of learned IPv6 targets never holds a mapping that no client's own
\* init to that target named, although tasks also write back what they read.
THEOREM CacheCorrect == Spec => []LearnedFromInit
  <1>1. CacheInv => LearnedFromInit
    BY DEF CacheInv
  <1> QED BY <1>1, InitTypeInv, NextTypeInv, InitCacheInv, NextCacheInv, PTL DEF Spec

-----------------------------------------------------------------------------
(* The init that is sent agrees with the endpoint it is sent to *)

\* From the resolution on, the packet names the resolved data centre; once a
\* domain is selected it belongs to that data centre.
MatchInv ==
    \A c \in Clients :
        /\ pc[c] \in {"remember"} \cup Routed /\ conn[c].packet.proto
               => extract_dc(conn[c].packet) = conn[c].info
        /\ pc[c] \in {"clear", "bridge"} => conn[c].via.dc = conn[c].info.dc

LEMMA ResolveMatches ==
    ASSUME TypeOK, NEW h \in Hosts, NEW p \in InitPacket,
           resolve_telegram_init(h, p).packet.proto
    PROVE  extract_dc(resolve_telegram_init(h, p).packet)
               = resolve_telegram_init(h, p).info
  <1>1. CASE extract_dc(p) # NoEntry \/ known_entry(h) = NoEntry
    BY <1>1 DEF resolve_telegram_init
  <1>2. CASE ~(extract_dc(p) # NoEntry \/ known_entry(h) = NoEntry)
    <2>1. known_entry(h) \in TelegramIpEntry
      BY <1>2, KnownType DEF TelegramInitInfo
    <2>2. /\ resolve_telegram_init(h, p).packet = patch_init_dc(p, signed_dc(known_entry(h)))
          /\ resolve_telegram_init(h, p).info = known_entry(h)
      BY <1>2 DEF resolve_telegram_init
    <2> QED BY <2>1, <2>2, PatchedInit
  <1> QED BY <1>1, <1>2

LEMMA InitMatchInv == Init => MatchInv
  BY DEF Init, MatchInv, Routed

LEMMA NextMatchInv == TypeInv /\ MatchInv /\ [Next]_vars => MatchInv'
  <1> SUFFICES ASSUME TypeInv, MatchInv, [Next]_vars PROVE MatchInv'
    OBVIOUS
  <1> DEFINE M(c) ==
        /\ pc[c] \in {"remember"} \cup Routed /\ conn[c].packet.proto
               => extract_dc(conn[c].packet) = conn[c].info
        /\ pc[c] \in {"clear", "bridge"} => conn[c].via.dc = conn[c].info.dc
  <1>1. CASE UNCHANGED vars
    BY <1>1 DEF vars, MatchInv
  <1>2. CASE Tick
    BY <1>2 DEF Tick, MatchInv
  <1>3. ASSUME NEW c \in Clients, Step(c), M(c)' PROVE MatchInv'
    <2>1. \A d \in Clients \ {c} : pc'[d] = pc[d] /\ conn'[d] = conn[d]
      BY <1>3, Locality DEF TypeInv
    <2> QED BY <1>3, <2>1 DEF MatchInv
  <1>4. ASSUME NEW c \in Clients, Step(c) PROVE M(c)'
    <2> USE DEF TypeInv
    <2>1. CASE pc'[c] \notin {"remember"} \cup Routed
      BY <2>1 DEF Routed
    <2>2. CASE ResolveInit(c)
      <3>1. conn[c].target \in Hosts /\ conn[c].packet \in InitPacket
        BY <2>2 DEF ResolveInit, TypeOK, TargetKnown, Conn
      <3> DEFINE r == resolve_telegram_init(conn[c].target, conn[c].packet)
      <3>2. conn'[c].packet = r.packet /\ conn'[c].info = r.info /\ pc'[c] = "remember"
        BY <2>2 DEF ResolveInit, Goto, TypeOK, Conn
      <3>3. r.packet.proto => extract_dc(r.packet) = r.info
        BY <3>1, ResolveMatches
      <3> QED BY <3>2, <3>3
    <2>3. CASE ConnectOk(c)
      <3>1. pc[c] = "connect" /\ pc[c] \in Routed
        BY <2>3 DEF ConnectOk, Routed
      <3>2. domains(c)[1].dc = conn[c].info.dc /\ domains(c)[2].dc = conn[c].info.dc
        BY <3>1, DomainsType
      <3>3. Len(conn[c].answers) + 1 \in {1, 2}
        BY <3>1, LoopPosition
      <3>4. domains(c)[Len(conn[c].answers) + 1].dc = conn[c].info.dc
        BY <3>2, <3>3
      <3>5. /\ conn'[c].packet = conn[c].packet /\ conn'[c].info = conn[c].info
            /\ conn'[c].via = domains(c)[Len(conn[c].answers) + 1]
        BY <2>3 DEF ConnectOk, TypeOK, Conn
      <3> QED BY <3>1, <3>4, <3>5 DEF MatchInv
    <2>4. CASE \/ RememberIpv6(c) \/ StampNow(c) \/ BeginProbe(c) \/ ClearProbe(c)
               \/ \E answer \in {"404", "error"} : ConnectFails(c, answer)
      <3>1. CASE Return(c)
        BY <2>1, <3>1, ReturnEffect DEF Routed
      <3>2. CASE ~Return(c)
        <4>1. /\ conn'[c].packet = conn[c].packet /\ conn'[c].info = conn[c].info
              /\ conn'[c].via = conn[c].via
          BY <2>4, <3>2 DEF RememberIpv6, StampNow, BeginProbe, ClearProbe, ConnectFails,
                            TypeOK, Conn
        <4>2. /\ pc[c] \in {"remember"} \cup Routed
              /\ pc'[c] \in {"clear", "bridge"} => pc[c] \in {"clear", "bridge"}
          BY <2>4, <3>2 DEF RememberIpv6, StampNow, BeginProbe, ClearProbe, ConnectFails,
                            TypeOK, Goto, Routed
        <4> QED BY <4>1, <4>2 DEF MatchInv
      <3> QED BY <3>1, <3>2
    <2>5. CASE \/ Accept(c) \/ SocksFails(c) \/ \E h \in Hosts : SocksConnect(c, h)
               \/ ReadInitFails(c) \/ \E p \in Packets : ReadInit(c, p)
               \/ RecordOutcome(c) \/ RelayEnds(c)
      <3>1. pc'[c] \in {"free", "socks", "read_init", "passthrough", "resolve"}
        BY <2>5, GotoEffect DEF Accept, SocksFails, SocksConnect, ReadInit, ReadInitFails,
                            RecordOutcome, RelayEnds, Return
      <3> QED BY <2>1, <3>1 DEF Routed
    <2> QED BY <1>4, <2>2, <2>3, <2>4, <2>5 DEF Step, InitArrives, UpstreamAnswers, TaskStep
  <1> QED BY <1>1, <1>2, <1>3, <1>4 DEF Next

\* The init a relay sends names the data centre and media flag by which its
\* WebSocket endpoint was chosen.
THEOREM RouteCorrect == Spec => []RouteMatchesInit
  <1>1. MatchInv => RouteMatchesInit
    BY DEF MatchInv, RouteMatchesInit, Routed
  <1> QED BY <1>1, InitTypeInv, NextTypeInv, InitMatchInv, NextMatchInv, PTL DEF Spec

-----------------------------------------------------------------------------
(* The backoff table *)

\* The Instant a task carries is never in the future.
StampInv == \A c \in Clients : conn[c].stamp <= clock

LEMMA InitStampInv == Init => StampInv
  BY DEF Init, StampInv, NoConn

LEMMA NextStampInv == TypeInv /\ StampInv /\ [Next]_vars => StampInv'
  <1> SUFFICES ASSUME TypeInv, StampInv, [Next]_vars PROVE StampInv'
    OBVIOUS
  <1> USE DEF TypeInv
  <1>1. CASE UNCHANGED vars
    BY <1>1 DEF vars, StampInv
  <1>2. CASE Tick
    <2>1. \A c \in Clients : conn[c].stamp \in Nat
      BY DEF TypeOK, Conn
    <2> QED BY <1>2, <2>1 DEF Tick, StampInv, TypeOK
  <1>3. ASSUME NEW c \in Clients, Step(c) PROVE StampInv'
    <2>1. \A d \in Clients \ {c} : conn'[d] = conn[d]
      BY <1>3, Locality
    <2>2. clock' = clock /\ clock \in Nat
      BY <1>3 DEF TypeOK, Step, InitArrives, UpstreamAnswers, TaskStep, Accept, SocksFails,
                  SocksConnect, ReadInit, ReadInitFails, ResolveInit, RememberIpv6, StampNow,
                  BeginProbe, ConnectOk, ConnectFails, ClearProbe, RecordOutcome, RelayEnds
    <2>3. conn'[c].stamp \in {conn[c].stamp, clock, 0}
      <3>1. CASE Return(c)
        BY <3>1, ReturnEffect DEF NoConn
      <3>2. CASE UNCHANGED conn
        BY <3>2
      <3>3. CASE StampNow(c)
        BY <3>3 DEF StampNow, TypeOK, Conn
      <3>4. CASE \/ \E h \in Hosts : SocksConnect(c, h)
                 \/ \E p \in Packets : ReadInit(c, p)
                 \/ ConnectOk(c)
        BY <3>4 DEF SocksConnect, ReadInit, ConnectOk, TypeOK, Conn
      <3>5. CASE ResolveInit(c)
        BY <3>5 DEF ResolveInit, TypeOK, Conn
      <3>6. CASE \E answer \in {"404", "error"} : ConnectFails(c, answer)
        BY <3>6 DEF ConnectFails, TypeOK, Conn
      <3> QED BY <1>3, <3>1, <3>2, <3>3, <3>4, <3>5, <3>6
              DEF Step, InitArrives, UpstreamAnswers, TaskStep, Accept, SocksFails,
                  ReadInitFails, RememberIpv6, BeginProbe, ClearProbe, RecordOutcome, RelayEnds
    <2> QED BY <2>1, <2>2, <2>3 DEF StampInv
  <1> QED BY <1>1, <1>2, <1>3 DEF Next

\* begin_probe keeps what has not expired and everything HTTP 404 disabled.
LEMMA BeginProbeKeeps ==
    ASSUME NEW st \in [WsKey -> WsState], NEW key, NEW k \in WsKey, NEW now \in Nat,
           st[k] = Disabled404 \/ (Timed(st[k]) /\ st[k].until > now)
    PROVE  begin_probe(st, key, now)[k] = st[k] /\ retain(st, now)[k] = st[k]
  <1>1. retain(st, now) \in [WsKey -> WsState]
    BY DEF retain, WsState
  <1>2. retain(st, now)[k] = st[k]
    BY DEF retain, Timed, Disabled404
  <1>3. st[k] # Absent
    BY DEF Timed, Absent, Disabled404
  <1> QED BY <1>1, <1>2, <1>3 DEF begin_probe

\* A step that changes the state of a route is begin_probe or an outcome.
LEMMA TableStep ==
    ASSUME TypeInv, NEW c \in Clients, Step(c), NEW k \in WsKey, states'[k] # states[k]
    PROVE  \/ BeginProbe(c)
           \/ /\ Records(c, k)
              /\ ClearProbe(c) \/ RecordOutcome(c)
  <1> USE DEF TypeInv
  <1>1. BeginProbe(c) \/ ClearProbe(c) \/ RecordOutcome(c)
    BY DEF Step, InitArrives, UpstreamAnswers, TaskStep, Accept, SocksFails, SocksConnect,
           ReadInit, ReadInitFails, ResolveInit, RememberIpv6, StampNow, ConnectOk,
           ConnectFails, RelayEnds
  <1>2. ASSUME ClearProbe(c) PROVE Records(c, k)
    <2>1. ws_key(c) = k
      BY <1>2 DEF ClearProbe, clear, TypeOK
    <2>2. pc[c] = "clear" /\ pc'[c] = "bridge"
      BY <1>2, GotoEffect DEF ClearProbe
    <2> QED BY <2>1, <2>2 DEF Records
  <1>3. ASSUME RecordOutcome(c) PROVE Records(c, k)
    <2>1. ws_key(c) = k
      BY <1>3 DEF RecordOutcome, record_failure, disable_404, TypeOK
    <2>2. pc[c] = "fail" /\ pc'[c] = "free"
      BY <1>3, ReturnEffect DEF RecordOutcome
    <2> QED BY <2>1, <2>2 DEF Records
  <1> QED BY <1>1, <1>2, <1>3

\* An unexpired probe or cooldown is replaced only by the outcome of an attempt
\* on its own route; the sweep of other tasks never drops it early.
THEOREM BackoffIsKept == Spec => BackoffKept
  <1> DEFINE A == \A k \in WsKey :
          Timed(states[k]) /\ states[k].until > clock /\ states'[k] # states[k]
              => \E c \in Clients : Records(c, k)
  <1>1. ASSUME TypeInv, StampInv, [Next]_vars PROVE A
    <2> SUFFICES ASSUME NEW k \in WsKey, Timed(states[k]), states[k].until > clock,
                        states'[k] # states[k]
                 PROVE  \E c \in Clients : Records(c, k)
      OBVIOUS
    <2>1. PICK c \in Clients : Step(c)
      BY <1>1 DEF Next, Tick, vars
    <2>2. ~BeginProbe(c)
      <3> SUFFICES ASSUME BeginProbe(c) PROVE FALSE
        OBVIOUS
      <3>1. conn[c].stamp \in Nat /\ clock \in Nat /\ conn[c].stamp <= clock
        BY <1>1 DEF TypeInv, TypeOK, Conn, StampInv
      <3>2. states[k].until \in Nat
        BY <1>1 DEF TypeInv, TypeOK, WsState, Absent, Disabled404
      <3>3. states[k].until > conn[c].stamp
        BY <3>1, <3>2
      <3> QED BY <1>1, <3>1, <3>3, BeginProbeKeeps DEF BeginProbe, TypeInv, TypeOK
    <2> QED BY <1>1, <2>1, <2>2, TableStep
  <1>2. A => [A]_vars
    OBVIOUS
  <1> HIDE DEF A
  <1>3. []TypeInv /\ []StampInv /\ [][Next]_vars => [][A]_vars
    BY <1>1, PTL
  <1>4. Spec => [][A]_vars
    BY <1>3, InitTypeInv, NextTypeInv, InitStampInv, NextStampInv, PTL DEF Spec
  <1> QED BY <1>4 DEF A, BackoffKept

-----------------------------------------------------------------------------
(* Probes *)

\* A task that was told ProbeNow is still attempting that route, and while its
\* window lasts the table shows its probe and no other.
ProbeInv ==
    \A k \in WsKey : \A d \in probers[k] :
        /\ InFlight(d, k)
        /\ conn[d].stamp + WS_ATTEMPT_WINDOW > clock =>
               states[k] = Probing(conn[d].stamp + WS_ATTEMPT_WINDOW)

LEMMA InitProbeInv == Init => ProbeInv
  BY DEF Init, ProbeInv

\* ProbeNow is the answer only when retain has left no state for the route.
LEMMA ProbeNowMeansAbsent ==
    ASSUME NEW st \in [WsKey -> WsState], NEW k \in WsKey, NEW now \in Nat,
           WsDecision(st, k, now) = "ProbeNow"
    PROVE  /\ retain(st, now)[k] = Absent
           /\ begin_probe(st, k, now)[k] = Probing(now + WS_ATTEMPT_WINDOW)
  <1>1. retain(st, now) \in [WsKey -> WsState]
    BY DEF retain, WsState
  <1>2. retain(st, now)[k].kind \in {"absent", "disabled404", "probing", "cooldown"}
    BY <1>1 DEF WsState, Absent, Disabled404
  <1>3. retain(st, now)[k].kind = "absent"
    BY <1>2 DEF WsDecision
  <1>4. retain(st, now)[k] = Absent
    BY <1>1, <1>3 DEF WsState, Disabled404
  <1> QED BY <1>1, <1>4 DEF begin_probe

\* No other task is told ProbeNow for a route within the window of a probe that
\* has not recorded its outcome.
LEMMA ProbeWindow ==
    ASSUME TypeInv, StampInv, ProbeInv, NEW c \in Clients, NEW k \in WsKey,
           WsDecision(states, k, conn[c].stamp) = "ProbeNow",
           NEW d \in probers[k]
    PROVE  conn[d].stamp + WS_ATTEMPT_WINDOW <= clock
  <1>1. /\ conn[c].stamp \in Nat /\ clock \in Nat /\ conn[c].stamp <= clock
        /\ d \in Clients /\ conn[d].stamp \in Nat /\ WS_ATTEMPT_WINDOW \in Nat
    BY DurationsAssumption DEF TypeInv, TypeOK, Conn, StampInv
  <1> SUFFICES ASSUME conn[d].stamp + WS_ATTEMPT_WINDOW > clock PROVE FALSE
    BY <1>1
  <1>2. states[k] = Probing(conn[d].stamp + WS_ATTEMPT_WINDOW)
    BY DEF ProbeInv
  <1>3. Timed(states[k]) /\ states[k].until > conn[c].stamp
    BY <1>1, <1>2 DEF Timed, Probing
  <1>4. retain(states, conn[c].stamp)[k] = states[k]
    BY <1>1, <1>3, BeginProbeKeeps DEF TypeInv, TypeOK
  <1>5. retain(states, conn[c].stamp)[k] = Absent
    BY <1>1, ProbeNowMeansAbsent DEF TypeInv, TypeOK
  <1> QED BY <1>2, <1>4, <1>5 DEF Probing, Absent

LEMMA RoutedKey ==
    ASSUME TypeInv, NEW c \in Clients, pc[c] \in Routed
    PROVE  ws_key(c) \in WsKey
  BY DEF TypeInv, DcKnown, ws_key, WsKey, TelegramIpEntry, Dc

LEMMA NextProbeInv == TypeInv /\ StampInv /\ ProbeInv /\ [Next]_vars => ProbeInv'
  <1> SUFFICES ASSUME TypeInv, StampInv, ProbeInv, [Next]_vars PROVE ProbeInv'
    OBVIOUS
  <1> USE DEF TypeInv
  <1>0. \A k \in WsKey : probers[k] \subseteq Clients
    BY DEF TypeOK
  <1>1. CASE UNCHANGED vars
    BY <1>1 DEF vars, ProbeInv, InFlight, ws_key
  <1>2. CASE Tick
    <2>1. \A d \in Clients : conn[d].stamp + WS_ATTEMPT_WINDOW \in Nat
      BY DurationsAssumption DEF TypeOK, Conn
    <2> QED BY <1>0, <1>2, <2>1 DEF Tick, ProbeInv, InFlight, ws_key, TypeOK
  <1>3. ASSUME NEW c \in Clients, Step(c) PROVE ProbeInv'
    <2>1. \A d \in Clients \ {c} : pc'[d] = pc[d] /\ conn'[d] = conn[d]
      BY <1>3, Locality
    <2>2. clock' = clock /\ clock \in Nat
      BY <1>3 DEF TypeOK, Step, InitArrives, UpstreamAnswers, TaskStep, Accept, SocksFails,
                  SocksConnect, ReadInit, ReadInitFails, ResolveInit, RememberIpv6, StampNow,
                  BeginProbe, ConnectOk, ConnectFails, ClearProbe, RecordOutcome, RelayEnds
    <2>3. \A k \in WsKey : pc[c] \notin {"connect", "clear", "fail"} => c \notin probers[k]
      BY DEF ProbeInv, InFlight
    <2>4. CASE BeginProbe(c)
      <3>1. pc[c] = "begin" /\ ws_key(c) \in WsKey
        BY <2>4, RoutedKey DEF BeginProbe, Routed
      <3>2. /\ states' = begin_probe(states, ws_key(c), conn[c].stamp)
            /\ conn[c].stamp \in Nat /\ conn[c].stamp <= clock
        BY <2>4 DEF BeginProbe, TypeOK, Conn, StampInv
      <3>3. \A k \in WsKey : \A d \in probers[k] :
                /\ InFlight(d, k)'
                /\ conn'[d].stamp + WS_ATTEMPT_WINDOW > clock' =>
                       states'[k] = Probing(conn'[d].stamp + WS_ATTEMPT_WINDOW)
        <4> TAKE k \in WsKey
        <4> TAKE d \in probers[k]
        <4>1. d \in Clients /\ d # c
          BY <1>0, <2>3, <3>1
        <4>2. InFlight(d, k) /\ InFlight(d, k)'
          BY <2>1, <4>1 DEF ProbeInv, InFlight, ws_key
        <4> SUFFICES ASSUME conn[d].stamp + WS_ATTEMPT_WINDOW > clock
                     PROVE  states'[k] = Probing(conn[d].stamp + WS_ATTEMPT_WINDOW)
          BY <2>1, <2>2, <4>1, <4>2
        <4>3. states[k] = Probing(conn[d].stamp + WS_ATTEMPT_WINDOW)
          BY DEF ProbeInv
        <4>4. conn[d].stamp + WS_ATTEMPT_WINDOW \in Nat
          BY <4>1, DurationsAssumption DEF TypeOK, Conn
        <4>5. Timed(states[k]) /\ states[k].until > conn[c].stamp
          BY <2>2, <3>2, <4>3, <4>4 DEF Timed, Probing
        <4> QED BY <3>2, <4>3, <4>5, BeginProbeKeeps DEF TypeOK
      <3>4. CASE probers' = probers
        BY <3>3, <3>4 DEF ProbeInv
      <3>5. CASE /\ WsDecision(states, ws_key(c), conn[c].stamp) = "ProbeNow"
                 /\ probers' = [probers EXCEPT ![ws_key(c)] = @ \cup {c}]
        <4>1. pc'[c] = "connect" /\ conn' = conn
          BY <2>4, <3>5, GotoEffect DEF BeginProbe
        <4>2. ASSUME NEW k, k = ws_key(c) PROVE InFlight(c, k)'
          BY <4>1, <4>2 DEF InFlight, ws_key
        <4>3. states'[ws_key(c)] = Probing(conn[c].stamp + WS_ATTEMPT_WINDOW)
          BY <3>1, <3>2, <3>5, ProbeNowMeansAbsent DEF TypeOK
        <4>4. \A k \in WsKey : \A d \in probers'[k] :
                  d \in probers[k] \/ (k = ws_key(c) /\ d = c)
          BY <3>1, <3>5 DEF TypeOK
        <4>5. ASSUME NEW k \in WsKey, NEW d \in probers'[k]
              PROVE  /\ InFlight(d, k)'
                     /\ conn'[d].stamp + WS_ATTEMPT_WINDOW > clock' =>
                            states'[k] = Probing(conn'[d].stamp + WS_ATTEMPT_WINDOW)
          <5>1. CASE d \in probers[k]
            BY <3>3, <5>1
          <5>2. CASE k = ws_key(c) /\ d = c
            BY <4>1, <4>2, <4>3, <5>2
          <5> QED BY <4>4, <5>1, <5>2
        <4> QED BY <4>5 DEF ProbeInv
      <3> QED BY <2>4, <3>4, <3>5 DEF BeginProbe
    <2>5. CASE ClearProbe(c) \/ RecordOutcome(c)
      <3>1. ws_key(c) \in WsKey
        BY <2>5, RoutedKey DEF ClearProbe, RecordOutcome, Routed
      <3>2. /\ probers' = [probers EXCEPT ![ws_key(c)] = {}]
            /\ \A k \in WsKey \ {ws_key(c)} : states'[k] = states[k]
        BY <2>5, <3>1 DEF ClearProbe, RecordOutcome, clear, disable_404, record_failure, TypeOK
      <3>3. \A k \in WsKey : \A d \in probers'[k] : d \in probers[k] /\ k # ws_key(c)
        BY <3>1, <3>2 DEF TypeOK
      <3>4. \A k \in WsKey : \A d \in probers'[k] : d \in Clients \ {c}
        BY <1>0, <3>3 DEF ProbeInv, InFlight
      <3> QED BY <2>1, <2>2, <3>2, <3>3, <3>4 DEF ProbeInv, InFlight, ws_key
    <2>6. CASE states' = states /\ probers' = probers
      <3>1. \A k \in WsKey : c \in probers[k] =>
                /\ pc'[c] \in {"connect", "clear", "fail"}
                /\ conn'[c].info = conn[c].info /\ conn'[c].stamp = conn[c].stamp
        <4>1. CASE pc[c] \notin {"connect", "clear", "fail"}
          BY <2>3, <4>1
        <4>2. CASE ConnectOk(c)
          BY <4>2, GotoEffect DEF ConnectOk, TypeOK, Conn
        <4>3. CASE \E answer \in {"404", "error"} : ConnectFails(c, answer)
          <5>1. conn'[c].info = conn[c].info /\ conn'[c].stamp = conn[c].stamp
            BY <4>3 DEF ConnectFails, TypeOK, Conn
          <5>2. pc'[c] \in {"connect", "fail"}
            BY <4>3, GotoEffect DEF ConnectFails
          <5> QED BY <5>1, <5>2
        <4>4. CASE ClearProbe(c) \/ RecordOutcome(c)
          <5>1. ws_key(c) \in WsKey
            BY <4>4, RoutedKey DEF ClearProbe, RecordOutcome, Routed
          <5>2. probers[ws_key(c)] = {}
            BY <2>6, <4>4, <5>1 DEF ClearProbe, RecordOutcome, TypeOK
          <5> QED BY <5>2 DEF ProbeInv, InFlight
        <4> QED BY <1>3, <4>1, <4>2, <4>3, <4>4
            DEF Step, InitArrives, UpstreamAnswers, TaskStep, Accept, SocksFails, SocksConnect,
                ReadInit, ReadInitFails, ResolveInit, RememberIpv6, StampNow, BeginProbe,
                RelayEnds
      <3> QED BY <1>0, <2>1, <2>2, <2>6, <3>1 DEF ProbeInv, InFlight, ws_key
    <2> QED BY <1>3, <2>4, <2>5, <2>6
        DEF Step, InitArrives, UpstreamAnswers, TaskStep, Accept, SocksFails, SocksConnect,
            ReadInit, ReadInitFails, ResolveInit, RememberIpv6, StampNow, ConnectOk,
            ConnectFails, RelayEnds
  <1> QED BY <1>1, <1>2, <1>3 DEF Next

\* Within WS_ATTEMPT_WINDOW of a probe that has not ended, begin_probe tells no
\* other task to probe the same route.
THEOREM ProbesAreSpaced == Spec => OneProbePerWindow
  <1> DEFINE A == \A k \in WsKey :
                    \A c \in probers'[k] \ probers[k], d \in probers[k] :
                        conn[d].stamp + WS_ATTEMPT_WINDOW <= clock
  <1>1. ASSUME TypeInv, StampInv, ProbeInv, [Next]_vars PROVE A
    <2> SUFFICES ASSUME NEW k \in WsKey, NEW c \in probers'[k] \ probers[k],
                        NEW d \in probers[k]
                 PROVE  conn[d].stamp + WS_ATTEMPT_WINDOW <= clock
      OBVIOUS
    <2>1. PICK e \in Clients : Step(e)
      BY <1>1 DEF Next, Tick, vars
    <2>2. BeginProbe(e)
      BY <1>1, <2>1
         DEF Step, InitArrives, UpstreamAnswers, TaskStep, Accept, SocksFails, SocksConnect,
             ReadInit, ReadInitFails, ResolveInit, RememberIpv6, StampNow, ConnectOk,
             ConnectFails, ClearProbe, RecordOutcome, RelayEnds, TypeInv, TypeOK
    <2>3. /\ WsDecision(states, ws_key(e), conn[e].stamp) = "ProbeNow"
          /\ k = ws_key(e)
      BY <1>1, <2>2 DEF BeginProbe, TypeInv, TypeOK
    <2> QED BY <1>1, <2>3, ProbeWindow
  <1>2. []TypeInv /\ []StampInv /\ []ProbeInv /\ [][Next]_vars => [][A]_vars
    <2> HIDE DEF A
    <2> QED BY <1>1, PTL
  <1>3. Spec => [][A]_vars
    <2> HIDE DEF A
    <2> QED BY <1>2, InitTypeInv, NextTypeInv, InitStampInv, NextStampInv,
               InitProbeInv, NextProbeInv, PTL DEF Spec
  <1> QED BY <1>3 DEF OneProbePerWindow

-----------------------------------------------------------------------------
(* Routes that HTTP 404 has disabled *)

LEMMA DisabledDecision ==
    ASSUME NEW st \in [WsKey -> WsState], NEW k \in WsKey, NEW now \in Nat,
           st[k] = Disabled404
    PROVE  WsDecision(st, k, now) = "Disabled404"
  <1>1. retain(st, now)[k] = Disabled404
    BY BeginProbeKeeps
  <1>2. retain(st, now)[k].kind = "disabled404"
    BY <1>1 DEF Disabled404
  <1> QED BY <1>2 DEF WsDecision

\* A disabled route with no attempt under way stays disabled: begin_probe turns
\* every later connection away and no sweep forgets the state.
THEOREM DisabledForGood == Spec => QuietStaysDisabled
  <1> DEFINE A == \A k \in WsKey : Quiet(k) => Quiet(k)'
  <1>1. ASSUME TypeInv, [Next]_vars PROVE A
    <2> USE DEF TypeInv
    <2> SUFFICES ASSUME NEW k \in WsKey, Quiet(k) PROVE Quiet(k)'
      OBVIOUS
    <2>1. CASE UNCHANGED vars
      BY <2>1 DEF vars, Quiet, InFlight, ws_key
    <2>2. CASE Tick
      BY <2>2 DEF Tick, Quiet, InFlight, ws_key
    <2>3. ASSUME NEW c \in Clients, Step(c) PROVE Quiet(k)'
      <3>1. \A d \in Clients \ {c} : pc'[d] = pc[d] /\ conn'[d] = conn[d]
        BY <1>1, <2>3, Locality
      <3>2. ~InFlight(c, k) /\ states[k] = Disabled404
        BY DEF Quiet
      <3>3. states'[k] = Disabled404
        <4> SUFFICES ASSUME states'[k] # states[k] PROVE FALSE
          BY <3>2
        <4>1. conn[c].stamp \in Nat
          BY <1>1 DEF TypeOK, Conn
        <4>2. CASE BeginProbe(c)
          BY <1>1, <3>2, <4>1, <4>2, BeginProbeKeeps DEF BeginProbe, TypeOK
        <4>3. CASE Records(c, k)
          BY <3>2, <4>3 DEF Records, InFlight
        <4> QED BY <1>1, <2>3, <4>2, <4>3, TableStep
      <3>4. ~InFlight(c, k)'
        <4>1. CASE BeginProbe(c)
          <5>1. pc[c] = "begin" /\ conn[c].stamp \in Nat
            BY <1>1, <4>1 DEF BeginProbe, TypeOK, Conn
          <5>2. CASE ws_key(c) = k
            <6>1. WsDecision(states, ws_key(c), conn[c].stamp) = "Disabled404"
              BY <1>1, <3>2, <5>1, <5>2, DisabledDecision DEF TypeOK
            <6>2. Return(c)
              BY <4>1, <6>1 DEF BeginProbe
            <6> QED BY <1>1, <6>2, ReturnEffect DEF InFlight
          <5>3. CASE ws_key(c) # k
            <6>1. pc'[c] = "free" \/ conn' = conn
              BY <1>1, <4>1, ReturnEffect DEF BeginProbe
            <6> QED BY <5>3, <6>1 DEF InFlight, ws_key
          <5> QED BY <5>2, <5>3
        <4>2. CASE ConnectOk(c)
          BY <1>1, <3>2, <4>2 DEF ConnectOk, InFlight, ws_key, TypeOK, Conn
        <4>3. CASE \E answer \in {"404", "error"} : ConnectFails(c, answer)
          BY <1>1, <3>2, <4>3 DEF ConnectFails, InFlight, ws_key, TypeOK, Conn
        <4>4. ASSUME ~BeginProbe(c), ~ConnectOk(c),
                     ~\E answer \in {"404", "error"} : ConnectFails(c, answer)
              PROVE  pc'[c] \notin {"connect", "clear", "fail"}
          <5>1. \/ \E l \in Labels \ {"connect", "clear", "fail"} : Goto(c, l)
                \/ Return(c)
            BY <2>3, <4>4 DEF Step, InitArrives, UpstreamAnswers, TaskStep, Accept, SocksFails,
                    SocksConnect, ReadInit, ReadInitFails, ResolveInit, RememberIpv6, StampNow,
                    ClearProbe, RecordOutcome, RelayEnds, Labels
          <5> QED BY <1>1, <5>1, GotoEffect, ReturnEffect
        <4> QED BY <4>1, <4>2, <4>3, <4>4 DEF InFlight
      <3> QED BY <3>1, <3>3, <3>4 DEF Quiet, InFlight, ws_key
    <2> QED BY <1>1, <2>1, <2>2, <2>3 DEF Next
  <1>2. []TypeInv /\ [][Next]_vars => [][A]_vars
    <2> HIDE DEF A
    <2> QED BY <1>1, PTL
  <1>3. Spec => [][A]_vars
    <2> HIDE DEF A
    <2> QED BY <1>2, InitTypeInv, NextTypeInv, PTL DEF Spec
  <1> QED BY <1>3 DEF QuietStaysDisabled

-----------------------------------------------------------------------------
(* all_404 *)

\* all_404 is set only while every domain tried so far has answered 404, and the
\* loop is left without a client only after the last domain.
AnswersInv ==
    \A c \in Clients :
        /\ conn[c].all404 => \A i \in DOMAIN conn[c].answers : conn[c].answers[i] = "404"
        /\ pc[c] = "fail" => Len(conn[c].answers) = Len(domains(c))

LEMMA InitAnswersInv == Init => AnswersInv
  BY DEF Init, AnswersInv, NoConn

LEMMA AppendElements ==
    ASSUME NEW S, NEW q \in Seq(S), NEW e \in S, NEW i \in DOMAIN Append(q, e)
    PROVE  Append(q, e)[i] = e \/ (i \in DOMAIN q /\ Append(q, e)[i] = q[i])
  OBVIOUS

LEMMA NextAnswersInv == TypeInv /\ AnswersInv /\ [Next]_vars => AnswersInv'
  <1> SUFFICES ASSUME TypeInv, AnswersInv, [Next]_vars PROVE AnswersInv'
    OBVIOUS
  <1> USE DEF TypeInv
  <1>1. CASE UNCHANGED vars
    BY <1>1 DEF vars, AnswersInv, domains
  <1>2. CASE Tick
    BY <1>2 DEF Tick, AnswersInv, domains
  <1>3. ASSUME NEW c \in Clients, Step(c) PROVE AnswersInv'
    <2>1. \A d \in Clients \ {c} : pc'[d] = pc[d] /\ conn'[d] = conn[d]
      BY <1>3, Locality
    <2>2. /\ conn'[c].all404 => \A i \in DOMAIN conn'[c].answers : conn'[c].answers[i] = "404"
          /\ pc'[c] = "fail" => Len(conn'[c].answers) = Len(domains(c)')
      <3>1. CASE Return(c)
        BY <3>1, ReturnEffect DEF NoConn
      <3>2. CASE \E answer \in {"404", "error"} : ConnectFails(c, answer)
        <4>1. PICK answer \in {"404", "error"} : ConnectFails(c, answer)
          BY <3>2
        <4>2. conn[c].answers \in Seq({"404", "error"}) /\ conn[c].all404 \in BOOLEAN
          BY DEF TypeOK, Conn
        <4>3. /\ conn'[c].answers = Append(conn[c].answers, answer)
              /\ conn'[c].all404 = (conn[c].all404 /\ answer = "404")
              /\ domains(c)' = domains(c)
          BY <4>1 DEF ConnectFails, TypeOK, Conn, domains
        <4>4. pc'[c] = "fail" => Len(conn[c].answers) + 1 = Len(domains(c))
          <5>1. pc[c] = "connect" /\ pc[c] \in Routed
            BY <4>1 DEF ConnectFails, Routed
          <5>2. Len(domains(c)) = 2
            BY <5>1, DomainsType
          <5>3. Len(conn[c].answers) + 1 \in {1, 2}
            BY <5>1, LoopPosition
          <5>4. pc'[c] = "fail" => ~(Len(conn[c].answers) + 1 < Len(domains(c)))
            BY <4>1, <5>1 DEF ConnectFails
          <5> QED BY <5>2, <5>3, <5>4
        <4>5. Len(Append(conn[c].answers, answer)) = Len(conn[c].answers) + 1
          BY <4>2
        <4>6. ASSUME conn'[c].all404, NEW i \in DOMAIN conn'[c].answers
              PROVE  conn'[c].answers[i] = "404"
          <5>1. conn[c].all404 /\ answer = "404"
            BY <4>3, <4>6
          <5>2. i \in DOMAIN Append(conn[c].answers, answer)
            BY <4>3
          <5>3. \/ Append(conn[c].answers, answer)[i] = answer
                \/ /\ i \in DOMAIN conn[c].answers
                   /\ Append(conn[c].answers, answer)[i] = conn[c].answers[i]
            BY <4>2, <5>2, AppendElements
          <5>4. \A j \in DOMAIN conn[c].answers : conn[c].answers[j] = "404"
            BY <5>1 DEF AnswersInv
          <5> QED BY <4>3, <5>1, <5>3, <5>4
        <4> QED BY <4>3, <4>4, <4>5, <4>6
      <3>3. CASE ~Return(c) /\ ~\E answer \in {"404", "error"} : ConnectFails(c, answer)
        <4>1. conn'[c].answers = conn[c].answers /\ conn'[c].all404 = conn[c].all404
          <5>1. CASE UNCHANGED conn
            BY <5>1
          <5>2. CASE \E h \in Hosts : SocksConnect(c, h)
            BY <5>2 DEF SocksConnect, TypeOK, Conn
          <5>3. CASE \E p \in Packets : ReadInit(c, p)
            BY <5>3 DEF ReadInit, TypeOK, Conn
          <5>4. CASE ResolveInit(c)
            BY <5>4 DEF ResolveInit, TypeOK, Conn
          <5>5. CASE StampNow(c) \/ ConnectOk(c)
            BY <5>5 DEF StampNow, ConnectOk, TypeOK, Conn
          <5> QED BY <1>3, <3>3, <5>1, <5>2, <5>3, <5>4, <5>5
              DEF Step, InitArrives, UpstreamAnswers, TaskStep, Accept, SocksFails,
                  ReadInitFails, RememberIpv6, BeginProbe, ClearProbe, RecordOutcome, RelayEnds
        <4>2. pc'[c] # "fail"
          <5>1. \E l \in Labels \ {"fail"} : Goto(c, l)
            BY <1>3, <3>3 DEF Step, InitArrives, UpstreamAnswers, TaskStep, Accept, SocksFails,
                  SocksConnect, ReadInit, ReadInitFails, ResolveInit, RememberIpv6, StampNow,
                  BeginProbe, ConnectOk, ClearProbe, RecordOutcome, RelayEnds, Labels
          <5> QED BY <5>1, GotoEffect
        <4> QED BY <4>1, <4>2 DEF AnswersInv
      <3> QED BY <3>1, <3>2, <3>3
    <2> QED BY <2>1, <2>2 DEF AnswersInv, domains
  <1> QED BY <1>1, <1>2, <1>3 DEF Next

\* A route is disabled only by a task whose every domain answered 404.
THEOREM DisabledMeans404 == Spec => DisabledOnlyAfterAll404
  <1> DEFINE A == \A k \in WsKey :
          states[k] # Disabled404 /\ states'[k] = Disabled404 =>
              \E c \in Clients : /\ Records(c, k)
                                 /\ Len(conn[c].answers) = Len(domains(c))
                                 /\ \A i \in DOMAIN conn[c].answers :
                                        conn[c].answers[i] = "404"
  <1>1. ASSUME TypeInv, AnswersInv, [Next]_vars PROVE A
    <2> SUFFICES ASSUME NEW k \in WsKey, states[k] # Disabled404, states'[k] = Disabled404
                 PROVE  \E c \in Clients : /\ Records(c, k)
                                           /\ Len(conn[c].answers) = Len(domains(c))
                                           /\ \A i \in DOMAIN conn[c].answers :
                                                  conn[c].answers[i] = "404"
      OBVIOUS
    <2>1. PICK c \in Clients : Step(c)
      BY <1>1 DEF Next, Tick, vars
    <2>2. ~BeginProbe(c)
      <3> SUFFICES ASSUME BeginProbe(c) PROVE FALSE
        OBVIOUS
      <3>1. retain(states, conn[c].stamp)[k] \in {states[k], Absent}
        BY <1>1 DEF retain
      <3>2. states'[k] \in {states[k], Absent, Probing(conn[c].stamp + WS_ATTEMPT_WINDOW)}
        BY <1>1, <3>1 DEF BeginProbe, begin_probe, retain
      <3> QED BY <3>2 DEF Absent, Probing, Disabled404
    <2>3. Records(c, k) /\ (ClearProbe(c) \/ RecordOutcome(c))
      BY <1>1, <2>1, <2>2, TableStep
    <2>4. ~ClearProbe(c)
      BY <1>1, <2>3 DEF ClearProbe, clear, Records, Absent, Disabled404, TypeInv, TypeOK
    <2>5. RecordOutcome(c) /\ conn[c].all404 /\ pc[c] = "fail"
      BY <1>1, <2>3, <2>4
         DEF RecordOutcome, record_failure, Records, Cooldown, Disabled404, TypeInv, TypeOK
    <2> QED BY <1>1, <2>3, <2>5 DEF AnswersInv
  <1>2. []TypeInv /\ []AnswersInv /\ [][Next]_vars => [][A]_vars
    <2> HIDE DEF A
    <2> QED BY <1>1, PTL
  <1>3. Spec => [][A]_vars
    <2> HIDE DEF A
    <2> QED BY <1>2, InitTypeInv, NextTypeInv, InitAnswersInv, NextAnswersInv, PTL DEF Spec
  <1> QED BY <1>3 DEF DisabledOnlyAfterAll404

-----------------------------------------------------------------------------
(* Direct passthrough of an IPv6 target only before its mapping is known *)

\* Once the mapping of an IPv6 target is known and the tasks that looked it up
\* too early are gone, no connection to it goes out as plain TCP again.
THEOREM DirectOnlyFirst == Spec => FirstHitOnly
  <1> DEFINE A == \A h \in Hosts : Settled(h) => Settled(h)'
  <1>1. ASSUME TypeInv, CacheInv, [Next]_vars PROVE A
    <2> USE DEF TypeInv
    <2> SUFFICES ASSUME NEW h \in Hosts, Settled(h) PROVE Settled(h)'
      OBVIOUS
    <2>0. learned[h] # NoEntry /\ h \in Ipv6
      BY <1>1 DEF Settled, CacheInv
    <2>1. CASE UNCHANGED vars
      BY <2>1 DEF vars, Settled
    <2>2. CASE Tick
      BY <2>2 DEF Tick, Settled
    <2>3. ASSUME NEW c \in Clients, Step(c) PROVE Settled(h)'
      <3>1. \A d \in Clients \ {c} : pc'[d] = pc[d] /\ conn'[d] = conn[d]
        BY <1>1, <2>3, Locality
      <3>2. CASE ResolveInit(c)
        <4> DEFINE r == resolve_telegram_init(conn[c].target, conn[c].packet)
        <4>1. /\ conn'[c].target = conn[c].target /\ conn'[c].info = r.info
              /\ pc'[c] = "remember" /\ learned' = learned
          BY <1>1, <3>2 DEF ResolveInit, Goto, TypeOK, Conn
        <4>2. conn[c].target = h => r.info # NoEntry
          BY <2>0 DEF resolve_telegram_init, known_entry, learned_ipv6_entry
        <4> QED BY <3>1, <4>1, <4>2 DEF Settled
      <3>3. CASE RememberIpv6(c)
        <4>1. learned'[h] # NoEntry
          BY <1>1, <2>0, <3>3 DEF RememberIpv6, remember_telegram_ipv6, remember_ipv6_entry, TypeOK
        <4>2. CASE Return(c)
          BY <1>1, <3>1, <4>1, <4>2, ReturnEffect DEF Settled
        <4>3. CASE Goto(c, "stamp") /\ conn' = conn
          BY <1>1, <3>1, <4>1, <4>3, GotoEffect DEF Settled
        <4>4. CASE conn[c].info = NoEntry /\ conn' = conn
          <5>1. conn[c].target # h
            BY <3>3, <4>4 DEF RememberIpv6, Settled
          <5> QED BY <3>1, <4>1, <4>4, <5>1 DEF Settled
        <4> QED BY <3>3, <4>2, <4>3, <4>4 DEF RememberIpv6
      <3>4. ASSUME ~ResolveInit(c), ~RememberIpv6(c) PROVE Settled(h)'
        <4>1. learned' = learned
          BY <2>3, <3>4 DEF Step, InitArrives, UpstreamAnswers, TaskStep, Accept, SocksFails,
                SocksConnect, ReadInit, ReadInitFails, StampNow, BeginProbe, ConnectOk,
                ConnectFails, ClearProbe, RecordOutcome, RelayEnds
        <4>2. \/ \E l \in Labels \ {"remember", "direct"} : Goto(c, l)
              \/ Return(c) \/ (pc[c] = "connect" /\ pc' = pc)
          BY <2>3, <3>4 DEF Step, InitArrives, UpstreamAnswers, TaskStep, Accept, SocksFails,
                SocksConnect, ReadInit, ReadInitFails, StampNow, BeginProbe, ConnectOk,
                ConnectFails, ClearProbe, RecordOutcome, RelayEnds, Labels
        <4>3. pc'[c] \notin {"remember", "direct"}
          BY <1>1, <4>2, GotoEffect, ReturnEffect
        <4> QED BY <3>1, <4>1, <4>3 DEF Settled
      <3> QED BY <3>2, <3>3, <3>4
    <2> QED BY <1>1, <2>1, <2>2, <2>3 DEF Next
  <1>2. []TypeInv /\ []CacheInv /\ [][Next]_vars => [][A]_vars
    <2> HIDE DEF A
    <2> QED BY <1>1, PTL
  <1>3. Spec => [][A]_vars
    <2> HIDE DEF A
    <2> QED BY <1>2, InitTypeInv, NextTypeInv, InitCacheInv, NextCacheInv, PTL DEF Spec
  <1> QED BY <1>3 DEF FirstHitOnly

=============================================================================
