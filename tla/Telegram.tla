------------------------------ MODULE Telegram ------------------------------
(***************************************************************************)
(* The Telegram-specific tables and the MTProto init packet                *)
(* (modules/telegram/catalog.rs and modules/telegram/init.rs).             *)
(*                                                                         *)
(* A target host is what is left of the SOCKS target string after Rust     *)
(* has parsed it: four octets, eight 16-bit groups, or DomainName for a    *)
(* string that is not an IP address.  An init packet is represented by     *)
(* what the proxy can tell about its 64 bytes: whether it starts like an   *)
(* HTTP request, whether the decrypted tag at bytes 56..59 is one of the   *)
(* three known transports, and the decrypted little-endian i16 at bytes    *)
(* 60..61.  AES-CTR is its own inverse at a fixed position of the key      *)
(* stream, so writing keystream XOR dc makes exactly dc readable again.    *)
(***************************************************************************)
EXTENDS Integers, Sequences

Octet == 0..255
Group == 0..65535
Ipv4 == [1..4 -> Octet]
Ipv6 == [1..8 -> Group]
DomainName == << >>
Host == Ipv4 \cup Ipv6 \cup {DomainName}

\* socks.rs: a host string holds a colon exactly when it is an IPv6 address
is_ipv6(host) == host \in Ipv6

-----------------------------------------------------------------------------
\* An Option<TelegramIpEntry>, and an Option<dc> with its media flag: None is
\* dc = NoDc, which the code never constructs as Some(0).
NoDc == 0
Dc == 1..5
TelegramIpEntry == [dc : Dc, is_media : BOOLEAN]
NoEntry == [dc |-> NoDc, is_media |-> FALSE]
TelegramInitInfo == TelegramIpEntry \cup {NoEntry}

entry(dc, media) == [dc |-> dc, is_media |-> media]

\* Numeric order of two addresses of one family, on their digits
AddrLeq(a, b) ==
    \/ a = b
    \/ \E i \in DOMAIN a : a[i] < b[i] /\ \A j \in 1..(i - 1) : a[j] = b[j]

Within(host, ranges) ==
    \E r \in ranges : AddrLeq(r[1], host) /\ AddrLeq(host, r[2])

\* The catalogue.  Every range(start, end, dc, media) of the source has
\* start = end, so a row is the address and its entry.  No address has two
\* rows, so the first row that holds an address is the only one.
IP_TO_DC == {
    << <<149, 154, 175,  50>>, entry(1, FALSE) >>,
    << <<149, 154, 175,  51>>, entry(1, FALSE) >>,
    << <<149, 154, 175,  53>>, entry(1, FALSE) >>,
    << <<149, 154, 175,  54>>, entry(1, FALSE) >>,
    << <<149, 154, 175,  52>>, entry(1, TRUE) >>,
    << <<149, 154, 167, 220>>, entry(2, FALSE) >>,
    << <<149, 154, 167,  41>>, entry(2, FALSE) >>,
    << <<149, 154, 167,  50>>, entry(2, FALSE) >>,
    << <<149, 154, 167,  51>>, entry(2, FALSE) >>,
    << << 95, 161,  76, 100>>, entry(2, FALSE) >>,
    << <<149, 154, 167,  35>>, entry(2, TRUE) >>,
    << <<149, 154, 167, 222>>, entry(2, TRUE) >>,
    << <<149, 154, 167, 151>>, entry(2, TRUE) >>,
    << <<149, 154, 167, 223>>, entry(2, TRUE) >>,
    << <<149, 154, 162, 123>>, entry(2, TRUE) >>,
    << <<149, 154, 175, 100>>, entry(3, FALSE) >>,
    << <<149, 154, 175, 101>>, entry(3, FALSE) >>,
    << <<149, 154, 175, 102>>, entry(3, TRUE) >>,
    << <<149, 154, 167,  91>>, entry(4, FALSE) >>,
    << <<149, 154, 167,  92>>, entry(4, FALSE) >>,
    << <<149, 154, 164, 250>>, entry(4, TRUE) >>,
    << <<149, 154, 166, 120>>, entry(4, TRUE) >>,
    << <<149, 154, 166, 121>>, entry(4, TRUE) >>,
    << <<149, 154, 167, 118>>, entry(4, TRUE) >>,
    << <<149, 154, 165, 111>>, entry(4, TRUE) >>,
    << << 91, 108,  56, 100>>, entry(5, FALSE) >>,
    << << 91, 108,  56, 101>>, entry(5, FALSE) >>,
    << << 91, 108,  56, 116>>, entry(5, FALSE) >>,
    << << 91, 108,  56, 126>>, entry(5, FALSE) >>,
    << <<149, 154, 171,   5>>, entry(5, FALSE) >>,
    << << 91, 108,  56, 102>>, entry(5, TRUE) >>,
    << << 91, 108,  56, 128>>, entry(5, TRUE) >>,
    << << 91, 108,  56, 151>>, entry(5, TRUE) >> }

ASSUME CatalogueAssumption ==
    \A r, s \in IP_TO_DC : r[1] = s[1] => r = s

TG_IPV4_RANGES == {
    << <<185,  76, 151, 0>>, <<185,  76, 151, 255>> >>,
    << <<149, 154, 160, 0>>, <<149, 154, 175, 255>> >>,
    << << 91, 105, 192, 0>>, << 91, 105, 193, 255>> >>,
    << << 91, 108,   0, 0>>, << 91, 108, 255, 255>> >> }

\* 2001:67c:4e8::/48, 2001:b28:f23d::/48 and 2001:b28:f23f::/48
Net48(g) == << g \o <<0, 0, 0, 0, 0>>,
               g \o <<65535, 65535, 65535, 65535, 65535>> >>

TG_IPV6_RANGES == { Net48(<<8193, 1660, 1256>>),
                    Net48(<<8193, 2856, 62013>>),
                    Net48(<<8193, 2856, 62015>>) }

is_telegram_ip(host) ==
    \/ host \in Ipv4 /\ Within(host, TG_IPV4_RANGES)
    \/ host \in Ipv6 /\ Within(host, TG_IPV6_RANGES)

\* iter().find() over the rows
ip_to_dc(host) ==
    IF host \in Ipv4 /\ \E e \in TelegramIpEntry : <<host, e>> \in IP_TO_DC
    THEN CHOOSE e \in TelegramIpEntry : <<host, e>> \in IP_TO_DC
    ELSE NoEntry

\* kws{dc}-1.web.telegram.org (alt) and kws{dc}.web.telegram.org, in the order
\* in which they are tried
WsDomain == [dc : Dc, alt : BOOLEAN]
ws_domains(dc, is_media) == << [dc |-> dc, alt |-> is_media],
                               [dc |-> dc, alt |-> ~is_media] >>

-----------------------------------------------------------------------------
I16 == -32768..32767
InitPacket == [http : BOOLEAN, proto : BOOLEAN, dcRaw : I16]

unsigned_abs(n) == IF n < 0 THEN -n ELSE n

\* dc_raw.unsigned_abs() as u8 keeps the low eight bits
extract_dc(p) ==
    LET dc == unsigned_abs(p.dcRaw) % 256
    IN  IF p.proto /\ dc \in Dc
        THEN entry(dc, p.dcRaw < 0)
        ELSE NoEntry

patch_init_dc(p, dc) == [p EXCEPT !.dcRaw = dc]

is_http_transport(p) == p.http
=============================================================================
