----------------------------- MODULE MCRouting ------------------------------
(* Instances of Routing for TLC: targets, init packets and symmetry. *)
EXTENDS Routing, TLC

V4Plain      == <<149, 154, 167, 220>>       \* catalogued, DC 2
V4Unknown    == <<149, 154, 160, 1>>         \* Telegram, not catalogued
V4Stray      == <<95, 161, 76, 100>>         \* catalogued, in no Telegram range
V6Telegram   == <<8193, 1660, 1256, 0, 0, 0, 0, 1>>      \* 2001:67c:4e8::1
Other        == <<8, 8, 8, 8>>

Init_(dc) == [http |-> FALSE, proto |-> TRUE, dcRaw |-> dc]
HttpPost  == [http |-> TRUE, proto |-> FALSE, dcRaw |-> 0]

\* Resolution: a learned, an unknown and a plain target; inits with a DC, with a
\* DC that only its low byte makes valid, without one, and HTTP.
ResolutionHosts   == {V4Unknown, V6Telegram, Other}
ResolutionPackets == {Init_(2), Init_(-260), Init_(0), HttpPost}

\* Backoff: two routes of one catalogued target
BackoffHosts   == {V4Plain}
BackoffPackets == {Init_(0), Init_(-2)}

\* One route
OneRoutePackets == {Init_(0)}

CacheHosts   == {V6Telegram}
CachePackets == {Init_(2), Init_(-4), Init_(0)}

\* The two tables of catalog.rs are separate: one address of IP_TO_DC, and only
\* one, lies in no range of TG_IPV4_RANGES and is relayed as plain TCP.
ASSUME CatalogueInRanges ==
    {row[1] : row \in {r \in IP_TO_DC : ~is_telegram_ip(r[1])}} = {V4Stray}

ClientSymmetry == Permutations(Clients)
=============================================================================
