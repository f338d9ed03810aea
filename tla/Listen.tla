------------------------------- MODULE Listen -------------------------------
(***************************************************************************)
(* runtime/listen.rs and the links of config.rs: the addresses a host      *)
(* setting is bound to, and the ones announced for it.  An address is its  *)
(* family, its scope and a number to tell apart addresses of one kind.  A  *)
(* host is the IP address it is written as, if any, and what it resolves   *)
(* to; a host that cannot be parsed or looked up resolves to nothing.      *)
(***************************************************************************)
EXTENDS Integers, Sequences, SequencesExt

Addr == [family : {"v4", "v6"}, no : Nat,
         scope : {"global", "loopback", "unspecified", "link_local", "unique_local",
                  "multicast"}]
Ip(f, s) == [family |-> f, scope |-> s, no |-> 0]

NoIp == [family |-> "none", scope |-> "none", no |-> 0]
Host == [ip : Addr \cup {NoIp}, resolved : Seq(Addr)]

host_is_unspecified(h) == h.ip.scope = "unspecified"

\* A wildcard is bound for both families, each with a socket of its own
specs(h) == IF host_is_unspecified(h)
            THEN <<Ip("v4", "unspecified"), Ip("v6", "unspecified")>>
            ELSE h.resolved

\* Mutation of bind_host: an address that cannot be bound is skipped with a warning
bind_host_skips(h, ok) == ToSet(specs(h)) \cap ok

\* ok: the addresses on which bind_socket succeeds.  A duplicate is bound once; at the
\* first failure the loop returns and drops what it has bound (here: {}, as when there
\* is no address).  No other task runs meanwhile, so the order of the loop is left out
bind_host(h, ok) == IF ToSet(specs(h)) \subseteq ok THEN ToSet(specs(h)) ELSE {}

-----------------------------------------------------------------------------
is_public_ipv6(a) == a.scope = "global"

announce_priority(a) ==
    CASE a.family = "v6" /\ is_public_ipv6(a) -> 0
      [] a.family = "v4" /\ a.scope # "loopback" -> 1
      [] a.family = "v6" /\ a.scope \in {"unique_local", "multicast"} -> 2
      [] a.family = "v4" /\ a.scope = "loopback" -> 3
      [] a.family = "v6" /\ a.scope = "loopback" -> 4
      [] OTHER -> 255

\* ifaces: the interfaces' addresses, if they can be listed.  The order of the
\* links, which is that of lines in the log, is left out.
Ifaces == [listed : BOOLEAN, addrs : SUBSET Addr]

discover_link_addrs(ifaces) ==
    LET ranked == {a \in ifaces.addrs : announce_priority(a) < 255}
    IN  IF ~ifaces.listed THEN {}
        ELSE IF ranked = {} THEN {Ip("v4", "loopback"), Ip("v6", "loopback")}
        ELSE ranked

\* Mutation of link_addrs: a name is announced as if it were an address
link_addrs_literal(h, ifaces) ==
    IF host_is_unspecified(h) THEN discover_link_addrs(ifaces) ELSE {h.ip}

\* A link with the name of a host leads to what the name resolves to
link_addrs(h, ifaces) ==
    IF host_is_unspecified(h)
    THEN IF discover_link_addrs(ifaces) # {} THEN discover_link_addrs(ifaces) ELSE {h.ip}
    ELSE ToSet(h.resolved)
=============================================================================
