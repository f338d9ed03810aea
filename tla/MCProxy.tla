------------------------------ MODULE MCProxy -------------------------------
(* An instance of Proxy for TLC: settings, and the messages of clients. *)
EXTENDS Proxy

Account(u, p) == [user |-> u, colon |-> TRUE, pass |-> p]
TwoAccounts == <<Account("alice", "one"), Blank, Account("bob", "two")>>

Wildcard == [ip |-> Ip("v6", "unspecified"), resolved |-> <<Ip("v6", "unspecified")>>]
Named    == [ip |-> NoIp, resolved |-> <<Ip("v4", "loopback"), Ip("v4", "loopback")>>]
Unknown  == [ip |-> NoIp, resolved |-> << >>]

Lan == [listed |-> TRUE, addrs |-> {Ip("v4", "global"), Ip("v6", "unique_local"),
                                   Ip("v6", "link_local")}]
Alone == [listed |-> TRUE, addrs |-> {Ip("v6", "link_local")}]
Unlisted == [listed |-> FALSE, addrs |-> {}]

Set(h, e, u, i) == [host |-> h, health |-> e, users |-> u, ifaces |-> i]

\* With and without accounts, malformed ones, only separators; wildcard, name,
\* name that does not resolve
MCSettings == {Set(Wildcard, Wildcard, TwoAccounts, Lan),
               Set(Wildcard, Named, <<Blank, Blank>>, Unlisted),
               Set(Wildcard, Unknown, <<Account("alice", "")>>, Alone),
               Set(Named, Unknown, <<Account("alice", "one"), Account("", "two")>>, Lan),
               Set(Named, Unknown, << >>, Lan),
               Set(Named, Named, <<[user |-> "alice", colon |-> FALSE, pass |-> ""]>>, Lan),
               Set(Wildcard, Named, <<Account("alice", "one")>>, Alone),
               Set(Unknown, Named, TwoAccounts, Lan)}

MCGreetings == {[version |-> 4, methods |-> {}]}
    \cup [version : {5}, methods : SUBSET {"no_auth", "password"}]
MCLogins == [version : {1}, utf8 : {TRUE}, user : {"alice", "bob"}, pass : {"one", "two"}]
    \cup {[version |-> 5, utf8 |-> TRUE, user |-> "alice", pass |-> "one"],
          [version |-> 1, utf8 |-> FALSE, user |-> "alice", pass |-> "one"]}
MCRequests == Request
=============================================================================
