----------------------------- MODULE MCWsClient -----------------------------
(* Instances of WsClient for TLC: response headers and frames. *)
EXTENDS WsClient

L(n, g) == [name |-> n, good |-> g]
Upgrade == <<L("upgrade", TRUE), L("connection", TRUE),
             L("sec-websocket-accept", TRUE), L("sec-websocket-protocol", TRUE)>>

\* An upgrade, and what is left of one: a line missing, a wrong value before or
\* after the right one, a line that is no header, an empty line in the middle
Headers == {<< >>, <<L("other", TRUE), L("sec-websocket-accept", FALSE)>> \o Upgrade}
    \cup {RemoveAt(Upgrade, i) : i \in 1..4}
    \cup {Append(Upgrade, L(n, FALSE)) : n \in Required}
    \cup {InsertAt(Upgrade, i, L(n, TRUE)) : i \in {1, 3, 5}, n \in {"no_colon", "empty"}}

\* The limit of 8192 bytes is 6 here
MCReplies == {[status |-> 101, lines |-> h, len |-> 5] : h \in Headers}
    \cup {[status |-> s, lines |-> Upgrade, len |-> n] :
             s \in {101, 302, 404, NotANumber}, n \in {6, 7}}
    \cup {[status |-> 404, lines |-> <<L("no_colon", TRUE)>>, len |-> 4]}

\* Around every change of the length encoding; longer forms than needed; the
\* first part of a fragmented message and its continuation
MCFrames == {build_frame(n) : n \in {0, 125, 126, 65535, 65536}}
    \cup {build_frame_with_opcode(10, 0)}
    \cup {peer_frame(2, 16, <<255, 0, 128, 1>>, 1), peer_frame(128, 64, << >>, 65537),
          peer_frame(137, 8, << >>, 125), peer_frame(136, 8, << >>, 2),
          peer_frame(131, 8, << >>, 0)}
=============================================================================
