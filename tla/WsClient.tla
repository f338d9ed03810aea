------------------------------ MODULE WsClient ------------------------------
(***************************************************************************)
(* RawWsClient (modules/ws.rs) on one connection: connect_raw with its two *)
(* timeouts, perform_handshake, and then read_frame as recv_frame calls it *)
(* until the stream ends.  Routing sees only how connect ended, Relay only *)
(* the frames; here is the byte stream in between, from which both are     *)
(* read.                                                                   *)
(*                                                                         *)
(* The upstream's bytes are numbered from 1.  The first reply.len of them  *)
(* are the response header, the frames follow one another in log.  avail   *)
(* bytes have arrived; they stop arriving (end = "fin", "reset") after any *)
(* byte, or the upstream just stays silent.  A response header is its      *)
(* status, its lines and its length in bytes; the value of a line is good  *)
(* if it is the expected one.                                              *)
(***************************************************************************)
EXTENDS WsFrame, SequencesExt

CONSTANTS Replies,     \* response headers an upstream may send
          Frames,      \* frames it may send
          MaxFrames,   \* bound: how many of them
          MAX_HANDSHAKE_HEADER_SIZE

LineNames == {"upgrade", "connection", "sec-websocket-accept",
              "sec-websocket-protocol", "other", "no_colon", "empty"}
Line == [name : LineNames, good : BOOLEAN]
NotANumber == -1    \* a status that parse_status cannot read
Reply == [status : {NotANumber} \cup Nat, lines : Seq(Line), len : Nat]
Frame == [op : 0..15, len : Nat, key : Seq(Byte), head : Seq(Byte)]

ASSUME WsClientAssumption ==
    /\ MaxFrames \in Nat /\ MAX_HANDSHAKE_HEADER_SIZE \in Nat
    /\ \A r \in Replies : r \in Reply /\ r.len >= 4    \* CR LF CR LF
    /\ \A f \in Frames : f \in Frame /\ Encoded(f)

VARIABLES pc,       \* the await of connect or of read_frame
          outcome,  \* how connect ended
          pos,      \* how many bytes were read
          cur,      \* the locals of read_frame
          got,      \* the frames it has returned
          reply, log, total, avail, end   \* the upstream: see above

readVars == <<pc, outcome, pos, cur, got>>
upstreamVars == <<reply, log, total, avail, end>>
vars == <<readVars, upstreamVars>>

Connecting == {"tcp", "tls", "request", "header"}
Reading == {"hdr", "ext", "mask", "payload"}

NoFrame == [op |-> 0, len |-> 0, masked |-> FALSE, key |-> << >>]

TypeOK ==
    /\ pc \in Connecting \cup Reading \cup {"closed", "eof", "error"}
    /\ outcome \in {"none", "ok", "http_404", "http", "handshake", "timeout", "io", "tls"}
    /\ cur \in [op : Nat, len : Nat, masked : BOOLEAN, key : Seq(Byte)]
    /\ got \in Seq([kind : {"binary", "ping", "pong", "close", "other"},
                    from : Nat, len : Nat, key : Seq(Byte)])
    /\ reply \in Replies /\ end \in {"open", "fin", "reset"}
    /\ \A i \in DOMAIN log : log[i].start \in Nat
    /\ pos \in 0..avail /\ avail \in 0..total

Init == /\ pc = "tcp" /\ outcome = "none"
        /\ pos = 0 /\ cur = NoFrame /\ got = << >>
        /\ reply \in Replies /\ log = << >> /\ total = reply.len
        /\ avail = 0 /\ end = "open"

-----------------------------------------------------------------------------
(* connect_raw: both connects are raced against the same duration *)

Fail(o) == pc' = "error" /\ outcome' = o

TcpConnected == /\ pc = "tcp" /\ pc' = "tls"
                /\ UNCHANGED <<outcome, pos, cur, got, upstreamVars>>

TlsConnected == /\ pc = "tls" /\ pc' = "request"
                /\ UNCHANGED <<outcome, pos, cur, got, upstreamVars>>

ConnectRefused == /\ \/ pc = "tcp" /\ Fail("io")
                     \/ pc = "tls" /\ Fail("tls")
                  /\ UNCHANGED <<pos, cur, got, upstreamVars>>

\* Mutation of ConnectTimesOut: only the TCP connect is given a timeout
ConnectTimesOut_tcp_only == /\ pc = "tcp" /\ Fail("timeout")
                            /\ UNCHANGED <<pos, cur, got, upstreamVars>>

ConnectTimesOut == /\ pc \in {"tcp", "tls"} /\ Fail("timeout")
                   /\ UNCHANGED <<pos, cur, got, upstreamVars>>

-----------------------------------------------------------------------------
(* perform_handshake *)

SendRequest == /\ pc = "request" /\ end # "reset"
               /\ pc' = "header"
               /\ UNCHANGED <<outcome, pos, cur, got, upstreamVars>>

\* No random key, or the request cannot be written
SendRequestFails == /\ pc = "request"
                    /\ \/ Fail("handshake")
                       \/ end = "reset" /\ Fail("io")
                    /\ UNCHANGED <<pos, cur, got, upstreamVars>>

\* parse_handshake_response: an empty line ends the loop, a line without a
\* colon is an error, and the last line with a name counts
ParseLine(r, l) ==
    IF r.over \/ r.malformed THEN r
    ELSE IF l.name = "empty" THEN [r EXCEPT !.over = TRUE]
    ELSE IF l.name = "no_colon" THEN [r EXCEPT !.malformed = TRUE]
    ELSE [r EXCEPT !.field = [@ EXCEPT ![l.name] = IF l.good THEN "good" ELSE "bad"]]

NothingRead == [over |-> FALSE, malformed |-> FALSE, field |-> [n \in LineNames |-> "none"]]

\* What the loop knows after each number of lines
ParseLoop(lines) ==
    LET after[i \in 0..Len(lines)] ==
            IF i = 0 THEN NothingRead ELSE ParseLine(after[i - 1], lines[i])
    IN  after

parse_handshake_response(r) == ParseLoop(r.lines)[Len(r.lines)]

Required == {"upgrade", "connection", "sec-websocket-accept", "sec-websocket-protocol"}

\* Mutation of validate_handshake_response: the protocol may be left out
validate_without_protocol(field) ==
    \A n \in Required \ {"sec-websocket-protocol"} : field[n] = "good"

validate_handshake_response(field) == \A n \in Required : field[n] = "good"

\* How connect ends once the header is complete
Verdict == [r \in Replies |->
    LET response == parse_handshake_response(r)
    IN  IF r.status = NotANumber \/ response.malformed THEN "handshake"
        ELSE CASE r.status = 101 -> IF validate_handshake_response(response.field)
                                    THEN "ok" ELSE "handshake"
               [] r.status = 404 -> "http_404"
               [] OTHER -> "http"]

\* One turn of the loop of read_handshake_headers
ReadHeaderByte == /\ pc = "header" /\ pos < avail
                  /\ pos + 1 < reply.len /\ pos + 1 < MAX_HANDSHAKE_HEADER_SIZE
                  /\ pos' = pos + 1
                  /\ UNCHANGED <<pc, outcome, cur, got, upstreamVars>>

HeaderOversized == /\ pc = "header" /\ pos < avail
                   /\ pos + 1 < reply.len /\ pos + 1 >= MAX_HANDSHAKE_HEADER_SIZE
                   /\ pos' = pos + 1 /\ Fail("handshake")
                   /\ UNCHANGED <<cur, got, upstreamVars>>

\* The byte that completes CR LF CR LF; nothing after it has been read
HeaderDone == /\ pc = "header" /\ pos < avail /\ pos + 1 = reply.len
              /\ pos' = pos + 1
              /\ outcome' = Verdict[reply]
              /\ pc' = IF outcome' = "ok" THEN "hdr" ELSE "error"
              /\ UNCHANGED <<cur, got, upstreamVars>>

\* Without a close_notify the TLS layer reports an end of file as an error
HeaderCut == /\ pc = "header"
             /\ \/ end = "fin" /\ pos = avail /\ (Fail("handshake") \/ Fail("io"))
                \/ end = "reset" /\ Fail("io")
             /\ UNCHANGED <<pos, cur, got, upstreamVars>>

-----------------------------------------------------------------------------
(* read_frame: one action per read_exact *)

\* The byte at a position: a header's, or one of a payload, whose value does
\* not matter unless it is taken for a header
ByteAt(p) ==
    LET owners == {i \in DOMAIN log : log[i].start < p /\ p <= log[i].start + Len(log[i].head)}
    IN  IF owners = {} THEN 0
        ELSE LET i == CHOOSE i \in owners : TRUE IN log[i].head[p - log[i].start]
Bytes(n) == [i \in 1..n |-> ByteAt(pos + i)]

\* Mutation of Ready: read in place of read_exact returns what there is
Ready_partial(n) == n = 0 \/ pos < avail

Ready(n) == pos + n <= avail

AfterLength(c) == IF c.masked THEN "mask" ELSE "payload"

ReadHdr == /\ pc = "hdr" /\ Ready(2)
           /\ cur' = [op |-> opcode(Bytes(2)), len |-> len7(Bytes(2)),
                      masked |-> masked(Bytes(2)), key |-> << >>]
           /\ pos' = pos + 2
           /\ pc' = IF cur'.len \in {126, 127} THEN "ext" ELSE AfterLength(cur')
           /\ UNCHANGED <<outcome, got, upstreamVars>>

ExtSize(c) == IF c.len = 126 THEN 2 ELSE 8

ReadExt == /\ pc = "ext" /\ Ready(ExtSize(cur))
           /\ cur' = [cur EXCEPT !.len = IF @ = 126 THEN from_be16(Bytes(2))
                                                    ELSE from_be64(Bytes(8))]
           /\ pos' = pos + ExtSize(cur)
           /\ pc' = AfterLength(cur)
           /\ UNCHANGED <<outcome, got, upstreamVars>>

ReadMask == /\ pc = "mask" /\ Ready(4)
            /\ cur' = [cur EXCEPT !.key = Bytes(4)]
            /\ pos' = pos + 4
            /\ pc' = "payload"
            /\ UNCHANGED <<outcome, got, upstreamVars>>

\* Mutation of ReadPayload: a frame of an unknown kind is skipped like a Pong
ReadPayload_skips_other ==
    /\ pc = "payload" /\ Ready(cur.len)
    /\ got' = Append(got, [kind |-> Kind(cur.op), from |-> pos, len |-> cur.len, key |-> cur.key])
    /\ pos' = pos + cur.len
    /\ pc' = IF Kind(cur.op) = "close" THEN "closed" ELSE "hdr"
    /\ UNCHANGED <<outcome, cur, upstreamVars>>

\* The frame is complete; recv_frame goes on unless it ends the stream
ReadPayload == /\ pc = "payload" /\ Ready(cur.len)
               /\ got' = Append(got, [kind |-> Kind(cur.op), from |-> pos,
                                      len |-> cur.len, key |-> cur.key])
               /\ pos' = pos + cur.len
               /\ pc' = IF Kind(cur.op) \in {"close", "other"} THEN "closed" ELSE "hdr"
               /\ UNCHANGED <<outcome, cur, upstreamVars>>

Needed == CASE pc = "hdr" -> 2 [] pc = "ext" -> ExtSize(cur)
            [] pc = "mask" -> 4 [] OTHER -> cur.len

\* Mutation of StreamEnds: every end of file is taken for a graceful one
StreamEnds_always_graceful ==
    /\ pc \in Reading /\ end = "fin" /\ ~Ready(Needed)
    /\ pc' = "eof"
    /\ UNCHANGED <<outcome, pos, cur, got, upstreamVars>>

\* UnexpectedEof, with or without a close_notify: Ok(None) if not even the two
\* bytes of hdr were left
StreamEnds == /\ pc \in Reading /\ end = "fin" /\ ~Ready(Needed)
              /\ pc' = IF pc = "hdr" THEN "eof" ELSE "error"
              /\ UNCHANGED <<outcome, pos, cur, got, upstreamVars>>

StreamFails == /\ pc \in Reading /\ end = "reset"
               /\ pc' = "error"
               /\ UNCHANGED <<outcome, pos, cur, got, upstreamVars>>

-----------------------------------------------------------------------------
(* The upstream (external) *)

Reached == pc \notin {"tcp", "tls"}

\* A frame is added when what was sent before it has arrived, and only behind
\* an upgrade: the client could not tell the difference
UpstreamSends(f) == /\ Reached /\ end = "open" /\ Verdict[reply] = "ok"
                    /\ avail = total /\ Len(log) < MaxFrames
                    /\ log' = Append(log, [start |-> total, op |-> f.op, len |-> f.len,
                                           key |-> f.key, head |-> f.head])
                    /\ total' = total + Size(f)
                    /\ UNCHANGED <<readVars, reply, avail, end>>

\* Bytes of a header, and the first and the last one of a payload, arrive one at
\* a time; where in between a payload pauses makes no difference
InHeader == \/ avail < reply.len
            \/ log # << >> /\ avail <= Last(log).start + Len(Last(log).head)

Arrives == /\ Reached /\ end = "open" /\ avail < total
           /\ avail' = IF InHeader \/ avail = total - 1 THEN avail + 1 ELSE total - 1
           /\ UNCHANGED <<readVars, reply, log, total, end>>

UpstreamStops == /\ Reached /\ end = "open"
                 /\ end' \in {"fin", "reset"}
                 /\ UNCHANGED <<readVars, reply, log, total, avail>>

-----------------------------------------------------------------------------
\* What connect does by itself; the answers to the two connects come from the
\* other side
ConnectStep == \/ ConnectTimesOut
               \/ SendRequest \/ SendRequestFails
               \/ ReadHeaderByte \/ HeaderOversized \/ HeaderDone \/ HeaderCut

ReadStep == \/ ReadHdr \/ ReadExt \/ ReadMask \/ ReadPayload
            \/ StreamEnds \/ StreamFails

Next == \/ TcpConnected \/ TlsConnected \/ ConnectRefused
        \/ ConnectStep \/ ReadStep
        \/ \E f \in Frames : UpstreamSends(f)
        \/ Arrives \/ UpstreamStops

\* tokio polls a task that can go on, and its timers fire.  Nothing is assumed of
\* the upstream, which may stay silent for ever.
Spec == Init /\ [][Next]_vars /\ WF_vars(ConnectStep)

-----------------------------------------------------------------------------
(* What the client promises *)

\* read_frame never loses its place, whatever lengths, masks and opcodes follow
\* one another: it returns exactly the frames that were sent, in order, each
\* with its own payload and mask key.  The first one starts right after the
\* response header, so the handshake has read nothing too much.
FramesInSync ==
    /\ Len(got) <= Len(log)
    /\ \A i \in DOMAIN got :
          got[i] = [kind |-> Kind(log[i].op), from |-> log[i].start + Len(log[i].head),
                    len |-> log[i].len, key |-> log[i].key]

\* Where the n-th frame ends
Boundary(n) == IF n = 0 THEN reply.len ELSE log[n].start + Size(log[n])

\* A stream that is cut is not taken for a finished one: a graceful end leaves at
\* most one byte behind the last frame returned, an end of file reported as an
\* error is one in the middle of a frame.
EndsAsCut ==
    /\ pc = "eof" => end # "open" /\ avail <= Boundary(Len(got)) + 1
    /\ pc = "error" /\ outcome = "ok" /\ end = "fin" =>
          /\ Len(got) < Len(log)
          /\ Boundary(Len(got)) + 2 <= avail /\ avail < Boundary(Len(got) + 1)

\* How many frames have arrived as a whole, and whether the stream was cut inside
\* the next one, with its header begun
Complete == IF avail = total \/ log = << >> THEN Len(log) ELSE Len(log) - 1
CutInFrame == Complete < Len(log) /\ Boundary(Complete) + 2 <= avail

\* The channel its caller sees
Arrived == [i \in 1..Complete |-> Kind(log[i].op)]
Stopped == IF end = "fin" /\ CutInFrame THEN "reset" ELSE end
Reader == IF outcome # "ok" THEN "none"
          ELSE IF pc \in Reading THEN "open"
          ELSE IF pc = "error" THEN "failed" ELSE "ended"

channel == INSTANCE FrameChannel WITH
    Kinds <- {"binary", "ping", "pong", "close", "other"}, Terminators <- {"close", "other"},
    sent <- Arrived, stop <- Stopped, read <- Len(got), reader <- Reader

\* To its caller the byte stream is a channel of frames: wherever it pauses or is
\* cut, recv_frame gives whole frames in order, nothing behind a close, an end only
\* when all that arrived was given, and an error only if a frame was cut or the
\* connection lost.
ImplementsFrameChannel == channel!Spec

\* A response is taken for an upgrade, or for the 404 that may disable a route,
\* only if it is one: complete, within the size limit, every line up to the
\* first empty one a header, and for an upgrade the last line of each required
\* header as expected.  Such a response is never refused, and any other readable one
\* is reported with its status.
VerdictFollowsReply ==
    LET Seen == {i \in DOMAIN reply.lines :
                   \A j \in 1..i : reply.lines[j].name # "empty"}
        WellFormed == /\ reply.len <= MAX_HANDSHAKE_HEADER_SIZE
                      /\ reply.status # NotANumber
                      /\ \A i \in Seen : reply.lines[i].name # "no_colon"
        Granted == \A n \in Required : \E i \in Seen :
                       /\ reply.lines[i] = [name |-> n, good |-> TRUE]
                       /\ \A j \in Seen : reply.lines[j].name = n => j <= i
    IN  /\ outcome = "ok" => WellFormed /\ reply.status = 101 /\ Granted
        /\ outcome = "http_404" => WellFormed /\ reply.status = 404
        /\ outcome = "http" => WellFormed /\ reply.status \notin {101, 404}
        /\ outcome = "handshake" /\ pos = reply.len =>
              ~WellFormed \/ (reply.status = 101 /\ ~Granted)

\* connect ends whatever the upstream does, with one exception: perform_handshake
\* has no timeout, so an upstream that accepts the connection and then neither
\* completes its response nor closes keeps the attempt for ever.
ConnectEnds == \/ <>(outcome # "none")
               \/ <>[](pc = "header" /\ pos = avail /\ end = "open")
=============================================================================
