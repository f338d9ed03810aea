------------------------------ MODULE Splitter ------------------------------
(***************************************************************************)
(* MtProtoMessageSplitter (modules/telegram/splitter.rs): cuts what the    *)
(* client sends into the parts that become WebSocket frames.               *)
(*                                                                         *)
(* The relay hands it one chunk after another, as they come from the       *)
(* socket.  The only thing it keeps between two calls is the position of   *)
(* the key stream, so a stream is given here by its plain bytes, and the   *)
(* key stream position is the number of bytes seen so far.  A call of      *)
(* split is several steps, one per turn of its loop.                       *)
(*                                                                         *)
(* Positions count from 0 as in the code; byte p of a chunk that starts    *)
(* after offset bytes is plain[offset + p + 1].                            *)
(***************************************************************************)
EXTENDS Integers, Sequences

Byte == 0..255

CONSTANT Streams   \* what clients may send: bytes, and where messages end

\* MTProto's abridged transport (external): the message that starts after e
\* bytes ends after next bytes.  Its length is given in words of four bytes.
Message(plain, e, next) ==
    \/ /\ plain[e + 1] \in 1..126
       /\ next = e + 1 + 4 * plain[e + 1]
    \/ /\ e + 4 <= Len(plain) /\ plain[e + 1] = 127
       /\ plain[e + 2] + 256 * plain[e + 3] + 65536 * plain[e + 4] > 0
       /\ next = e + 4 + 4 * (plain[e + 2] + 256 * plain[e + 3] + 65536 * plain[e + 4])

\* A stream is a sequence of whole messages
Framed(s) ==
    /\ s.plain \in Seq(Byte)
    /\ s.ends \subseteq 1..Len(s.plain)
    /\ \A e \in {0} \cup s.ends : e < Len(s.plain) =>
          \E next \in s.ends : /\ Message(s.plain, e, next)
                               /\ \A x \in s.ends : x <= e \/ next <= x

ASSUME StreamsAssumption == \A s \in Streams : Framed(s)

VARIABLES stream,      \* the stream of this session
          pc,          \* where split stands
          offset,      \* the position of the key stream when split was called
          n,           \* chunk.len()
          pos,
          boundaries,
          parts        \* where the parts end that split returned

vars == <<stream, pc, offset, n, pos, boundaries, parts>>

TypeOK == /\ stream \in Streams
          /\ pc \in {"idle", "scan", "cut"}
          /\ offset \in Nat /\ n \in Nat /\ offset + n <= Len(stream.plain)
          /\ pos \in Nat
          /\ boundaries \in Seq(Nat) /\ parts \in Seq(Nat)

\* MtProtoMessageSplitter::new has skipped the key stream of the init packet
Init == /\ stream \in Streams
        /\ pc = "idle"
        /\ offset = 0 /\ n = 0 /\ pos = 0
        /\ boundaries = << >> /\ parts = << >>

-----------------------------------------------------------------------------
plain(p) == stream.plain[offset + p + 1]

raw_len == plain(pos + 1) + 256 * plain(pos + 2) + 65536 * plain(pos + 3)

extended == plain(pos) = 127

\* Mutation of header: the extended header counted without its marker
header_short == IF extended THEN 3 ELSE 1

\* how far pos moves before the length is used
header == IF extended THEN 4 ELSE 1

msg_len == IF extended THEN raw_len * 4 ELSE plain(pos) * 4

\* Mutation of Split: the key stream is applied to the chunk twice
Split_twice(k) ==
    /\ pc = "idle" /\ offset + n + k <= Len(stream.plain)
    /\ offset' = offset + n + k /\ n' = k
    /\ parts' = << >>
    /\ pc' = "scan"
    /\ UNCHANGED <<stream, pos, boundaries>>

\* split is called with the next k bytes; the key stream moves on by k
Split(k) ==
    /\ pc = "idle" /\ offset + n + k <= Len(stream.plain)
    /\ offset' = offset + n /\ n' = k
    /\ parts' = << >>
    /\ pc' = "scan"
    /\ UNCHANGED <<stream, pos, boundaries>>

ScanEnds ==
    /\ pc = "scan" /\ pos >= n
    /\ pc' = "cut"
    /\ UNCHANGED <<stream, offset, n, pos, boundaries, parts>>

\* The four bytes of an extended header are not all there
ScanHeaderCut ==
    /\ pc = "scan" /\ pos < n /\ extended /\ pos + 4 > n
    /\ pc' = "cut"
    /\ UNCHANGED <<stream, offset, n, pos, boundaries, parts>>

\* An empty message, or one that the chunk does not hold to its end
ScanMessageCut ==
    /\ pc = "scan" /\ pos < n /\ ~(extended /\ pos + 4 > n)
    /\ msg_len = 0 \/ pos + header + msg_len > n
    /\ pos' = pos + header
    /\ pc' = "cut"
    /\ UNCHANGED <<stream, offset, n, boundaries, parts>>

\* Mutation of ScanMessage: the boundary is noted before the message is skipped
ScanMessage_early ==
    /\ pc = "scan" /\ pos < n /\ ~(extended /\ pos + 4 > n)
    /\ ~(msg_len = 0 \/ pos + header + msg_len > n)
    /\ pos' = pos + header + msg_len
    /\ boundaries' = Append(boundaries, pos)
    /\ UNCHANGED <<stream, pc, offset, n, parts>>

ScanMessage ==
    /\ pc = "scan" /\ pos < n /\ ~(extended /\ pos + 4 > n)
    /\ ~(msg_len = 0 \/ pos + header + msg_len > n)
    /\ pos' = pos + header + msg_len
    /\ boundaries' = Append(boundaries, pos')
    /\ UNCHANGED <<stream, pc, offset, n, parts>>

\* Mutation of cuts: what follows the last boundary is dropped
cuts_drop_rest(bs, len) == IF Len(bs) <= 1 THEN <<len>> ELSE bs

\* Where the parts end: each starts where the one before it ended
cuts(bs, len) == IF Len(bs) <= 1 THEN <<len>>
                 ELSE IF bs[Len(bs)] < len THEN Append(bs, len)
                 ELSE bs

\* split returns; its local variables are gone
Cut ==
    /\ pc = "cut"
    /\ parts' = cuts(boundaries, n)
    /\ pos' = 0 /\ boundaries' = << >>
    /\ pc' = "idle"
    /\ UNCHANGED <<stream, offset, n>>

Next == \/ \E k \in 1..(Len(stream.plain) - offset - n) : Split(k)
        \/ ScanEnds \/ ScanHeaderCut \/ ScanMessageCut \/ ScanMessage \/ Cut

Spec == Init /\ [][Next]_vars

-----------------------------------------------------------------------------
Returned == pc = "idle" /\ n > 0

\* Where messages end inside the chunk, counted from its start
MessageEnds == {p \in 1..n : offset + p \in stream.ends}

\* The chunk starts where a message starts
Aligned == offset \in {0} \cup stream.ends

\* split loses nothing, repeats nothing and sends no empty frame: its parts are
\* contiguous, nonempty and cover the chunk, whatever bytes it is given and
\* wherever in a message the chunk starts.  Relay relies on this.
PartsTile ==
    Returned =>
        /\ parts # << >> /\ parts[Len(parts)] = n
        /\ \A i \in DOMAIN parts : parts[i] > (IF i = 1 THEN 0 ELSE parts[i - 1])

\* A chunk that starts and ends with a message is cut into its messages, one
\* frame for each.
OneFramePerMessage ==
    Returned /\ Aligned /\ n \in MessageEnds =>
        {parts[i] : i \in DOMAIN parts} = MessageEnds

\* A chunk that starts with a message is cut only where messages end, also when
\* its end is inside one.
CutsBetweenMessages ==
    Returned /\ Aligned =>
        \A i \in DOMAIN parts : parts[i] = n \/ parts[i] \in MessageEnds

-----------------------------------------------------------------------------
\* docs/architecture.md: the splitter works "closely enough to preserve MTProto
\* message boundaries": no frame would hold the end of one message and the
\* beginning of another.
BoundariesPreserved ==
    Returned =>
        \A m \in MessageEnds : \E i \in DOMAIN parts : parts[i] = m
=============================================================================
