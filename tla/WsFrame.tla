------------------------------- MODULE WsFrame -------------------------------
(***************************************************************************)
(* WebSocket frames on the wire (modules/ws.rs): what build_frame writes,  *)
(* and the pieces of a header that read_frame takes apart.  A frame is its *)
(* opcode, the length of its payload, the mask key its payload is XORed    *)
(* with (none in a frame of the upstream) and the bytes of its header, key *)
(* included.  The payload is only a run of len bytes: XOR with one key on  *)
(* both sides cancels, so it is read back if the same key is used from its *)
(* first byte on.                                                          *)
(***************************************************************************)
EXTENDS Integers, Sequences

Byte == 0..255

\* What read_frame makes of an opcode; FIN is ignored and a continuation is
\* more binary data
Kind(op) == CASE op \in {0, 1, 2} -> "binary"
              [] op = 8  -> "close"
              [] op = 9  -> "ping"
              [] op = 10 -> "pong"
              [] OTHER   -> "other"

\* to_be_bytes and from_be_bytes of a u16 and of a u64
be16(n) == <<(n \div 256) % 256, n % 256>>

be64(n) == LET q1 == n \div 256    q2 == q1 \div 256   q3 == q2 \div 256
               q4 == q3 \div 256   q5 == q4 \div 256   q6 == q5 \div 256
               q7 == q6 \div 256
           IN  <<q7 % 256, q6 % 256, q5 % 256, q4 % 256,
                 q3 % 256, q2 % 256, q1 % 256, n % 256>>

from_be16(b) == 256 * b[1] + b[2]

from_be64(b) == 256 * (256 * (256 * (256 * (256 * (256 * (256 *
                b[1] + b[2]) + b[3]) + b[4]) + b[5]) + b[6]) + b[7]) + b[8]

\* Any four bytes will do; these are the ones used when getrandom fails
MaskKey == <<17, 34, 51, 68>>

\* Mutation of build_frame_with_opcode: 126 itself is written in one byte
build_frame_off_by_one(op, n) ==
    [op |-> op, len |-> n, key |-> MaskKey,
     head |-> <<128 + op>>
              \o (IF n <= 126 THEN <<128 + n>>
                  ELSE IF n <= 65535 THEN <<254>> \o be16(n) ELSE <<255>> \o be64(n))
              \o MaskKey]

\* A masked final frame with the shortest encoding of its length
build_frame_with_opcode(op, n) ==
    [op |-> op, len |-> n, key |-> MaskKey,
     head |-> <<128 + op>>
              \o (IF n < 126 THEN <<128 + n>>
                  ELSE IF n <= 65535 THEN <<254>> \o be16(n) ELSE <<255>> \o be64(n))
              \o MaskKey]

build_frame(n) == build_frame_with_opcode(2, n)

\* What the 7 bits, the u16 and the u64 can state; 126 and 127 are escapes
fits(form, n) == \/ form = 8 /\ n < 126
                 \/ form = 16 /\ n < 65536
                 \/ form = 64 /\ (n \div 16777216) \div 16777216 < 65536   \* n < 2^64

\* A frame as an upstream may write it: the first byte with FIN and the opcode,
\* the length in any of the three forms, and masked (a key of four bytes) or not
peer_frame(first, form, key, n) ==
    LET mask == IF key = << >> THEN 0 ELSE 128
    IN  [op |-> first % 16, len |-> n, key |-> key,
         head |-> <<first>>
                  \o (IF form = 8 THEN <<mask + n>>
                      ELSE IF form = 16 THEN <<mask + 126>> \o be16(n)
                      ELSE <<mask + 127>> \o be64(n))
                  \o key]

\* A frame that somebody has encoded
Encoded(f) ==
    \/ \E op \in 0..15 : fits(64, f.len) /\ f = build_frame_with_opcode(op, f.len)
    \/ /\ f.key = << >> \/ Len(f.key) = 4
       /\ \E first \in Byte, form \in {8, 16, 64} :
             fits(form, f.len) /\ f = peer_frame(first, form, f.key, f.len)

\* What read_frame takes from the two bytes of hdr
opcode(hdr) == hdr[1] % 16
len7(hdr) == hdr[2] % 128
masked(hdr) == hdr[2] >= 128

Size(f) == Len(f.head) + f.len
=============================================================================
