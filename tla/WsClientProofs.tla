--------------------------- MODULE WsClientProofs ---------------------------
(* Proofs about WsFrame and WsClient: a length reads back as it was written, and
   read_frame returns the frames that were sent, whatever they are, however many
   and wherever the stream pauses or ends. *)
EXTENDS WsClient, TLAPS

-----------------------------------------------------------------------------
(* Numbers as bytes *)

LEMMA Digit ==
    ASSUME NEW n \in Nat
    PROVE  /\ n \div 256 \in Nat /\ n % 256 \in Byte
           /\ n = 256 * (n \div 256) + (n % 256)
  BY DEF Byte

\* A u16 and a u64 are read back from their bytes.
LEMMA RoundTrip16 ==
    ASSUME NEW n \in Nat, n < 65536
    PROVE  /\ (n \div 256) % 256 \in Byte /\ n % 256 \in Byte
           /\ 256 * ((n \div 256) % 256) + (n % 256) = n
  BY DEF Byte

LEMMA RoundTrip64 ==
    ASSUME NEW n \in Nat, fits(64, n), NEW b,
           b = be64(n) \/ \A i \in 1..8 : b[i] = be64(n)[i]
    PROVE  /\ \A i \in 1..8 : be64(n)[i] \in Byte
           /\ from_be64(b) = n
  <1> DEFINE q1 == n \div 256    q2 == q1 \div 256   q3 == q2 \div 256
             q4 == q3 \div 256   q5 == q4 \div 256   q6 == q5 \div 256
             q7 == q6 \div 256
  <1>1. /\ b[1] = q7 % 256 /\ b[2] = q6 % 256 /\ b[3] = q5 % 256 /\ b[4] = q4 % 256
        /\ b[5] = q3 % 256 /\ b[6] = q2 % 256 /\ b[7] = q1 % 256 /\ b[8] = n % 256
        /\ \A i \in 1..8 : be64(n)[i] = b[i]
    BY DEF be64
  <1> HIDE DEF q1, q2, q3, q4, q5, q6, q7
  <1>2. q1 \in Nat /\ n % 256 \in Byte /\ n = 256 * q1 + (n % 256)
    BY Digit DEF q1
  <1>3. q2 \in Nat /\ q1 % 256 \in Byte /\ q1 = 256 * q2 + (q1 % 256)
    BY <1>2, Digit DEF q2
  <1>4. q3 \in Nat /\ q2 % 256 \in Byte /\ q2 = 256 * q3 + (q2 % 256)
    BY <1>3, Digit DEF q3
  <1>5. q4 \in Nat /\ q3 % 256 \in Byte /\ q3 = 256 * q4 + (q3 % 256)
    BY <1>4, Digit DEF q4
  <1>6. q5 \in Nat /\ q4 % 256 \in Byte /\ q4 = 256 * q5 + (q4 % 256)
    BY <1>5, Digit DEF q5
  <1>7. q6 \in Nat /\ q5 % 256 \in Byte /\ q5 = 256 * q6 + (q5 % 256)
    BY <1>6, Digit DEF q6
  <1>8. q7 \in Nat /\ q6 % 256 \in Byte /\ q6 = 256 * q7 + (q6 % 256)
    BY <1>7, Digit DEF q7
  <1>9. PICK c \in Nat : c < 65536 /\ c = (n \div 16777216) \div 16777216
    BY DEF fits
  <1>10. n < 281474976710656 * (c + 1)
    <2>1. PICK a \in Nat : a = n \div 16777216
      OBVIOUS
    <2>2. n < 16777216 * (a + 1)
      BY <2>1
    <2>3. a < 16777216 * (c + 1)
      BY <2>1, <1>9
    <2> QED BY <2>2, <2>3, <1>9
  <1>11. q7 < 256
    BY <1>2, <1>3, <1>4, <1>5, <1>6, <1>7, <1>8, <1>9, <1>10 DEF Byte
  <1>12. q7 % 256 = q7 /\ q7 % 256 \in Byte
    BY <1>8, <1>11 DEF Byte
  <1>13. \A i \in 1..8 : b[i] \in Byte
    BY <1>1, <1>2, <1>3, <1>4, <1>5, <1>6, <1>7, <1>8, <1>12
  <1>14. from_be64(b) = n
    <2> DEFINE v1 == b[1]                v2 == 256 * v1 + b[2]   v3 == 256 * v2 + b[3]
               v4 == 256 * v3 + b[4]    v5 == 256 * v4 + b[5]   v6 == 256 * v5 + b[6]
               v7 == 256 * v6 + b[7]    v8 == 256 * v7 + b[8]
    <2>1. from_be64(b) = v8
      BY DEF from_be64
    <2>2. v1 = q7
      BY <1>1, <1>12
    <2> HIDE DEF v1, v2, v3, v4, v5, v6, v7, v8
    <2>3. v2 = q6
      BY <2>2, <1>1, <1>8, ZenonT(60) DEF v2
    <2>4. v3 = q5
      BY <2>3, <1>1, <1>7, ZenonT(60) DEF v3
    <2>5. v4 = q4
      BY <2>4, <1>1, <1>6, ZenonT(60) DEF v4
    <2>6. v5 = q3
      BY <2>5, <1>1, <1>5, ZenonT(60) DEF v5
    <2>7. v6 = q2
      BY <2>6, <1>1, <1>4, ZenonT(60) DEF v6
    <2>8. v7 = q1
      BY <2>7, <1>1, <1>3, ZenonT(60) DEF v7
    <2>9. v8 = n
      BY <2>8, <1>1, <1>2, ZenonT(60) DEF v8
    <2> QED BY <2>1, <2>9
  <1> QED BY <1>1, <1>13, <1>14

-----------------------------------------------------------------------------
(* Headers: where read_frame finds what the encoders wrote *)

ExtOf(f) == IF f.head[2] % 128 = 126 THEN 2 ELSE IF f.head[2] % 128 = 127 THEN 8 ELSE 0
KeyOf(f) == IF f.head[2] >= 128 THEN 4 ELSE 0
Part(f, k, n) == [i \in 1..n |-> f.head[k + i]]

\* The header of f states the opcode, the length and the key of f, in the places
\* in which read_frame looks for them
Legible(f) ==
    /\ f.op \in Nat /\ f.len \in Nat /\ f.key \in Seq(Byte) /\ f.head \in Seq(Byte)
    /\ Len(f.head) = 2 + ExtOf(f) + KeyOf(f)
    /\ f.op = f.head[1] % 16
    /\ ExtOf(f) = 0 => f.len = f.head[2] % 128
    /\ ExtOf(f) = 2 => f.len = from_be16(Part(f, 2, 2))
    /\ ExtOf(f) = 8 => f.len = from_be64(Part(f, 2, 8))
    /\ f.key = IF KeyOf(f) = 0 THEN << >> ELSE Part(f, 2 + ExtOf(f), 4)

LEMMA Joined ==
    ASSUME NEW S, NEW s \in Seq(S), NEW t \in Seq(S)
    PROVE  /\ s \o t \in Seq(S) /\ Len(s \o t) = Len(s) + Len(t)
           /\ Len(s) \in Nat /\ Len(t) \in Nat
           /\ \A i \in 1..Len(s) : (s \o t)[i] = s[i]
           /\ \A i \in 1..Len(t) : (s \o t)[Len(s) + i] = t[i]
  OBVIOUS

LEMMA HeadFacts ==
    ASSUME NEW first \in Byte, NEW l \in Seq(Byte), NEW key \in Seq(Byte), NEW h,
           h = <<first>> \o l \o key
    PROVE  /\ h \in Seq(Byte) /\ Len(h) = 1 + Len(l) + Len(key)
           /\ h[1] = first
           /\ \A i \in 1..Len(l) : h[1 + i] = l[i]
           /\ \A i \in 1..Len(key) : h[1 + Len(l) + i] = key[i]
  <1> DEFINE s == <<first>> \o l
  <1>1. <<first>> \in Seq(Byte) /\ Len(<<first>>) = 1 /\ <<first>>[1] = first
    OBVIOUS
  <1>2. /\ s \in Seq(Byte) /\ Len(s) = 1 + Len(l) /\ Len(l) \in Nat
        /\ s[1] = first /\ \A i \in 1..Len(l) : s[1 + i] = l[i]
    BY <1>1, Joined
  <1> HIDE DEF s
  <1>3. h = s \o key
    BY DEF s
  <1>4. /\ h \in Seq(Byte) /\ Len(h) = Len(s) + Len(key)
        /\ \A i \in 1..Len(s) : h[i] = s[i]
        /\ \A i \in 1..Len(key) : h[Len(s) + i] = key[i]
    BY <1>2, <1>3, Joined
  <1> QED BY <1>2, <1>4

\* A length behind its first byte is part of the length bytes.
LEMMA LengthBytes ==
    ASSUME NEW x \in Byte, NEW b \in Seq(Byte), NEW l, l = <<x>> \o b
    PROVE  /\ l \in Seq(Byte) /\ Len(l) = 1 + Len(b)
           /\ l[1] = x
           /\ \A i \in 1..Len(b) : l[1 + i] = b[i]
  <1>1. <<x>> \in Seq(Byte) /\ Len(<<x>>) = 1 /\ <<x>>[1] = x
    OBVIOUS
  <1> QED BY <1>1, Joined

\* Every frame an upstream may write is legible.
LEMMA PeerFramesLegible ==
    ASSUME NEW first \in Byte, NEW form \in {8, 16, 64}, NEW key \in Seq(Byte), NEW n \in Nat,
           key = << >> \/ Len(key) = 4, fits(form, n)
    PROVE  Legible(peer_frame(first, form, key, n))
  <1> DEFINE f == peer_frame(first, form, key, n)
             mask == IF key = << >> THEN 0 ELSE 128
             l == IF form = 8 THEN <<mask + n>>
                  ELSE IF form = 16 THEN <<mask + 126>> \o be16(n)
                  ELSE <<mask + 127>> \o be64(n)
  <1>1. /\ f.op = first % 16 /\ f.len = n /\ f.key = key
        /\ f.head = <<first>> \o l \o key
    BY DEF peer_frame
  <1>2. mask \in {0, 128} /\ (mask = 0 => Len(key) = 0 /\ key = << >>)
        /\ (mask = 128 => Len(key) = 4)
    OBVIOUS
  <1> HIDE DEF f, mask
  <1>3. /\ l \in Seq(Byte)
        /\ form = 8 => n \in 0..125 /\ Len(l) = 1 /\ l[1] = mask + n
        /\ form = 16 => /\ n < 65536 /\ Len(l) = 3 /\ l[1] = mask + 126
                        /\ l[2] = (n \div 256) % 256 /\ l[3] = n % 256
        /\ form = 64 => /\ Len(l) = 9 /\ l[1] = mask + 127
                        /\ \A i \in 1..8 : l[1 + i] = be64(n)[i]
    <2>1. CASE form = 8
      <3>1. n \in 0..125
        BY <2>1 DEF fits
      <3>2. mask + n \in Byte
        BY <3>1, <1>2 DEF Byte
      <3> QED BY <2>1, <3>1, <3>2
    <2>2. CASE form = 16
      <3>1. n < 65536
        BY <2>2 DEF fits
      <3>2. be16(n) \in Seq(Byte) /\ Len(be16(n)) = 2
            /\ be16(n)[1] = (n \div 256) % 256 /\ be16(n)[2] = n % 256
        BY <3>1, RoundTrip16 DEF be16
      <3>3. PICK x \in Byte : x = mask + 126
        BY <1>2 DEF Byte
      <3>4. l = <<x>> \o be16(n)
        BY <2>2, <3>3
      <3> HIDE DEF l
      <3>5. /\ l \in Seq(Byte) /\ Len(l) = 3 /\ l[1] = mask + 126
            /\ \A i \in 1..2 : l[1 + i] = be16(n)[i]
        <4>1. PICK b \in Seq(Byte) : b = be16(n) /\ Len(b) = 2
          BY <3>2
        <4>2. /\ l \in Seq(Byte) /\ Len(l) = 1 + Len(b) /\ l[1] = x
              /\ \A i \in 1..Len(b) : l[1 + i] = b[i]
          <5>1. l = <<x>> \o b
            BY <4>1, <3>4, Zenon
          <5> QED BY <5>1, LengthBytes
        <4>3. \A i \in 1..2 : l[1 + i] = b[i]
          BY <4>1, <4>2
        <4> QED BY <4>1, <4>2, <4>3, <3>3
      <3> QED BY <2>2, <3>1, <3>2, <3>5
    <2>3. CASE form = 64
      <3>1. \A i \in 1..8 : be64(n)[i] \in Byte
        BY <2>3, RoundTrip64
      <3>2. be64(n) \in Seq(Byte) /\ Len(be64(n)) = 8
        <4>1. PICK a1, a2, a3, a4, a5, a6, a7, a8 :
                      be64(n) = <<a1, a2, a3, a4, a5, a6, a7, a8>>
          BY DEF be64
        <4>2. /\ a1 \in Byte /\ a2 \in Byte /\ a3 \in Byte /\ a4 \in Byte
              /\ a5 \in Byte /\ a6 \in Byte /\ a7 \in Byte /\ a8 \in Byte
          BY <3>1, <4>1
        <4> QED BY <4>1, <4>2
      <3>3. PICK x \in Byte : x = mask + 127
        BY <1>2 DEF Byte
      <3>4. l = <<x>> \o be64(n)
        BY <2>3, <3>3
      <3> HIDE DEF l
      <3>5. /\ l \in Seq(Byte) /\ Len(l) = 9 /\ l[1] = mask + 127
            /\ \A i \in 1..8 : l[1 + i] = be64(n)[i]
        <4>1. PICK b \in Seq(Byte) : b = be64(n) /\ Len(b) = 8
          BY <3>2
        <4>2. /\ l \in Seq(Byte) /\ Len(l) = 1 + Len(b) /\ l[1] = x
              /\ \A i \in 1..Len(b) : l[1 + i] = b[i]
          <5>1. l = <<x>> \o b
            BY <4>1, <3>4, Zenon
          <5> QED BY <5>1, LengthBytes
        <4>3. \A i \in 1..8 : l[1 + i] = b[i]
          BY <4>1, <4>2
        <4> QED BY <4>1, <4>2, <4>3, <3>3
      <3> QED BY <2>3, <3>5
    <2> QED BY <2>1, <2>2, <2>3
  <1> HIDE DEF l
  <1>4. /\ f.head \in Seq(Byte) /\ Len(f.head) = 1 + Len(l) + Len(key)
        /\ f.head[1] = first
        /\ \A i \in 1..Len(l) : f.head[1 + i] = l[i]
        /\ \A i \in 1..Len(key) : f.head[1 + Len(l) + i] = key[i]
    BY <1>1, <1>3, HeadFacts
  <1>5. f.head[2] = l[1] /\ Len(l) \in Nat
    BY <1>3, <1>4
  <1>6. /\ form = 8 => ExtOf(f) = 0 /\ f.head[2] % 128 = n
        /\ form = 16 => ExtOf(f) = 2
        /\ form = 64 => ExtOf(f) = 8
        /\ KeyOf(f) = Len(key)
    <2> DEFINE v == IF form = 8 THEN n ELSE IF form = 16 THEN 126 ELSE 127
    <2>1. v \in 0..127 /\ f.head[2] = mask + v
      <3>1. CASE form = 8
        BY <3>1, <1>3, <1>5
      <3>2. CASE form = 16
        BY <3>2, <1>3, <1>5
      <3>3. CASE form = 64
        BY <3>3, <1>3, <1>5
      <3> QED BY <3>1, <3>2, <3>3
    <2>2. (form = 8 => v = n /\ n \in 0..125) /\ (form = 16 => v = 126) /\ (form = 64 => v = 127)
      BY <1>3
    <2> HIDE DEF v
    <2>3. f.head[2] % 128 = v /\ (f.head[2] >= 128 <=> mask = 128)
      <3>1. CASE mask = 0
        BY <3>1, <2>1, SMTT(30)
      <3>2. CASE mask = 128
        BY <3>2, <2>1
      <3> QED BY <3>1, <3>2, <1>2
    <2>4. KeyOf(f) = Len(key)
      BY <2>3, <1>2 DEF KeyOf
    <2>5. ExtOf(f) = IF v = 126 THEN 2 ELSE IF v = 127 THEN 8 ELSE 0
      BY <2>3 DEF ExtOf
    <2>6. form = 8 => ExtOf(f) = 0 /\ f.head[2] % 128 = n
      BY <2>2, <2>3, <2>5
    <2> QED BY <2>2, <2>4, <2>5, <2>6
  <1>7. ExtOf(f) = Len(l) - 1 /\ Len(l) \in {1, 3, 9} /\ Len(key) \in {0, 4}
    <2>1. Len(key) \in {0, 4}
      BY <1>2
    <2>2. CASE form = 8
      BY <2>1, <2>2, <1>3, <1>6
    <2>3. CASE form = 16
      BY <2>1, <2>3, <1>3, <1>6
    <2>4. CASE form = 64
      BY <2>1, <2>4, <1>3, <1>6
    <2> QED BY <2>2, <2>3, <2>4
  <1>8. first % 16 \in Nat
    BY DEF Byte
  <1>9. ExtOf(f) = 0 => f.len = f.head[2] % 128
    <2>1. ExtOf(f) = 0 => f.head[2] % 128 = n
      BY <1>6
    <2> QED BY <2>1, <1>1, Zenon
  <1>10. ExtOf(f) = 2 => f.len = from_be16(Part(f, 2, 2))
    <2>1. SUFFICES ASSUME ExtOf(f) = 2 PROVE f.len = from_be16(Part(f, 2, 2))
      OBVIOUS
    <2>2. n < 65536 /\ Len(l) = 3 /\ l[2] = (n \div 256) % 256 /\ l[3] = n % 256
      <3>1. form = 16
        BY <2>1, <1>6
      <3> QED BY <3>1, <1>3
    <2>3. Part(f, 2, 2)[1] = (n \div 256) % 256 /\ Part(f, 2, 2)[2] = n % 256
      BY <2>2, <1>4 DEF Part
    <2>4. 256 * ((n \div 256) % 256) + (n % 256) = n
      BY <2>2, RoundTrip16
    <2> QED BY <2>3, <2>4, <1>1, ZenonT(60) DEF from_be16
  <1>11. ExtOf(f) = 8 => f.len = from_be64(Part(f, 2, 8))
    <2>1. SUFFICES ASSUME ExtOf(f) = 8 PROVE f.len = from_be64(Part(f, 2, 8))
      OBVIOUS
    <2>2. form = 64 /\ Len(l) = 9 /\ \A i \in 1..8 : l[1 + i] = be64(n)[i]
      <3>1. form = 64
        BY <2>1, <1>6
      <3> QED BY <3>1, <1>3
    <2>3. \A i \in 1..8 : Part(f, 2, 8)[i] = be64(n)[i]
      <3>1. ASSUME NEW i \in 1..8 PROVE Part(f, 2, 8)[i] = be64(n)[i]
        <4>1. Part(f, 2, 8)[i] = f.head[2 + i]
          BY DEF Part
        <4>2. PICK j \in 1..9 : j = 1 + i /\ 1 + j = 2 + i
          OBVIOUS
        <4>3. f.head[1 + j] = l[j]
          BY <2>2, <1>4
        <4> QED BY <4>1, <4>2, <4>3, <2>2
      <3> QED BY <3>1
    <2> QED BY <2>2, <2>3, <1>1, RoundTrip64
  <1>12. f.key = IF KeyOf(f) = 0 THEN << >> ELSE Part(f, 2 + ExtOf(f), 4)
    <2>1. CASE mask = 0
      BY <2>1, <1>1, <1>2, <1>6
    <2>2. CASE mask = 128
      <3>1. 2 + ExtOf(f) = 1 + Len(l) /\ KeyOf(f) = 4 /\ Len(key) = 4
        BY <2>2, <1>2, <1>7, <1>6
      <3>2. key = [i \in 1..4 |-> key[i]]
        BY <3>1
      <3>3. \A i \in 1..4 : f.head[(2 + ExtOf(f)) + i] = key[i]
        BY <3>1, <1>4
      <3>4. Part(f, 2 + ExtOf(f), 4) = [i \in 1..4 |-> key[i]]
        BY <3>3 DEF Part
      <3>5. f.key = Part(f, 2 + ExtOf(f), 4)
        BY <3>2, <3>4, <1>1, Zenon
      <3> QED BY <3>1, <3>5
    <2> QED BY <2>1, <2>2, <1>2
  <1>13. Len(f.head) = 2 + ExtOf(f) + KeyOf(f)
    BY <1>4, <1>6, <1>7
  <1> QED
    BY <1>1, <1>4, <1>8, <1>9, <1>10, <1>11, <1>12, <1>13 DEF Legible, f

LEMMA LegibleFields ==
    ASSUME NEW f, NEW g, Legible(g),
           f.op = g.op, f.len = g.len, f.key = g.key, f.head = g.head
    PROVE  Legible(f)
  <1>1. ExtOf(f) = ExtOf(g)
    BY DEF ExtOf
  <1>2. KeyOf(f) = KeyOf(g)
    BY DEF KeyOf
  <1>3. \A k, m : Part(f, k, m) = Part(g, k, m)
    BY DEF Part
  <1> QED BY <1>1, <1>2, <1>3 DEF Legible

\* build_frame_with_opcode writes a header in which read_frame finds the opcode, the
\* length and the key again, for every length a u64 can hold.
THEOREM BuiltFramesLegible ==
    ASSUME NEW op \in 0..15, NEW n \in Nat, fits(64, n)
    PROVE  Legible(build_frame_with_opcode(op, n))
  <1>1. MaskKey \in Seq(Byte) /\ Len(MaskKey) = 4 /\ MaskKey # << >>
    BY DEF MaskKey, Byte
  <1>2. PICK first \in Byte : first = 128 + op /\ first % 16 = op
    BY DEF Byte
  <1>3. PICK form \in {8, 16, 64} :
               /\ n < 126 => form = 8
               /\ n >= 126 /\ n <= 65535 => form = 16
               /\ n > 65535 => form = 64
    OBVIOUS
  <1>4. fits(form, n)
    BY <1>3 DEF fits
  <1> DEFINE f == build_frame_with_opcode(op, n)
             g == peer_frame(first, form, MaskKey, n)
  <1>5. f.op = g.op /\ f.len = g.len /\ f.key = g.key /\ f.head = g.head
    <2> DEFINE mask == IF MaskKey = << >> THEN 0 ELSE 128
               written == IF n < 126 THEN <<128 + n>>
                          ELSE IF n <= 65535 THEN <<254>> \o be16(n) ELSE <<255>> \o be64(n)
               peers == IF form = 8 THEN <<mask + n>>
                        ELSE IF form = 16 THEN <<mask + 126>> \o be16(n)
                        ELSE <<mask + 127>> \o be64(n)
    <2>1. mask = 128 /\ mask + 126 = 254 /\ mask + 127 = 255 /\ mask + n = 128 + n
      <3>1. mask = 128
        BY <1>1
      <3> HIDE DEF mask
      <3> QED BY <3>1
    <2>2. f.op = op /\ f.len = n /\ f.key = MaskKey
      BY DEF build_frame_with_opcode
    <2>3. f.head = <<128 + op>> \o written \o MaskKey
      BY DEF build_frame_with_opcode
    <2>4. g.op = first % 16 /\ g.len = n /\ g.key = MaskKey
      BY DEF peer_frame
    <2>5. g.head = <<first>> \o peers \o MaskKey
      BY DEF peer_frame
    <2>6. written = peers
      <3> HIDE DEF mask
      <3>1. CASE n < 126
        <4>1. form = 8
          BY <3>1, <1>3
        <4>2. written = <<128 + n>> /\ peers = <<mask + n>>
          BY <3>1, <4>1
        <4> HIDE DEF written, peers
        <4> QED BY <4>2, <2>1, Zenon
      <3>2. CASE n >= 126 /\ n <= 65535
        <4>1. form = 16 /\ ~(n < 126)
          BY <3>2, <1>3
        <4>2. written = <<254>> \o be16(n) /\ peers = <<mask + 126>> \o be16(n)
          BY <3>2, <4>1
        <4> HIDE DEF written, peers
        <4> QED BY <4>2, <2>1, Zenon
      <3>3. CASE n > 65535
        <4>1. form = 64 /\ ~(n < 126) /\ ~(n <= 65535)
          BY <3>3, <1>3
        <4>2. written = <<255>> \o be64(n) /\ peers = <<mask + 127>> \o be64(n)
          BY <4>1
        <4> HIDE DEF written, peers
        <4> QED BY <4>2, <2>1, Zenon
      <3> QED BY <3>1, <3>2, <3>3
    <2> HIDE DEF mask, written, peers, f, g
    <2> QED BY <2>2, <2>3, <2>4, <2>5, <2>6, <1>2, ZenonT(60)
  <1>6. Legible(g)
    BY <1>1, <1>4, PeerFramesLegible
  <1> HIDE DEF f, g
  <1>7. Legible(f)
    BY <1>5, <1>6, LegibleFields
  <1> QED BY <1>7 DEF f

LEMMA EncodedLegible ==
    ASSUME NEW f \in Frame, Encoded(f)
    PROVE  Legible(f)
  <1>1. f.len \in Nat /\ f.key \in Seq(Byte)
    BY DEF Frame
  <1>2. CASE \E op \in 0..15 : fits(64, f.len) /\ f = build_frame_with_opcode(op, f.len)
    <2>1. PICK op \in 0..15 : fits(64, f.len) /\ f = build_frame_with_opcode(op, f.len)
      BY <1>2
    <2>2. Legible(build_frame_with_opcode(op, f.len))
      BY <2>1, <1>1, BuiltFramesLegible
    <2> QED BY <2>1, <2>2, Zenon
  <1>3. CASE /\ f.key = << >> \/ Len(f.key) = 4
             /\ \E first \in Byte, form \in {8, 16, 64} :
                   fits(form, f.len) /\ f = peer_frame(first, form, f.key, f.len)
    <2>1. PICK first \in Byte, form \in {8, 16, 64} :
                  fits(form, f.len) /\ f = peer_frame(first, form, f.key, f.len)
      BY <1>3
    <2>2. Legible(peer_frame(first, form, f.key, f.len))
      BY <2>1, <1>1, <1>3, PeerFramesLegible
    <2> QED BY <2>1, <2>2, Zenon
  <1> QED BY <1>2, <1>3 DEF Encoded

-----------------------------------------------------------------------------
(* The inductive invariant *)

Sent == [start : Nat, op : 0..15, len : Nat, key : Seq(Byte), head : Seq(Byte)]

\* The frames follow one another and fill the stream behind the response header
LogInv ==
    /\ log \in Seq(Sent)
    /\ \A i \in 1..Len(log) : Legible(log[i]) /\ log[i].start = Boundary(i - 1)
    /\ \A i, j \in 1..Len(log) : i < j => log[i].start + Size(log[i]) <= log[j].start
    /\ total = Boundary(Len(log))

\* The frame that is being read
Mine == log[Len(got) + 1]

\* read_frame stands in the frame behind the last one returned, at the place pc
\* says, and its locals hold what the header has told so far
PlaceInv ==
    /\ FramesInSync
    /\ pc \in Connecting => outcome = "none" /\ got = << >>
    /\ pc = "hdr" => pos = Boundary(Len(got))
    /\ pc \in {"ext", "mask", "payload"} =>
          /\ Len(got) < Len(log)
          /\ cur.op = Mine.op /\ (cur.masked <=> KeyOf(Mine) = 4)
    /\ pc = "ext" => /\ pos = Mine.start + 2 /\ ExtOf(Mine) # 0
                     /\ cur.len = Mine.head[2] % 128 /\ cur.key = << >>
    /\ pc = "mask" => /\ pos = Mine.start + 2 + ExtOf(Mine) /\ KeyOf(Mine) = 4
                      /\ cur.len = Mine.len
    /\ pc = "payload" => /\ pos = Mine.start + Len(Mine.head)
                         /\ cur.len = Mine.len /\ cur.key = Mine.key

\* A stream that was given up with an error has ended
EndInv ==
    /\ EndsAsCut
    /\ pc = "error" /\ outcome = "ok" => end # "open"

Inv == TypeOK /\ LogInv /\ PlaceInv /\ EndInv

-----------------------------------------------------------------------------
(* What the invariant says of the frame that is being read *)

LEMMA AppendFacts ==
    ASSUME NEW S, NEW q \in Seq(S), NEW x \in S
    PROVE  /\ Append(q, x) \in Seq(S) /\ Len(Append(q, x)) = Len(q) + 1 /\ Len(q) \in Nat
           /\ Append(q, x)[Len(q) + 1] = x
           /\ \A i \in 1..Len(q) : Append(q, x)[i] = q[i]
           /\ DOMAIN q = 1..Len(q) /\ DOMAIN Append(q, x) = 1..(Len(q) + 1)
  OBVIOUS

LEMMA Kinds ==
    ASSUME NEW op
    PROVE  Kind(op) \in {"binary", "ping", "pong", "close", "other"}
  BY Zenon DEF Kind

LEMMA Verdicts ==
    ASSUME NEW r \in Replies
    PROVE  Verdict[r] \in {"ok", "http_404", "http", "handshake"}
  <1> DEFINE response == parse_handshake_response(r)
             verdict == IF r.status = NotANumber \/ response.malformed THEN "handshake"
                        ELSE CASE r.status = 101 -> IF validate_handshake_response(response.field)
                                                    THEN "ok" ELSE "handshake"
                               [] r.status = 404 -> "http_404"
                               [] OTHER -> "http"
  <1>1. Verdict[r] = verdict
    BY Zenon DEF Verdict
  <1> HIDE DEF response
  <1>2. verdict \in {"ok", "http_404", "http", "handshake"}
    BY Zenon
  <1> QED BY <1>1, <1>2, ZenonT(60)

LEMMA ReplyFacts ==
    ASSUME NEW r \in Replies
    PROVE  r.len \in Nat /\ r.len >= 4
  BY WsClientAssumption DEF Reply

LEMMA SizeFacts ==
    ASSUME NEW f, Legible(f)
    PROVE  /\ Size(f) \in Nat /\ Size(f) = Len(f.head) + f.len
           /\ Len(f.head) \in Nat /\ Len(f.head) >= 2 /\ f.len \in Nat
           /\ ExtOf(f) \in {0, 2, 8} /\ KeyOf(f) \in {0, 4}
           /\ Len(f.head) = 2 + ExtOf(f) + KeyOf(f)
  <1>1. ExtOf(f) \in {0, 2, 8} /\ KeyOf(f) \in {0, 4}
    BY DEF ExtOf, KeyOf
  <1>2. Len(f.head) = 2 + ExtOf(f) + KeyOf(f) /\ f.len \in Nat
    BY DEF Legible
  <1> QED BY <1>1, <1>2 DEF Size

LEMMA StateFacts ==
    ASSUME Inv
    PROVE  /\ Len(got) \in Nat /\ Len(log) \in Nat /\ Len(got) <= Len(log)
           /\ DOMAIN got = 1..Len(got) /\ DOMAIN log = 1..Len(log)
           /\ reply.len \in Nat /\ reply.len >= 4
           /\ \A n \in 0..Len(log) : Boundary(n) \in Nat
           /\ total \in Nat /\ avail \in Nat /\ pos \in Nat /\ pos <= avail /\ avail <= total
  <1>1. /\ Len(got) \in Nat /\ Len(log) \in Nat
        /\ DOMAIN got = 1..Len(got) /\ DOMAIN log = 1..Len(log)
    BY DEF Inv, TypeOK, LogInv
  <1>2. Len(got) <= Len(log)
    BY DEF Inv, PlaceInv, FramesInSync
  <1>3. reply.len \in Nat /\ reply.len >= 4
    BY ReplyFacts DEF Inv, TypeOK
  <1>4. ASSUME NEW n \in 0..Len(log) PROVE Boundary(n) \in Nat
    <2>1. CASE n = 0
      BY <2>1, <1>3 DEF Boundary
    <2>2. CASE n # 0
      <3>1. n \in 1..Len(log)
        BY <2>2, <1>1
      <3>2. log[n].start \in Nat
        BY <3>1, <1>1 DEF Inv, TypeOK
      <3>3. Size(log[n]) \in Nat
        BY <3>1, SizeFacts DEF Inv, LogInv
      <3> QED BY <2>2, <3>2, <3>3 DEF Boundary
    <2> QED BY <2>1, <2>2
  <1>5. total \in Nat
    BY <1>1, <1>4 DEF Inv, LogInv
  <1>6. avail \in Nat /\ pos \in Nat /\ pos <= avail /\ avail <= total
    BY <1>5 DEF Inv, TypeOK
  <1> QED BY <1>1, <1>2, <1>3, <1>4, <1>5, <1>6

\* Frames end in the order in which they were sent.
LEMMA BoundariesGrow ==
    ASSUME Inv, NEW n \in 1..Len(log)
    PROVE  /\ log[n].start = Boundary(n - 1) /\ log[n].start + Size(log[n]) = Boundary(n)
           /\ Legible(log[n]) /\ log[n] \in Sent /\ log[n].start \in Nat
           /\ Boundary(n) <= total
  <1>1. Len(log) \in Nat /\ n \in Nat /\ n # 0
    BY StateFacts
  <1>2. log[n].start = Boundary(n - 1) /\ Legible(log[n])
    BY DEF Inv, LogInv
  <1>3. log[n] \in Sent
    BY <1>1 DEF Inv, LogInv
  <1>4. log[n].start \in Nat
    BY <1>3 DEF Sent
  <1>5. log[n].start + Size(log[n]) = Boundary(n)
    BY <1>1 DEF Boundary
  <1>6. Boundary(n) <= total
    <2>1. CASE n = Len(log)
      <3>1. Boundary(n) \in Nat /\ total = Boundary(n)
        BY <2>1, StateFacts DEF Inv, LogInv
      <3> QED BY <3>1
    <2>2. CASE n < Len(log)
      <3> DEFINE m == Len(log)
      <3>1. m \in 1..m /\ m # 0 /\ m \in 0..m
        BY <2>2, <1>1
      <3>2. log[n].start + Size(log[n]) <= log[m].start
        BY <2>2, <3>1 DEF Inv, LogInv
      <3>3. Legible(log[m])
        BY <3>1 DEF Inv, LogInv
      <3>4. Size(log[m]) \in Nat
        BY <3>3, SizeFacts
      <3>5. log[m].start \in Nat
        BY <3>1, StateFacts DEF Inv, TypeOK
      <3>6. total = log[m].start + Size(log[m])
        BY <3>1 DEF Inv, LogInv, Boundary
      <3>7. Boundary(n) <= log[m].start
        BY <3>2, <1>5
      <3>8. Boundary(n) \in Nat
        BY <1>1, StateFacts
      <3> HIDE DEF m
      <3> QED BY <3>4, <3>5, <3>6, <3>7, <3>8
    <2> QED BY <2>1, <2>2, <1>1
  <1> QED BY <1>2, <1>3, <1>4, <1>5, <1>6

\* No two frames share a byte, so a byte of a header is found in its frame.
LEMMA ByteOfHead ==
    ASSUME Inv, NEW i \in 1..Len(log), NEW k \in 1..Len(log[i].head)
    PROVE  ByteAt(log[i].start + k) = log[i].head[k]
  <1> DEFINE p == log[i].start + k
             owners == {j \in DOMAIN log : log[j].start < p /\ p <= log[j].start + Len(log[j].head)}
  <1>1. Len(log) \in Nat /\ DOMAIN log = 1..Len(log) /\ log[i].start \in Nat
    BY StateFacts, BoundariesGrow
  <1>2. Len(log[i].head) \in Nat /\ Len(log[i].head) <= Size(log[i]) /\ Size(log[i]) \in Nat
    BY BoundariesGrow, SizeFacts
  <1>3. i \in owners
    BY <1>1, <1>2
  <1>4. ASSUME NEW j \in owners PROVE j = i
    <2>1. j \in 1..Len(log)
      BY <1>1
    <2>2. log[j].start \in Nat /\ Legible(log[j])
      BY <2>1, BoundariesGrow
    <2>3. Len(log[j].head) \in Nat /\ Size(log[j]) \in Nat /\ Len(log[j].head) <= Size(log[j])
      BY <2>2, SizeFacts, SMTT(30)
    <2>4. log[j].start < p /\ p <= log[j].start + Len(log[j].head)
      OBVIOUS
    <2>5. j < i => log[j].start + Size(log[j]) <= log[i].start
      BY <2>1 DEF Inv, LogInv
    <2>6. i < j => log[i].start + Size(log[i]) <= log[j].start
      BY <2>1 DEF Inv, LogInv
    <2>7. ~(j < i)
      BY <2>2, <2>3, <2>4, <2>5, <1>1, <1>2, SMTT(30)
    <2>8. ~(i < j)
      BY <2>2, <2>3, <2>4, <2>6, <1>1, <1>2, SMTT(30)
    <2> QED BY <2>1, <2>7, <2>8, <1>1
  <1>5. owners = {i}
    BY <1>3, <1>4
  <1>6. (CHOOSE j \in owners : TRUE) = i
    BY <1>5
  <1>7. p - log[i].start = k
    BY <1>1, <1>2
  <1>8. ByteAt(p) = IF owners = {} THEN 0
                    ELSE log[CHOOSE j \in owners : TRUE].head[p - log[CHOOSE j \in owners : TRUE].start]
    BY DEF ByteAt
  <1> HIDE DEF owners
  <1>9. owners # {}
    BY <1>3
  <1>10. ByteAt(p) = log[i].head[p - log[i].start]
    BY <1>6, <1>8, <1>9, Zenon
  <1> QED BY <1>7, <1>10

LEMMA BytesOfHead ==
    ASSUME Inv, NEW i \in 1..Len(log), NEW k \in Nat, NEW n \in Nat,
           pos = log[i].start + k, k + n <= Len(log[i].head)
    PROVE  Bytes(n) = Part(log[i], k, n)
  <1>1. Len(log[i].head) \in Nat /\ log[i].start \in Nat
    BY BoundariesGrow, SizeFacts
  <1>2. ASSUME NEW j \in 1..n PROVE ByteAt(pos + j) = log[i].head[k + j]
    <2>1. k + j \in 1..Len(log[i].head)
      BY <1>1
    <2>2. ByteAt(log[i].start + (k + j)) = log[i].head[k + j]
      BY <2>1, ByteOfHead
    <2>3. log[i].start + (k + j) = pos + j
      BY <1>1
    <2> QED BY <2>2, <2>3
  <1> QED BY <1>2 DEF Bytes, Part

LEMMA MineFacts ==
    ASSUME Inv, Len(got) < Len(log)
    PROVE  /\ Len(got) + 1 \in 1..Len(log) /\ Legible(Mine) /\ Mine.start \in Nat
           /\ Mine.start = Boundary(Len(got))
           /\ Mine.start + Size(Mine) = Boundary(Len(got) + 1)
           /\ Boundary(Len(got) + 1) <= total
           /\ Mine.op \in Nat /\ Mine.key \in Seq(Byte)
  <1> DEFINE n == Len(got) + 1
  <1>1. n \in 1..Len(log) /\ n - 1 = Len(got)
    BY StateFacts
  <1> HIDE DEF n
  <1>2. /\ log[n].start = Boundary(n - 1) /\ log[n].start + Size(log[n]) = Boundary(n)
        /\ Legible(log[n]) /\ log[n].start \in Nat /\ Boundary(n) <= total
    BY <1>1, BoundariesGrow
  <1>3. Mine = log[n]
    BY DEF Mine, n
  <1>4. Mine.op \in Nat /\ Mine.key \in Seq(Byte)
    BY <1>2, <1>3 DEF Legible
  <1> QED BY <1>1, <1>2, <1>3, <1>4 DEF n

\* The next bytes of a header, for read_frame in the middle of it.
LEMMA MineBytes ==
    ASSUME Inv, Len(got) < Len(log), NEW k \in Nat, NEW n \in Nat,
           pos = Mine.start + k, k + n <= Len(Mine.head)
    PROVE  Bytes(n) = Part(Mine, k, n)
  <1>1. PICK i \in 1..Len(log) : i = Len(got) + 1 /\ Mine = log[i]
    BY MineFacts DEF Mine
  <1>2. Bytes(n) = Part(log[i], k, n)
    BY <1>1, BytesOfHead
  <1> QED BY <1>1, <1>2

-----------------------------------------------------------------------------
(* The stream grows at its end *)

LEMMA InitInv == Init => Inv
  <1> SUFFICES ASSUME Init PROVE Inv
    OBVIOUS
  <1>1. reply.len \in Nat
    BY ReplyFacts DEF Init
  <1>2. << >> \in Seq(Sent) /\ Len(<< >>) = 0 /\ DOMAIN << >> = {} /\ 1..0 = {}
    OBVIOUS
  <1>3. TypeOK
    <2>1. NoFrame \in [op : Nat, len : Nat, masked : BOOLEAN, key : Seq(Byte)]
      BY DEF NoFrame
    <2> QED BY <2>1, <1>1, <1>2 DEF Init, TypeOK, Connecting
  <1>4. LogInv
    BY <1>2 DEF Init, LogInv, Boundary
  <1>5. PlaceInv
    BY <1>2 DEF Init, PlaceInv, FramesInSync, Connecting
  <1>6. EndInv
    BY DEF Init, EndInv, EndsAsCut
  <1> QED BY <1>3, <1>4, <1>5, <1>6 DEF Inv

LEMMA SendsLog ==
    ASSUME Inv, NEW f \in Frames, UpstreamSends(f)
    PROVE  /\ LogInv'
           /\ Len(log)' = Len(log) + 1
           /\ \A n \in 0..Len(log) : Boundary(n)' = Boundary(n)
           /\ \A n \in 1..Len(log) : log'[n] = log[n]
           /\ \A i \in DOMAIN log' : log'[i].start \in Nat
           /\ total' \in Nat /\ total <= total'
  <1> DEFINE e == [start |-> total, op |-> f.op, len |-> f.len, key |-> f.key, head |-> f.head]
             m == Len(log)
  <1>1. f \in Frame /\ Legible(f)
    BY WsClientAssumption, EncodedLegible
  <1>2. m \in Nat /\ total \in Nat /\ DOMAIN log = 1..m
    BY StateFacts
  <1>3. /\ e \in Sent /\ e.op = f.op /\ e.len = f.len /\ e.key = f.key /\ e.head = f.head
        /\ e.start = total
    BY <1>1, <1>2 DEF Frame, Sent
  <1>4. log' = Append(log, e) /\ total' = total + Size(f) /\ reply' = reply
    BY DEF UpstreamSends
  <1> HIDE DEF e, m
  <1>5. Legible(e)
    BY <1>1, <1>3, LegibleFields
  <1>6. Size(e) = Size(f) /\ Size(f) \in Nat
    BY <1>1, <1>3, SizeFacts DEF Size
  <1>7. log \in Seq(Sent)
    BY DEF Inv, LogInv
  <1>8. /\ log' \in Seq(Sent) /\ Len(log') = m + 1 /\ log'[m + 1] = e
        /\ \A i \in 1..m : log'[i] = log[i]
        /\ DOMAIN log' = 1..(m + 1)
    BY <1>3, <1>4, <1>7, AppendFacts DEF m
  <1>9. ASSUME NEW n \in 0..m PROVE Boundary(n)' = Boundary(n)
    BY <1>4, <1>8, <1>2 DEF Boundary
  <1>10. Len(log') # 0 /\ total' = log'[Len(log')].start + Size(log'[Len(log')])
    BY <1>2, <1>3, <1>4, <1>6, <1>8
  <1>11. total = Boundary(m)
    BY DEF Inv, LogInv, m
  <1>12. ASSUME NEW i \in 1..(m + 1)
         PROVE  Legible(log'[i]) /\ log'[i].start = Boundary(i - 1)' /\ log'[i].start \in Nat
    <2>1. CASE i \in 1..m
      <3>1. i - 1 \in 0..m
        BY <2>1, <1>2
      <3>2. Legible(log[i]) /\ log[i].start = Boundary(i - 1) /\ log[i].start \in Nat
        BY <2>1, BoundariesGrow DEF m
      <3>3. Boundary(i - 1)' = Boundary(i - 1)
        BY <3>1, <1>9
      <3> QED BY <2>1, <3>2, <3>3, <1>8
    <2>2. CASE i = m + 1
      <3>1. i - 1 = m /\ m \in 0..m
        BY <2>2, <1>2
      <3> QED BY <2>2, <3>1, <1>2, <1>3, <1>5, <1>8, <1>9, <1>11
    <2> QED BY <2>1, <2>2, <1>2
  <1>13. ASSUME NEW i \in 1..(m + 1), NEW j \in 1..(m + 1), i < j
         PROVE  log'[i].start + Size(log'[i]) <= log'[j].start
    <2>1. i \in 1..m
      BY <1>13, <1>2
    <2>2. log'[i] = log[i]
      BY <2>1, <1>8
    <2>3. CASE j \in 1..m
      <3>1. log'[j] = log[j]
        BY <2>3, <1>8
      <3>2. log[i].start + Size(log[i]) <= log[j].start
        BY <2>1, <2>3, <1>13 DEF Inv, LogInv, m
      <3> QED BY <2>2, <3>1, <3>2
    <2>4. CASE j = m + 1
      <3>1. log[i].start + Size(log[i]) <= total
        BY <2>1, BoundariesGrow DEF m
      <3> QED BY <2>2, <2>4, <3>1, <1>3, <1>8
    <2> QED BY <2>3, <2>4, <1>2
  <1>14. LogInv'
    <2>1. (\A i \in 1..Len(log) : Legible(log[i]) /\ log[i].start = Boundary(i - 1))'
      BY <1>8, <1>12
    <2>2. (\A i, j \in 1..Len(log) : i < j => log[i].start + Size(log[i]) <= log[j].start)'
      BY <1>8, <1>13
    <2>3. (total = Boundary(Len(log)))'
      BY <1>10 DEF Boundary
    <2> QED BY <2>1, <2>2, <2>3, <1>8 DEF LogInv
  <1>15. total' \in Nat /\ total <= total'
    BY <1>2, <1>4, <1>6
  <1> QED BY <1>8, <1>9, <1>12, <1>14, <1>15 DEF m

LEMMA NextLog == Inv /\ [Next]_vars => LogInv'
  <1> SUFFICES ASSUME Inv, [Next]_vars PROVE LogInv'
    OBVIOUS
  <1>1. CASE \E f \in Frames : UpstreamSends(f)
    BY <1>1, SendsLog
  <1>2. CASE UNCHANGED <<reply, log, total>>
    <2>1. \A n : Boundary(n)' = Boundary(n)
      BY <1>2 DEF Boundary
    <2> QED BY <1>2, <2>1 DEF Inv, LogInv
  <1>3. (\E f \in Frames : UpstreamSends(f)) \/ UNCHANGED <<reply, log, total>>
    BY DEF Next, ConnectStep, ReadStep, TcpConnected, TlsConnected, ConnectRefused,
           ConnectTimesOut, SendRequest, SendRequestFails, ReadHeaderByte, HeaderOversized,
           HeaderDone, HeaderCut, ReadHdr, ReadExt, ReadMask, ReadPayload, StreamEnds,
           StreamFails, Arrives, UpstreamStops, vars, upstreamVars
  <1> QED BY <1>1, <1>2, <1>3

-----------------------------------------------------------------------------
(* read_frame, one read_exact at a time *)

CurType == [op : Nat, len : Nat, masked : BOOLEAN, key : Seq(Byte)]

\* A read_exact changes nothing of the stream.
LEMMA StreamStays ==
    ASSUME Inv, UNCHANGED <<got, upstreamVars>>
    PROVE  /\ FramesInSync' /\ Mine' = Mine /\ Len(got)' = Len(got) /\ Len(log)' = Len(log)
           /\ Boundary(Len(got))' = Boundary(Len(got))
           /\ \A n : Boundary(n)' = Boundary(n)
  <1>1. got' = got /\ log' = log /\ reply' = reply
    BY DEF upstreamVars
  <1>2. FramesInSync
    BY DEF Inv, PlaceInv
  <1> QED BY <1>1, <1>2 DEF FramesInSync, Mine, Boundary

LEMMA ReadsStayTyped ==
    ASSUME Inv, pc' \in Reading \cup {"closed"}, cur' \in CurType, pos' \in Nat, pos' <= avail,
           got' = got, UNCHANGED <<outcome, upstreamVars>>
    PROVE  TypeOK' /\ EndInv'
  <1>1. TypeOK'
    <2>1. avail \in Nat
      BY StateFacts
    <2> QED BY <2>1 DEF Inv, TypeOK, CurType, upstreamVars
  <1>2. pc' # "eof" /\ pc' # "error"
    BY DEF Reading
  <1> QED BY <1>1, <1>2 DEF EndInv, EndsAsCut

LEMMA HdrStep ==
    ASSUME Inv, ReadHdr
    PROVE  TypeOK' /\ PlaceInv' /\ EndInv'
  <1>1. pc = "hdr" /\ pos = Boundary(Len(got)) /\ pos + 2 <= avail
    BY DEF Inv, PlaceInv, ReadHdr, Ready
  <1>2. Len(got) < Len(log)
    <2>1. Len(got) # Len(log)
      <3>1. SUFFICES ASSUME Len(got) = Len(log) PROVE FALSE
        OBVIOUS
      <3>2. pos = total
        BY <3>1, <1>1 DEF Inv, LogInv
      <3> QED BY <3>2, <1>1, StateFacts
    <2>2. Len(got) \in Nat /\ Len(log) \in Nat /\ Len(got) <= Len(log)
      BY StateFacts
    <2> QED BY <2>1, <2>2
  <1>3. /\ Legible(Mine) /\ Mine.start \in Nat /\ Mine.start = pos
        /\ Mine.op \in Nat /\ Mine.key \in Seq(Byte)
    BY <1>1, <1>2, MineFacts
  <1>4. /\ Len(Mine.head) \in Nat /\ Len(Mine.head) >= 2
        /\ ExtOf(Mine) \in {0, 2, 8} /\ KeyOf(Mine) \in {0, 4}
        /\ Len(Mine.head) = 2 + ExtOf(Mine) + KeyOf(Mine)
    BY <1>3, SizeFacts
  <1>5. Bytes(2) = Part(Mine, 0, 2)
    <2>1. pos = Mine.start + 0 /\ 0 + 2 <= Len(Mine.head) /\ 0 \in Nat /\ 2 \in Nat
      BY <1>3, <1>4
    <2> QED BY <2>1, <1>2, MineBytes
  <1>6. Bytes(2)[1] = Mine.head[1] /\ Bytes(2)[2] = Mine.head[2]
    BY <1>5 DEF Part
  <1>7. Mine.head[1] \in 0..255 /\ Mine.head[2] \in 0..255
    <2>1. Mine.head \in Seq(Byte)
      BY <1>3 DEF Legible
    <2>2. 1 \in 1..Len(Mine.head) /\ 2 \in 1..Len(Mine.head)
      BY <1>4
    <2>3. Mine.head[1] \in Byte /\ Mine.head[2] \in Byte
      BY <2>1, <2>2
    <2> QED BY <2>3 DEF Byte
  <1>8. /\ opcode(Bytes(2)) = Mine.op
        /\ len7(Bytes(2)) = Mine.head[2] % 128 /\ Mine.head[2] % 128 \in Nat
        /\ masked(Bytes(2)) = (Mine.head[2] >= 128)
        /\ (Mine.head[2] >= 128) = (KeyOf(Mine) = 4)
    <2>1. opcode(Bytes(2)) = Mine.op
      BY <1>3, <1>6 DEF opcode, Legible
    <2>2. len7(Bytes(2)) = Mine.head[2] % 128 /\ Mine.head[2] % 128 \in Nat
      BY <1>6, <1>7 DEF len7
    <2>3. masked(Bytes(2)) = (Mine.head[2] >= 128)
      BY <1>6 DEF masked
    <2>4. (Mine.head[2] >= 128) = (KeyOf(Mine) = 4)
      BY DEF KeyOf
    <2> QED BY <2>1, <2>2, <2>3, <2>4
  <1>9. PICK c : c = cur' /\ c = [op |-> opcode(Bytes(2)), len |-> len7(Bytes(2)),
                                  masked |-> masked(Bytes(2)), key |-> << >>]
    BY DEF ReadHdr
  <1>10. /\ c.op = Mine.op /\ c.len = Mine.head[2] % 128 /\ c.key = << >>
         /\ c.masked = (KeyOf(Mine) = 4) /\ c \in CurType
    <2>1. c.op = Mine.op /\ c.len = Mine.head[2] % 128 /\ c.key = << >>
          /\ c.masked = (KeyOf(Mine) = 4)
      BY <1>8, <1>9
    <2>2. opcode(Bytes(2)) \in Nat /\ len7(Bytes(2)) \in Nat /\ << >> \in Seq(Byte)
      BY <1>3, <1>8
    <2>3. masked(Bytes(2)) \in BOOLEAN
      BY DEF masked
    <2> QED BY <2>1, <2>2, <2>3, <1>9 DEF CurType
  <1>11. pc' = IF c.len \in {126, 127} THEN "ext" ELSE IF c.masked THEN "mask" ELSE "payload"
    BY <1>9 DEF ReadHdr, AfterLength
  <1>12. pos' = pos + 2 /\ got' = got /\ UNCHANGED <<outcome, upstreamVars>>
    BY DEF ReadHdr
  <1>13. c.len \in {126, 127} <=> ExtOf(Mine) # 0
    BY <1>10 DEF ExtOf
  <1>14. TypeOK' /\ EndInv'
    <2>1. pc' \in Reading
      BY <1>11 DEF Reading
    <2>2. pos' \in Nat /\ pos' <= avail
      BY <1>1, <1>12, StateFacts
    <2> QED BY <2>1, <2>2, <1>9, <1>10, <1>12, ReadsStayTyped
  <1>15. PlaceInv'
    <2>1. /\ FramesInSync' /\ Mine' = Mine /\ Len(got)' = Len(got) /\ Len(log)' = Len(log)
      BY <1>12, StreamStays
    <2>2. pc' \notin Connecting /\ pc' # "hdr"
      BY <1>11 DEF Connecting
    <2>3. pc' = "ext" => ExtOf(Mine) # 0
      BY <1>11, <1>13
    <2>4. pc' = "mask" => ExtOf(Mine) = 0 /\ KeyOf(Mine) = 4
      BY <1>10, <1>11, <1>13
    <2>5. pc' = "payload" => ExtOf(Mine) = 0 /\ KeyOf(Mine) = 0
      BY <1>4, <1>10, <1>11, <1>13
    <2>6. ExtOf(Mine) = 0 => Mine.len = Mine.head[2] % 128
      BY <1>3 DEF Legible
    <2>7. KeyOf(Mine) = 0 => Mine.key = << >>
      BY <1>3 DEF Legible
    <2>8. pos' = Mine.start + 2
      BY <1>3, <1>12
    <2>9. pc' = "ext" => /\ pos' = Mine.start + 2 /\ ExtOf(Mine) # 0
                         /\ cur'.len = Mine.head[2] % 128 /\ cur'.key = << >>
      BY <2>3, <2>8, <1>9, <1>10
    <2>10. pc' = "mask" => /\ pos' = Mine.start + 2 + ExtOf(Mine) /\ KeyOf(Mine) = 4
                           /\ cur'.len = Mine.len
      BY <2>4, <2>6, <2>8, <1>3, <1>9, <1>10
    <2>11. pc' = "payload" => /\ pos' = Mine.start + Len(Mine.head)
                              /\ cur'.len = Mine.len /\ cur'.key = Mine.key
      BY <2>5, <2>6, <2>7, <2>8, <1>4, <1>9, <1>10
    <2>12. /\ Len(got) < Len(log) /\ cur'.op = Mine.op
           /\ cur'.masked <=> KeyOf(Mine) = 4
      BY <1>2, <1>9, <1>10
    <2> QED BY <2>1, <2>2, <2>9, <2>10, <2>11, <2>12 DEF PlaceInv
  <1> QED BY <1>14, <1>15

LEMMA ExtStep ==
    ASSUME Inv, ReadExt
    PROVE  TypeOK' /\ PlaceInv' /\ EndInv'
  <1>1. /\ pc = "ext" /\ Len(got) < Len(log) /\ pos = Mine.start + 2 /\ ExtOf(Mine) # 0
        /\ cur.op = Mine.op /\ (cur.masked <=> KeyOf(Mine) = 4)
        /\ cur.len = Mine.head[2] % 128 /\ cur.key = << >> /\ cur \in CurType
    BY DEF Inv, PlaceInv, TypeOK, ReadExt, CurType
  <1>2. Legible(Mine) /\ Mine.start \in Nat
    BY <1>1, MineFacts
  <1>3. /\ Len(Mine.head) \in Nat /\ Mine.len \in Nat
        /\ ExtOf(Mine) \in {0, 2, 8} /\ KeyOf(Mine) \in {0, 4}
        /\ Len(Mine.head) = 2 + ExtOf(Mine) + KeyOf(Mine)
    BY <1>2, SizeFacts
  <1>4. /\ ExtSize(cur) = ExtOf(Mine) /\ (cur.len = 126 <=> ExtOf(Mine) = 2)
        /\ ExtOf(Mine) \in {2, 8}
    BY <1>1 DEF ExtOf, ExtSize
  <1>5. Bytes(ExtOf(Mine)) = Part(Mine, 2, ExtOf(Mine))
    <2>1. ExtOf(Mine) \in Nat /\ 2 \in Nat /\ 2 + ExtOf(Mine) <= Len(Mine.head)
      BY <1>3
    <2> QED BY <2>1, <1>1, MineBytes
  <1>6. (IF cur.len = 126 THEN from_be16(Bytes(2)) ELSE from_be64(Bytes(8))) = Mine.len
    <2>1. CASE ExtOf(Mine) = 2
      BY <2>1, <1>2, <1>4, <1>5 DEF Legible
    <2>2. CASE ExtOf(Mine) = 8
      BY <2>2, <1>2, <1>4, <1>5 DEF Legible
    <2> QED BY <2>1, <2>2, <1>4
  <1>7. PICK c : c = cur' /\ c = [cur EXCEPT !.len = Mine.len]
    BY <1>6 DEF ReadExt
  <1>8. /\ c.op = Mine.op /\ c.len = Mine.len /\ c.key = << >>
        /\ (c.masked <=> KeyOf(Mine) = 4) /\ c \in CurType
    BY <1>1, <1>3, <1>7 DEF CurType
  <1>9. pc' = IF cur.masked THEN "mask" ELSE "payload"
    BY DEF ReadExt, AfterLength
  <1>10. /\ pos' = pos + ExtOf(Mine) /\ pos + ExtOf(Mine) <= avail
         /\ got' = got /\ UNCHANGED <<outcome, upstreamVars>>
    BY <1>4 DEF ReadExt, Ready
  <1>11. TypeOK' /\ EndInv'
    <2>1. pc' \in Reading
      BY <1>9 DEF Reading
    <2>2. pos' \in Nat /\ pos' <= avail
      BY <1>3, <1>10, StateFacts, SMTT(30)
    <2> QED BY <2>1, <2>2, <1>7, <1>8, <1>10, ReadsStayTyped
  <1>12. PlaceInv'
    <2>1. /\ FramesInSync' /\ Mine' = Mine /\ Len(got)' = Len(got) /\ Len(log)' = Len(log)
      BY <1>10, StreamStays
    <2>2. pc' \notin Connecting /\ pc' # "hdr" /\ pc' # "ext"
      BY <1>9 DEF Connecting
    <2>3. pos' = Mine.start + 2 + ExtOf(Mine)
      BY <1>1, <1>2, <1>3, <1>10
    <2>4. pc' = "mask" => /\ pos' = Mine.start + 2 + ExtOf(Mine) /\ KeyOf(Mine) = 4
                          /\ cur'.len = Mine.len
      BY <2>3, <1>1, <1>7, <1>8, <1>9
    <2>5. pc' = "payload" => KeyOf(Mine) = 0
      BY <1>1, <1>3, <1>9
    <2>6. KeyOf(Mine) = 0 => Mine.key = << >>
      BY <1>2 DEF Legible
    <2>7. pc' = "payload" => /\ pos' = Mine.start + Len(Mine.head)
                             /\ cur'.len = Mine.len /\ cur'.key = Mine.key
      BY <2>3, <2>5, <2>6, <1>2, <1>3, <1>7, <1>8
    <2>8. Len(got) < Len(log) /\ cur'.op = Mine.op /\ (cur'.masked <=> KeyOf(Mine) = 4)
      BY <1>1, <1>7, <1>8
    <2> QED BY <2>1, <2>2, <2>4, <2>7, <2>8 DEF PlaceInv
  <1> QED BY <1>11, <1>12

LEMMA MaskStep ==
    ASSUME Inv, ReadMask
    PROVE  TypeOK' /\ PlaceInv' /\ EndInv'
  <1>1. /\ pc = "mask" /\ Len(got) < Len(log) /\ pos = Mine.start + 2 + ExtOf(Mine)
        /\ cur.op = Mine.op /\ (cur.masked <=> KeyOf(Mine) = 4) /\ KeyOf(Mine) = 4
        /\ cur.len = Mine.len /\ cur \in CurType
    BY DEF Inv, PlaceInv, TypeOK, ReadMask, CurType
  <1>2. Legible(Mine) /\ Mine.start \in Nat /\ Mine.key \in Seq(Byte)
    BY <1>1, MineFacts
  <1>3. /\ Len(Mine.head) \in Nat
        /\ ExtOf(Mine) \in {0, 2, 8}
        /\ Len(Mine.head) = 2 + ExtOf(Mine) + 4
    BY <1>1, <1>2, SizeFacts
  <1>4. Bytes(4) = Mine.key
    <2>1. PICK k \in Nat : k = 2 + ExtOf(Mine) /\ pos = Mine.start + k /\ k + 4 <= Len(Mine.head)
      <3>1. PICK x \in Nat : x = ExtOf(Mine)
        BY <1>3
      <3>2. pos = Mine.start + 2 + x /\ Len(Mine.head) = 2 + x + 4
        BY <3>1, <1>1, <1>3
      <3>3. pos = Mine.start + (2 + x) /\ (2 + x) + 4 <= Len(Mine.head)
        BY <3>2, <1>2
      <3> QED BY <3>1, <3>3
    <2>2. Bytes(4) = Part(Mine, k, 4)
      BY <2>1, <1>1, MineBytes
    <2>3. Mine.key = Part(Mine, 2 + ExtOf(Mine), 4)
      BY <1>1, <1>2 DEF Legible
    <2> QED BY <2>1, <2>2, <2>3
  <1>5. PICK c : c = cur' /\ c = [cur EXCEPT !.key = Mine.key]
    BY <1>4 DEF ReadMask
  <1>6. /\ c.op = Mine.op /\ c.len = Mine.len /\ c.key = Mine.key
        /\ (c.masked <=> KeyOf(Mine) = 4) /\ c \in CurType
    BY <1>1, <1>2, <1>5 DEF CurType
  <1>7. /\ pc' = "payload" /\ pos' = pos + 4 /\ pos + 4 <= avail
        /\ got' = got /\ UNCHANGED <<outcome, upstreamVars>>
    BY DEF ReadMask, Ready
  <1>8. TypeOK' /\ EndInv'
    <2>1. pc' \in Reading
      BY <1>7 DEF Reading
    <2>2. pos' \in Nat /\ pos' <= avail
      BY <1>7, StateFacts
    <2> QED BY <2>1, <2>2, <1>5, <1>6, <1>7, ReadsStayTyped
  <1>9. PlaceInv'
    <2>1. /\ FramesInSync' /\ Mine' = Mine /\ Len(got)' = Len(got) /\ Len(log)' = Len(log)
      BY <1>7, StreamStays
    <2>2. pos' = Mine.start + Len(Mine.head)
      <3>1. PICK x \in Nat : x = ExtOf(Mine)
        BY <1>3
      <3>2. pos = Mine.start + 2 + x /\ Len(Mine.head) = 2 + x + 4
        BY <3>1, <1>1, <1>3
      <3>3. PICK a \in Nat, b \in Nat : a = Mine.start /\ b = Len(Mine.head)
        BY <1>2, <1>3
      <3>4. pos = a + 2 + x /\ b = 2 + x + 4
        BY <3>2, <3>3, Zenon
      <3>5. pos' = pos + 4
        BY <1>7, Zenon
      <3>6. pos' = a + b
        BY <3>4, <3>5
      <3> QED BY <3>3, <3>6
    <2>3. /\ Len(got) < Len(log) /\ cur'.op = Mine.op /\ (cur'.masked <=> KeyOf(Mine) = 4)
          /\ cur'.len = Mine.len /\ cur'.key = Mine.key
      BY <1>1, <1>5, <1>6
    <2> QED BY <2>1, <2>2, <2>3, <1>7 DEF PlaceInv, Connecting
  <1> QED BY <1>8, <1>9

GotType == [kind : {"binary", "ping", "pong", "close", "other"},
            from : Nat, len : Nat, key : Seq(Byte)]

LEMMA PayloadStep ==
    ASSUME Inv, ReadPayload
    PROVE  TypeOK' /\ PlaceInv' /\ EndInv'
  <1> DEFINE n == Len(got)
             r == [kind |-> Kind(cur.op), from |-> pos, len |-> cur.len, key |-> cur.key]
  <1>1. /\ pc = "payload" /\ n < Len(log) /\ pos = Mine.start + Len(Mine.head)
        /\ cur.op = Mine.op /\ cur.len = Mine.len /\ cur.key = Mine.key /\ cur \in CurType
    BY DEF Inv, PlaceInv, TypeOK, ReadPayload, CurType
  <1>2. /\ Legible(Mine) /\ Mine.start \in Nat /\ n + 1 \in 1..Len(log)
        /\ Mine.start + Size(Mine) = Boundary(n + 1)
    BY <1>1, MineFacts
  <1>3. Len(Mine.head) \in Nat /\ Mine.len \in Nat /\ Size(Mine) = Len(Mine.head) + Mine.len
    BY <1>2, SizeFacts
  <1>4. got \in Seq(GotType) /\ n \in Nat
    BY StateFacts DEF Inv, TypeOK, GotType
  <1>5. r \in GotType
    BY <1>1, StateFacts, Kinds DEF GotType, CurType
  <1>6. /\ got' = Append(got, r) /\ pos' = pos + cur.len /\ pos + cur.len <= avail
        /\ pc' = (IF Kind(cur.op) \in {"close", "other"} THEN "closed" ELSE "hdr")
        /\ cur' = cur /\ UNCHANGED <<outcome, upstreamVars>>
    BY DEF ReadPayload, Ready
  <1>7. r = [kind |-> Kind(Mine.op), from |-> Mine.start + Len(Mine.head),
             len |-> Mine.len, key |-> Mine.key]
    BY <1>1
  <1> HIDE DEF r, n
  <1>8. /\ got' \in Seq(GotType) /\ Len(got') = n + 1 /\ got'[n + 1] = r
        /\ \A i \in 1..n : got'[i] = got[i]
        /\ DOMAIN got' = 1..(n + 1) /\ DOMAIN got = 1..n
    BY <1>4, <1>5, <1>6, AppendFacts DEF n
  <1>9. pc' \in {"closed", "hdr"}
    BY <1>6
  <1>10. log' = log /\ reply' = reply
    BY <1>6 DEF upstreamVars
  <1>11. TypeOK' /\ EndInv'
    <2>1. pos' \in Nat /\ pos' <= avail
      BY <1>1, <1>3, <1>6, StateFacts, SMTT(30)
    <2>2. avail \in Nat
      BY StateFacts
    <2>3. TypeOK'
      BY <2>1, <2>2, <1>1, <1>6, <1>8, <1>9
         DEF Inv, TypeOK, CurType, GotType, upstreamVars, Reading
    <2> QED BY <2>3, <1>9 DEF EndInv, EndsAsCut
  <1>12. FramesInSync'
    <2>1. Len(got') <= Len(log')
      BY <1>2, <1>8, <1>10, StateFacts
    <2>2. ASSUME NEW i \in 1..(n + 1)
          PROVE  got'[i] = [kind |-> Kind(log[i].op), from |-> log[i].start + Len(log[i].head),
                            len |-> log[i].len, key |-> log[i].key]
      <3>1. CASE i \in 1..n
        <4>1. got[i] = [kind |-> Kind(log[i].op), from |-> log[i].start + Len(log[i].head),
                        len |-> log[i].len, key |-> log[i].key]
          BY <3>1, <1>8 DEF Inv, PlaceInv, FramesInSync
        <4>2. got'[i] = got[i]
          BY <3>1, <1>8
        <4> QED BY <4>1, <4>2, Zenon
      <3>2. CASE i = n + 1
        <4>1. Mine = log[i]
          BY <3>2 DEF Mine, n
        <4>2. got'[i] = r
          BY <3>2, <1>8
        <4> QED BY <4>1, <4>2, <1>7, Zenon
      <3> QED BY <3>1, <3>2, <1>4
    <2> QED BY <2>1, <2>2, <1>8, <1>10 DEF FramesInSync
  <1>13. pos' = Boundary(Len(got))'
    <2>1. pos' = Boundary(n + 1)
      BY <1>1, <1>2, <1>3, <1>6
    <2>2. Boundary(n + 1) = log[n + 1].start + Size(log[n + 1])
      BY <1>4 DEF Boundary
    <2>3. Len(got') # 0
      BY <1>4, <1>8
    <2>4. Boundary(Len(got))' = log'[n + 1].start + Size(log'[n + 1])
      BY <2>3, <1>8 DEF Boundary
    <2> QED BY <2>1, <2>2, <2>4, <1>10
  <1> QED BY <1>9, <1>11, <1>12, <1>13 DEF PlaceInv, Connecting

LEMMA NeededFacts ==
    /\ pc = "hdr" => Needed = 2
    /\ pc = "ext" => Needed = ExtSize(cur)
    /\ pc = "mask" => Needed = 4
    /\ pc = "payload" => Needed = cur.len
  BY Zenon DEF Needed

\* In the middle of a frame, more is needed than has arrived only if the frame is
\* not there to its end.
LEMMA CutInside ==
    ASSUME Inv, pc \in {"ext", "mask", "payload"}, ~Ready(Needed)
    PROVE  /\ Len(got) < Len(log)
           /\ Boundary(Len(got)) + 2 <= avail /\ avail < Boundary(Len(got) + 1)
  <1>1. Len(got) < Len(log)
    BY DEF Inv, PlaceInv
  <1>2. PICK a \in Nat, h \in Nat, l \in Nat, x \in {0, 2, 8}, k \in {0, 4} :
               /\ a = Mine.start /\ h = Len(Mine.head) /\ l = Mine.len
               /\ x = ExtOf(Mine) /\ k = KeyOf(Mine) /\ h = 2 + x + k
               /\ a = Boundary(Len(got)) /\ a + (h + l) = Boundary(Len(got) + 1)
    <2>1. /\ Legible(Mine) /\ Mine.start \in Nat /\ Mine.start = Boundary(Len(got))
          /\ Mine.start + Size(Mine) = Boundary(Len(got) + 1)
      BY <1>1, MineFacts
    <2>2. /\ Size(Mine) = Len(Mine.head) + Mine.len /\ Len(Mine.head) \in Nat /\ Mine.len \in Nat
          /\ ExtOf(Mine) \in {0, 2, 8} /\ KeyOf(Mine) \in {0, 4}
          /\ Len(Mine.head) = 2 + ExtOf(Mine) + KeyOf(Mine)
      BY <2>1, SizeFacts
    <2> QED BY <2>1, <2>2
  <1>3. x \in Nat /\ k \in Nat
    OBVIOUS
  <1>4. h = 2 + x + k
    BY <1>2, Zenon
  <1>5. PICK w : w = Needed /\ ~(pos + w <= avail)
    BY DEF Ready
  <1>6. pos \in Nat /\ avail \in Nat /\ pos <= avail
    BY StateFacts
  <1>7. a + 2 <= pos /\ w \in Nat /\ pos + w <= a + (h + l)
    <2>1. CASE pc = "ext"
      <3>1. /\ pos = Mine.start + 2 /\ ExtOf(Mine) # 0
            /\ cur.len = Mine.head[2] % 128
        BY <2>1 DEF Inv, PlaceInv
      <3>2. ExtSize(cur) = ExtOf(Mine)
        BY <3>1 DEF ExtSize, ExtOf
      <3>3. w = x /\ pos = a + 2
        BY <2>1, <3>1, <3>2, <1>2, <1>5, NeededFacts
      <3> QED BY <3>3, <1>3, <1>4
    <2>2. CASE pc = "mask"
      <3>1. pos = Mine.start + 2 + ExtOf(Mine) /\ KeyOf(Mine) = 4
        BY <2>2 DEF Inv, PlaceInv
      <3>2. w = 4 /\ pos = a + 2 + x /\ k = 4
        BY <2>2, <3>1, <1>2, <1>5, NeededFacts
      <3> QED BY <3>2, <1>3, <1>4
    <2>3. CASE pc = "payload"
      <3>1. pos = Mine.start + Len(Mine.head) /\ cur.len = Mine.len
        BY <2>3 DEF Inv, PlaceInv
      <3>2. w = l /\ pos = a + h
        BY <2>3, <3>1, <1>2, <1>5, NeededFacts
      <3> QED BY <3>2, <1>3, <1>4
    <2> QED BY <2>1, <2>2, <2>3
  <1>8. a + 2 <= avail /\ avail < a + (h + l)
    BY <1>5, <1>6, <1>7
  <1> QED BY <1>1, <1>2, <1>8

LEMMA EndSteps ==
    ASSUME Inv, StreamEnds \/ StreamFails
    PROVE  TypeOK' /\ PlaceInv' /\ EndInv'
  <1>1. /\ pc \in Reading /\ pc' \in {"eof", "error"} /\ end' = end /\ avail' = avail
        /\ UNCHANGED <<outcome, pos, cur, got, upstreamVars>>
    BY DEF StreamEnds, StreamFails, upstreamVars
  <1>2. TypeOK'
    BY <1>1 DEF Inv, TypeOK, upstreamVars
  <1>3. /\ FramesInSync' /\ Len(got)' = Len(got) /\ Len(log)' = Len(log)
        /\ Boundary(Len(got))' = Boundary(Len(got))
        /\ \A n : Boundary(n)' = Boundary(n)
    BY <1>1, StreamStays
  <1>4. PlaceInv'
    BY <1>1, <1>3 DEF PlaceInv, Connecting
  <1>5. CASE StreamFails
    BY <1>1, <1>2, <1>4, <1>5 DEF StreamFails, EndInv, EndsAsCut
  <1>6. CASE StreamEnds
    <2>1. end = "fin" /\ ~Ready(Needed) /\ pc' = IF pc = "hdr" THEN "eof" ELSE "error"
      BY <1>6 DEF StreamEnds
    <2>2. pc' = "eof" => avail' <= Boundary(Len(got))' + 1
      <3>1. SUFFICES ASSUME pc' = "eof" PROVE avail' <= Boundary(Len(got))' + 1
        OBVIOUS
      <3>2. pc = "hdr"
        BY <3>1, <2>1
      <3>3. Needed = 2 /\ pos = Boundary(Len(got))
        BY <3>2, NeededFacts DEF Inv, PlaceInv
      <3>4. ~(pos + 2 <= avail)
        BY <2>1, <3>3 DEF Ready
      <3>5. avail <= Boundary(Len(got)) + 1
        BY <3>3, <3>4, StateFacts
      <3> QED BY <3>5, <1>1, <1>3
    <2>3. pc' = "error" => /\ Len(got)' < Len(log)'
                           /\ Boundary(Len(got))' + 2 <= avail' /\ avail' < Boundary(Len(got) + 1)'
      <3>1. SUFFICES ASSUME pc' = "error"
                     PROVE  /\ Len(got)' < Len(log)'
                            /\ Boundary(Len(got))' + 2 <= avail' /\ avail' < Boundary(Len(got) + 1)'
        OBVIOUS
      <3>2. pc \in {"ext", "mask", "payload"}
        BY <3>1, <2>1, <1>1 DEF Reading
      <3>3. /\ Len(got) < Len(log)
            /\ Boundary(Len(got)) + 2 <= avail /\ avail < Boundary(Len(got) + 1)
        BY <3>2, <2>1, CutInside
      <3>4. Boundary(Len(got) + 1)' = Boundary(Len(got) + 1)
        BY <1>1 DEF upstreamVars, Boundary
      <3> QED BY <3>3, <3>4, <1>1, <1>3
    <2>4. EndInv'
      BY <2>1, <2>2, <2>3, <1>1 DEF EndInv, EndsAsCut
    <2> QED BY <2>4, <1>2, <1>4
  <1> QED BY <1>5, <1>6

-----------------------------------------------------------------------------
(* connect, and the upstream *)

LEMMA ConnectSteps ==
    ASSUME Inv, TcpConnected \/ TlsConnected \/ ConnectRefused \/ ConnectStep
    PROVE  TypeOK' /\ PlaceInv' /\ EndInv'
  <1>1. pc \in Connecting /\ got' = got /\ cur' = cur /\ UNCHANGED upstreamVars
    BY DEF TcpConnected, TlsConnected, ConnectRefused, ConnectStep, ConnectTimesOut, SendRequest,
           SendRequestFails, ReadHeaderByte, HeaderOversized, HeaderDone, HeaderCut, Connecting
  <1>2. outcome = "none" /\ got = << >> /\ Len(got) = 0
    BY <1>1 DEF Inv, PlaceInv
  <1>3. \/ pc' \in Connecting /\ outcome' = outcome
        \/ pc' = "error" /\ outcome' \in {"io", "tls", "timeout", "handshake", "http", "http_404"}
        \/ pc' = "hdr" /\ outcome' = "ok" /\ pos' = reply.len
    <2>1. CASE TcpConnected \/ TlsConnected \/ SendRequest \/ ReadHeaderByte
      BY <2>1, <1>1 DEF TcpConnected, TlsConnected, SendRequest, ReadHeaderByte, Connecting
    <2>2. CASE ConnectRefused \/ ConnectTimesOut \/ SendRequestFails \/ HeaderOversized \/ HeaderCut
      BY <2>2 DEF ConnectRefused, ConnectTimesOut, SendRequestFails, HeaderOversized, HeaderCut, Fail
    <2>3. CASE HeaderDone
      <3>1. outcome' \in {"ok", "http_404", "http", "handshake"}
        <4>1. reply \in Replies /\ outcome' = Verdict[reply]
          BY <2>3 DEF HeaderDone, Inv, TypeOK
        <4> QED BY <4>1, Verdicts
      <3>2. pos' = reply.len
        BY <2>3 DEF HeaderDone
      <3>3. pc' = IF outcome' = "ok" THEN "hdr" ELSE "error"
        BY <2>3 DEF HeaderDone
      <3> QED BY <3>1, <3>2, <3>3
    <2> QED BY <2>1, <2>2, <2>3 DEF ConnectStep
  <1>4. pos' \in Nat /\ pos' <= avail
    <2>1. pos' = pos \/ (pos' = pos + 1 /\ pos < avail)
      BY DEF TcpConnected, TlsConnected, ConnectRefused, ConnectStep, ConnectTimesOut, SendRequest,
             SendRequestFails, ReadHeaderByte, HeaderOversized, HeaderDone, HeaderCut
    <2> QED BY <2>1, StateFacts
  <1>5. TypeOK'
    <2>1. pc' \in Connecting \cup Reading \cup {"closed", "eof", "error"}
          /\ outcome' \in {"none", "ok", "http_404", "http", "handshake", "timeout", "io", "tls"}
      BY <1>2, <1>3 DEF Reading
    <2>2. avail \in Nat
      BY StateFacts
    <2> QED BY <2>1, <2>2, <1>1, <1>4 DEF Inv, TypeOK, upstreamVars
  <1>6. FramesInSync' /\ Len(got)' = 0
    BY <1>1, <1>2, StreamStays
  <1>7. Boundary(Len(got))' = reply.len
    BY <1>1, <1>6 DEF Boundary, upstreamVars
  <1>8. PlaceInv'
    BY <1>1, <1>2, <1>3, <1>6, <1>7 DEF PlaceInv, Connecting
  <1>9. EndInv'
    BY <1>2, <1>3 DEF EndInv, EndsAsCut, Connecting
  <1> QED BY <1>5, <1>8, <1>9

LEMMA UpstreamSteps ==
    ASSUME Inv, (\E f \in Frames : UpstreamSends(f)) \/ Arrives \/ UpstreamStops
    PROVE  TypeOK' /\ PlaceInv' /\ EndInv'
  <1>1. end = "open" /\ UNCHANGED <<pc, outcome, pos, cur, got, reply>>
    BY DEF UpstreamSends, Arrives, UpstreamStops, readVars
  <1>2. pc # "eof" /\ ~(pc = "error" /\ outcome = "ok")
    BY <1>1 DEF Inv, EndInv, EndsAsCut
  <1>3. EndInv'
    BY <1>1, <1>2 DEF EndInv, EndsAsCut
  <1>4. CASE Arrives \/ UpstreamStops
    <2>1. log' = log /\ total' = total /\ end' \in {"open", "fin", "reset"}
      BY <1>4 DEF Arrives, UpstreamStops
    <2>2. avail' \in Nat /\ avail <= avail' /\ avail' <= total
      <3>1. CASE Arrives
        <4>1. avail < total /\ (avail' = avail + 1 \/ (avail # total - 1 /\ avail' = total - 1))
          BY <3>1 DEF Arrives
        <4> QED BY <4>1, StateFacts
      <3>2. CASE UpstreamStops
        BY <3>2, StateFacts DEF UpstreamStops
      <3> QED BY <3>1, <3>2, <1>4
    <2>3. TypeOK'
      <3>1. pos' \in 0..avail' /\ avail' \in 0..total'
        BY <2>1, <2>2, <1>1, StateFacts
      <3> QED BY <3>1, <2>1, <1>1 DEF Inv, TypeOK
    <2>4. PlaceInv'
      BY <2>1, <1>1 DEF Inv, PlaceInv, FramesInSync, Mine, Boundary
    <2> QED BY <2>3, <2>4, <1>3
  <1>5. CASE \E f \in Frames : UpstreamSends(f)
    <2>1. PICK f \in Frames : UpstreamSends(f)
      BY <1>5
    <2>2. /\ Len(log)' = Len(log) + 1
          /\ \A n \in 0..Len(log) : Boundary(n)' = Boundary(n)
          /\ \A n \in 1..Len(log) : log'[n] = log[n]
          /\ \A i \in DOMAIN log' : log'[i].start \in Nat
          /\ total' \in Nat /\ total <= total'
      BY <2>1, SendsLog
    <2>3. avail' = avail /\ end' = end
      BY <2>1 DEF UpstreamSends
    <2>4. TypeOK'
      <3>1. pos' \in 0..avail' /\ avail' \in 0..total'
        BY <2>2, <2>3, <1>1, StateFacts
      <3> QED BY <3>1, <2>2, <2>3, <1>1 DEF Inv, TypeOK
    <2>5. /\ Len(got) \in Nat /\ Len(log) \in Nat /\ Len(got) <= Len(log)
          /\ DOMAIN got = 1..Len(got)
      BY StateFacts
    <2>6. FramesInSync'
      <3>1. \A i \in DOMAIN got : log'[i] = log[i]
        BY <2>2, <2>5
      <3>2. Len(got') <= Len(log')
        BY <2>2, <2>5, <1>1
      <3> QED BY <3>1, <3>2, <1>1 DEF Inv, PlaceInv, FramesInSync
    <2>7. Boundary(Len(got))' = Boundary(Len(got))
      <3>1. PICK n \in 0..Len(log) : n = Len(got)
        <4>1. Len(got) \in 0..Len(log)
          BY <2>5
        <4> QED BY <4>1
      <3>2. Boundary(n)' = Boundary(n)
        BY <2>2
      <3> QED BY <3>1, <3>2, <1>1 DEF Boundary
    <2>8. Len(got) < Len(log) => Mine' = Mine
      <3>1. SUFFICES ASSUME Len(got) < Len(log) PROVE Mine' = Mine
        OBVIOUS
      <3>2. Len(got) + 1 \in 1..Len(log)
        BY <3>1, <2>5
      <3> QED BY <3>2, <2>2, <1>1 DEF Mine
    <2>9. Len(got)' = Len(got) /\ (Len(got) < Len(log) => Len(got) < Len(log)')
      BY <2>2, <2>5, <1>1
    <2>10. PlaceInv'
      <3>1. CASE pc \in {"ext", "mask", "payload"}
        <4>1. Len(got) < Len(log)
          BY <3>1 DEF Inv, PlaceInv
        <4> QED BY <4>1, <3>1, <2>6, <2>7, <2>8, <2>9, <1>1 DEF Inv, PlaceInv
      <3>2. CASE pc \notin {"ext", "mask", "payload"}
        BY <3>2, <2>6, <2>7, <1>1 DEF Inv, PlaceInv
      <3> QED BY <3>1, <3>2
    <2> QED BY <2>4, <2>10, <1>3
  <1> QED BY <1>4, <1>5

-----------------------------------------------------------------------------
(* The theorems *)

LEMMA NextInv == Inv /\ [Next]_vars => Inv'
  <1> SUFFICES ASSUME Inv, [Next]_vars PROVE Inv'
    OBVIOUS
  <1>1. LogInv'
    BY NextLog
  <1>2. CASE TcpConnected \/ TlsConnected \/ ConnectRefused \/ ConnectStep
    BY <1>1, <1>2, ConnectSteps DEF Inv
  <1>3. CASE ReadHdr
    BY <1>1, <1>3, HdrStep DEF Inv
  <1>4. CASE ReadExt
    BY <1>1, <1>4, ExtStep DEF Inv
  <1>5. CASE ReadMask
    BY <1>1, <1>5, MaskStep DEF Inv
  <1>6. CASE ReadPayload
    BY <1>1, <1>6, PayloadStep DEF Inv
  <1>7. CASE StreamEnds \/ StreamFails
    BY <1>1, <1>7, EndSteps DEF Inv
  <1>8. CASE (\E f \in Frames : UpstreamSends(f)) \/ Arrives \/ UpstreamStops
    BY <1>1, <1>8, UpstreamSteps DEF Inv
  <1>9. CASE UNCHANGED vars
    <2>1. UNCHANGED <<pc, outcome, pos, cur, got, reply, log, total, avail, end>>
      BY <1>9 DEF vars, readVars, upstreamVars
    <2>2. TypeOK'
      BY <2>1 DEF Inv, TypeOK
    <2>3. PlaceInv'
      BY <2>1 DEF Inv, PlaceInv, FramesInSync, Mine, Boundary
    <2>4. EndInv'
      BY <2>1 DEF Inv, EndInv, EndsAsCut, Boundary
    <2> QED BY <2>2, <2>3, <2>4, <1>1 DEF Inv
  <1> QED
    BY <1>2, <1>3, <1>4, <1>5, <1>6, <1>7, <1>8, <1>9 DEF Next, ReadStep

LEMMA WsClientInvariant == Spec => []Inv
  BY InitInv, NextInv, PTL DEF Spec

\* Every state has its types; in particular no read goes past what has arrived.
THEOREM WsClientTypes == Spec => []TypeOK
  BY WsClientInvariant, PTL DEF Inv

\* read_frame returns exactly the frames that were sent, in order, each with its
\* own payload and key: for any frames of any lengths up to 2^64 - 1, in any of the
\* three length forms, masked or not, and wherever the stream pauses.
THEOREM FramesStayInSync == Spec => []FramesInSync
  <1>1. Inv => FramesInSync
    BY DEF Inv, PlaceInv
  <1> QED BY <1>1, WsClientInvariant, PTL

\* A stream that is cut inside a frame ends read_frame with an error, and Ok(None)
\* is returned only at a frame boundary or one byte behind it.
THEOREM CutsAreErrors == Spec => []EndsAsCut
  <1>1. Inv => EndsAsCut
    BY DEF Inv, EndInv
  <1> QED BY <1>1, WsClientInvariant, PTL

=============================================================================
