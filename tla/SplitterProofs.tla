--------------------------- MODULE SplitterProofs ---------------------------
(* Proofs about Splitter: for every stream and every way to chunk it. *)
EXTENDS Splitter, TLAPS

-----------------------------------------------------------------------------
(* The loop of split, whatever the bytes *)

\* The entries of bs grow and lie in 1..m
Increasing(bs, m) ==
    \A i \in 1..Len(bs) : /\ bs[i] \in 1..m
                          /\ bs[i] > (IF i = 1 THEN 0 ELSE bs[i - 1])

\* The boundaries found so far grow and the last one is where the loop stands.
LoopInv ==
    /\ TypeOK
    /\ pc # "idle" => n > 0
    /\ pc = "idle" => pos = 0 /\ boundaries = << >>
    /\ Increasing(boundaries, n)
    /\ pc = "scan" => /\ pos <= n
                      /\ boundaries = << >> => pos = 0
                      /\ boundaries # << >> => boundaries[Len(boundaries)] = pos
                      /\ \A i \in 1..Len(boundaries) : boundaries[i] <= pos
    /\ PartsTile

\* A stream's bytes are bytes
LEMMA StreamType ==
    ASSUME TypeOK
    PROVE  stream.plain \in Seq(Byte) /\ Len(stream.plain) \in Nat
  BY StreamsAssumption DEF TypeOK, Framed

\* Inside the chunk, the header and the length that split reads are numbers
LEMMA HeaderType ==
    ASSUME TypeOK, pos < n, ~(extended /\ pos + 4 > n)
    PROVE  /\ header \in {1, 4} /\ msg_len \in Nat
           /\ plain(pos) \in Byte
           /\ extended => /\ header = 4
                          /\ plain(pos + 1) \in Byte
                          /\ plain(pos + 2) \in Byte
                          /\ plain(pos + 3) \in Byte
  <1>1. stream.plain \in Seq(Byte) /\ Len(stream.plain) \in Nat
    BY StreamType
  <1>2. ASSUME NEW p \in Nat, p < n PROVE plain(p) \in Byte
    <2>1. offset + p + 1 \in 1..Len(stream.plain)
      BY <1>1, <1>2 DEF TypeOK
    <2> QED BY <1>1, <2>1 DEF plain
  <1>3. plain(pos) \in Byte
    BY <1>2 DEF TypeOK
  <1>4. CASE extended
    <2>1. pos + 1 < n /\ pos + 2 < n /\ pos + 3 < n
      BY <1>4 DEF TypeOK
    <2>2. plain(pos + 1) \in Byte /\ plain(pos + 2) \in Byte /\ plain(pos + 3) \in Byte
      BY <1>2, <2>1 DEF TypeOK
    <2>3. ASSUME NEW a \in Byte, NEW b \in Byte, NEW d \in Byte
          PROVE  a + 256 * b + 65536 * d \in Nat /\ (a + 256 * b + 65536 * d) * 4 \in Nat
      BY DEF Byte
    <2>4. raw_len \in Nat /\ raw_len * 4 \in Nat
      BY <2>2, <2>3 DEF raw_len
    <2> QED BY <1>3, <1>4, <2>2, <2>4 DEF header, msg_len
  <1>5. CASE ~extended
    <2>1. plain(pos) * 4 \in Nat
      BY <1>3 DEF Byte
    <2> QED BY <1>3, <1>5, <2>1 DEF header, msg_len
  <1> QED BY <1>4, <1>5

LEMMA AppendFacts ==
    ASSUME NEW q \in Seq(Nat), NEW x \in Nat
    PROVE  /\ Append(q, x) \in Seq(Nat) /\ Append(q, x) # << >>
           /\ Len(Append(q, x)) = Len(q) + 1 /\ Len(q) \in Nat
           /\ DOMAIN Append(q, x) = 1..(Len(q) + 1)
           /\ Append(q, x)[Len(q) + 1] = x
           /\ \A i \in 1..Len(q) : Append(q, x)[i] = q[i]
  OBVIOUS

\* One more boundary keeps them growing
LEMMA IncreasingAppend ==
    ASSUME NEW bs \in Seq(Nat), NEW m \in Nat, NEW b \in 1..m, Increasing(bs, m),
           bs # << >> => bs[Len(bs)] < b
    PROVE  Increasing(Append(bs, b), m)
  <1> DEFINE cs == Append(bs, b)
  <1>1. Len(cs) = Len(bs) + 1 /\ Len(bs) \in Nat /\ cs[Len(bs) + 1] = b
    OBVIOUS
  <1>2. \A i \in 1..Len(bs) : cs[i] = bs[i]
    OBVIOUS
  <1>3. SUFFICES ASSUME NEW i \in 1..Len(cs)
                 PROVE  cs[i] \in 1..m /\ cs[i] > (IF i = 1 THEN 0 ELSE cs[i - 1])
    BY DEF Increasing
  <1> HIDE DEF cs
  <1>4. CASE i \in 1..Len(bs)
    <2>1. i # 1 => cs[i - 1] = bs[i - 1]
      BY <1>1, <1>2, <1>4, SMTT(30)
    <2> QED BY <1>2, <1>4, <2>1 DEF Increasing
  <1>5. CASE i = Len(bs) + 1
    <2>1. i # 1 => bs # << >> /\ cs[i - 1] = bs[Len(bs)]
      BY <1>1, <1>2, <1>5
    <2> QED BY <1>1, <1>5, <2>1
  <1> QED BY <1>1, <1>4, <1>5

\* The parts that split makes of growing boundaries tile the chunk
LEMMA CutsTile ==
    ASSUME NEW bs \in Seq(Nat), NEW m \in Nat \ {0}, Increasing(bs, m)
    PROVE  /\ cuts(bs, m) \in Seq(Nat) /\ cuts(bs, m) # << >>
           /\ cuts(bs, m)[Len(cuts(bs, m))] = m
           /\ Increasing(cuts(bs, m), m)
  <1>1. CASE Len(bs) <= 1
    <2>1. cuts(bs, m) = <<m>>
      BY <1>1 DEF cuts
    <2> QED BY <2>1 DEF Increasing
  <1>2. CASE Len(bs) > 1
    <2>0. bs # << >> /\ Len(bs) \in 1..Len(bs)
      BY <1>2
    <2>1. bs[Len(bs)] \in 1..m
      BY <2>0 DEF Increasing
    <2>2. CASE bs[Len(bs)] < m
      <3>1. cuts(bs, m) = Append(bs, m)
        BY <1>2, <2>2 DEF cuts
      <3>2. Increasing(Append(bs, m), m)
        BY <2>2, IncreasingAppend
      <3> QED BY <3>1, <3>2
    <2>3. CASE bs[Len(bs)] = m
      <3>1. cuts(bs, m) = bs
        BY <1>2, <2>3 DEF cuts
      <3> QED BY <2>0, <2>3, <3>1
    <2> QED BY <2>1, <2>2, <2>3
  <1> QED BY <1>1, <1>2

LEMMA InitLoopInv == Init => LoopInv
  <1> SUFFICES ASSUME Init PROVE LoopInv
    OBVIOUS
  <1>1. stream.plain \in Seq(Byte)
    BY StreamsAssumption DEF Init, Framed
  <1>2. TypeOK
    BY <1>1 DEF Init, TypeOK
  <1>3. Increasing(boundaries, n)
    BY DEF Init, Increasing
  <1> QED BY <1>2, <1>3 DEF Init, LoopInv, PartsTile, Returned

LEMMA NextLoopInv == LoopInv /\ [Next]_vars => LoopInv'
  <1> SUFFICES ASSUME LoopInv, [Next]_vars PROVE LoopInv'
    OBVIOUS
  <1> USE DEF LoopInv
  <1>0. TypeOK /\ Len(stream.plain) \in Nat
    BY StreamType
  <1>1. CASE UNCHANGED vars
    BY <1>1 DEF vars, TypeOK, Increasing, PartsTile, Returned
  <1>2. ASSUME NEW k \in 1..(Len(stream.plain) - offset - n), Split(k) PROVE LoopInv'
    <2>1. TypeOK'
      BY <1>0, <1>2 DEF Split, TypeOK
    <2>2. pos' = 0 /\ boundaries' = << >> /\ pc' = "scan" /\ n' = k /\ k \in Nat \ {0}
      BY <1>0, <1>2 DEF Split, TypeOK
    <2> QED BY <2>1, <2>2 DEF Increasing, PartsTile, Returned
  <1>3. CASE ScanEnds
    BY <1>0, <1>3 DEF ScanEnds, TypeOK, Increasing, PartsTile, Returned
  <1>4. CASE ScanHeaderCut
    BY <1>0, <1>4 DEF ScanHeaderCut, TypeOK, Increasing, PartsTile, Returned
  <1>5. CASE ScanMessageCut
    <2>1. header \in Nat
      BY <1>0, <1>5, HeaderType DEF ScanMessageCut
    <2> QED BY <1>0, <1>5, <2>1 DEF ScanMessageCut, TypeOK, Increasing, PartsTile, Returned
  <1>6. CASE ScanMessage
    <2>1. header \in {1, 4} /\ msg_len \in Nat
      BY <1>0, <1>6, HeaderType DEF ScanMessage
    <2>2. pos' \in 1..n /\ pos < pos'
      BY <1>0, <1>6, <2>1 DEF ScanMessage, TypeOK
    <2>3. boundaries' = Append(boundaries, pos')
      BY <1>6 DEF ScanMessage
    <2>4. Increasing(boundaries', n)
      <3>1. boundaries # << >> => boundaries[Len(boundaries)] < pos'
        BY <1>6, <2>2 DEF ScanMessage
      <3> QED BY <1>0, <2>2, <2>3, <3>1, IncreasingAppend DEF TypeOK
    <2>5. boundaries' \in Seq(Nat) /\ boundaries' # << >>
          /\ boundaries'[Len(boundaries')] = pos'
      <3>1. pos' \in Nat /\ boundaries \in Seq(Nat)
        BY <1>0, <2>2 DEF TypeOK
      <3> QED BY <2>3, <3>1, AppendFacts
    <2>8. \A i \in 1..Len(boundaries') : boundaries'[i] <= pos'
      <3>1. SUFFICES ASSUME NEW i \in 1..Len(boundaries') PROVE boundaries'[i] <= pos'
        OBVIOUS
      <3>4. pos' \in Nat /\ boundaries \in Seq(Nat)
        BY <1>0, <2>2 DEF TypeOK
      <3>2. boundaries'[i] = pos' \/ (i \in 1..Len(boundaries) /\ boundaries'[i] = boundaries[i])
        BY <2>3, <3>4, AppendFacts
      <3>3. i \in 1..Len(boundaries) => boundaries[i] \in Nat /\ boundaries[i] <= pos
        BY <1>0, <1>6 DEF ScanMessage, TypeOK
      <3> QED BY <1>0, <2>2, <3>2, <3>3 DEF TypeOK
    <2>6. n' = n /\ pc' = "scan" /\ pc = "scan" /\ parts' = parts /\ stream' = stream
          /\ offset' = offset
      BY <1>6 DEF ScanMessage
    <2>7. TypeOK'
      BY <1>0, <2>2, <2>5, <2>6 DEF TypeOK
    <2> QED BY <2>2, <2>4, <2>5, <2>6, <2>7, <2>8 DEF TypeOK, PartsTile, Returned
  <1>7. CASE Cut
    <2>1. n \in Nat \ {0} /\ boundaries \in Seq(Nat)
      BY <1>0, <1>7 DEF Cut, TypeOK
    <2>2. /\ parts' \in Seq(Nat) /\ parts' # << >> /\ parts'[Len(parts')] = n
          /\ Increasing(parts', n)
      BY <1>7, <2>1, CutsTile DEF Cut
    <2>3. TypeOK'
      BY <1>0, <1>7, <2>2 DEF Cut, TypeOK
    <2>4. n' = n /\ pos' = 0 /\ boundaries' = << >> /\ pc' = "idle"
      BY <1>7 DEF Cut
    <2>5. PartsTile'
      <3>1. DOMAIN parts' = 1..Len(parts')
        BY <2>2
      <3>2. \A i \in DOMAIN parts' : parts'[i] > (IF i = 1 THEN 0 ELSE parts'[i - 1])
        BY <2>2, <3>1 DEF Increasing
      <3> QED BY <2>2, <2>4, <3>2 DEF PartsTile
    <2> QED BY <2>3, <2>4, <2>5 DEF Increasing
  <1> QED BY <1>1, <1>2, <1>3, <1>4, <1>5, <1>6, <1>7 DEF Next

\* split stays inside the chunk it is given and the key stream inside the stream.
THEOREM SplitterTypes == Spec => []TypeOK
  <1>1. LoopInv => TypeOK
    BY DEF LoopInv
  <1> QED BY <1>1, InitLoopInv, NextLoopInv, PTL DEF Spec

\* For every stream and every chunking of it, also one that starts inside a
\* message, the parts that split returns tile the chunk.
THEOREM SplitTiles == Spec => []PartsTile
  <1>1. LoopInv => PartsTile
    BY DEF LoopInv
  <1> QED BY <1>1, InitLoopInv, NextLoopInv, PTL DEF Spec

-----------------------------------------------------------------------------
(* Chunks that start where a message starts *)

Found(m) == \E i \in 1..Len(boundaries) : boundaries[i] = m

\* As long as the loop runs, the boundaries are the ends of the messages it has
\* passed, and it stands between two messages; when it is over, they are the
\* ends of all messages in the chunk.  Then the parts are made of them.
AlignInv ==
    Aligned =>
        /\ pc = "scan" => /\ offset + pos \in {0} \cup stream.ends
                          /\ \A m \in 1..pos : m \in MessageEnds <=> Found(m)
        /\ pc = "cut" => \A m \in 1..n : m \in MessageEnds <=> Found(m)
        /\ OneFramePerMessage /\ CutsBetweenMessages

\* At the start of a message, header and msg_len lead to its end, unless the
\* chunk breaks the header off
LEMMA NextMessage ==
    ASSUME TypeOK, pos < n, offset + pos \in {0} \cup stream.ends
    PROVE  \E next \in stream.ends :
              /\ \A x \in stream.ends : x <= offset + pos \/ next <= x
              /\ offset + pos < next
              /\ extended => offset + pos + 4 < next
              /\ ~(extended /\ pos + 4 > n) =>
                    msg_len # 0 /\ next = offset + pos + header + msg_len
  <1> DEFINE e == offset + pos
             s == stream.plain
  <1>1. s \in Seq(Byte) /\ Len(s) \in Nat /\ stream.ends \subseteq 1..Len(s)
        /\ e \in Nat /\ e < Len(s)
    BY StreamType, StreamsAssumption DEF TypeOK, Framed
  <1>2. PICK next \in stream.ends : /\ Message(s, e, next)
                                   /\ \A x \in stream.ends : x <= e \/ next <= x
    BY <1>1, StreamsAssumption DEF TypeOK, Framed
  <1>3. plain(pos) = s[e + 1] /\ plain(pos + 1) = s[e + 2]
        /\ plain(pos + 2) = s[e + 3] /\ plain(pos + 3) = s[e + 4]
    BY DEF plain, TypeOK
  <1>4. s[e + 1] \in Byte
    BY <1>1
  <1> HIDE DEF e, s
  <1>5. CASE ~extended
    <2>1. s[e + 1] \in 1..126 /\ next = e + 1 + 4 * s[e + 1]
      BY <1>2, <1>3, <1>5 DEF Message, extended
    <2>2. header = 1 /\ msg_len = s[e + 1] * 4
      BY <1>3, <1>5 DEF header, msg_len
    <2>3. e < next /\ msg_len # 0 /\ next = e + header + msg_len
      <3> DEFINE x == s[e + 1]
      <3>1. x \in 1..126 /\ next = e + 1 + 4 * x /\ header = 1 /\ msg_len = x * 4 /\ e \in Nat
        BY <1>1, <2>1, <2>2
      <3> HIDE DEF x
      <3> QED BY <3>1
    <2> QED BY <1>2, <1>5, <2>3 DEF e
  <1>6. CASE extended
    <2> DEFINE r == s[e + 2] + 256 * s[e + 3] + 65536 * s[e + 4]
    <2>1. e + 4 <= Len(s) /\ r > 0 /\ next = e + 4 + 4 * r
      BY <1>2, <1>3, <1>6 DEF Message, extended
    <2>2. s[e + 2] \in Byte /\ s[e + 3] \in Byte /\ s[e + 4] \in Byte
      BY <1>1, <2>1
    <2>3. r \in Nat
      <3>1. ASSUME NEW a \in Byte, NEW b \in Byte, NEW d \in Byte
            PROVE  a + 256 * b + 65536 * d \in Nat
        BY DEF Byte
      <3> QED BY <2>2, <3>1
    <2>4. header = 4 /\ msg_len = r * 4
      BY <1>3, <1>6 DEF header, msg_len, raw_len
    <2> HIDE DEF r
    <2>5. e < next /\ e + 4 < next /\ msg_len # 0 /\ next = e + header + msg_len
      BY <1>1, <2>1, <2>3, <2>4
    <2> QED BY <1>2, <2>5 DEF e
  <1> QED BY <1>5, <1>6

LEMMA InitAlignInv == Init => AlignInv
  BY DEF Init, AlignInv, OneFramePerMessage, CutsBetweenMessages, Returned

LEMMA NextAlignInv == LoopInv /\ AlignInv /\ [Next]_vars => AlignInv'
  <1> SUFFICES ASSUME LoopInv, AlignInv, [Next]_vars PROVE AlignInv'
    OBVIOUS
  <1>0. TypeOK /\ Len(stream.plain) \in Nat /\ stream.ends \subseteq 1..Len(stream.plain)
    BY StreamType, StreamsAssumption DEF LoopInv, TypeOK, Framed
  <1>1. CASE UNCHANGED vars
    BY <1>1 DEF vars, AlignInv, Aligned, MessageEnds, Found,
                OneFramePerMessage, CutsBetweenMessages, Returned
  <1>2. ASSUME NEW k \in 1..(Len(stream.plain) - offset - n), Split(k) PROVE AlignInv'
    <2>1. pos' = 0 /\ pc' = "scan" /\ offset' \in Nat
      BY <1>0, <1>2 DEF Split, LoopInv, TypeOK
    <2> QED BY <2>1 DEF AlignInv, Aligned, OneFramePerMessage,
                        CutsBetweenMessages, Returned
  <1>3. ASSUME pc = "scan", pc' = "cut", Aligned,
               UNCHANGED <<stream, offset, n, boundaries>>,
               \A m \in 1..n : m > pos => m \notin MessageEnds
        PROVE  AlignInv'
    <2>1. ASSUME NEW m \in 1..n PROVE m \in MessageEnds <=> Found(m)
      <3>1. CASE m <= pos
        BY <1>0, <1>3, <3>1 DEF AlignInv, TypeOK
      <3>2. CASE m > pos
        <4>1. ~Found(m)
          <5>0. \A i \in 1..Len(boundaries) : boundaries[i] <= pos
            BY <1>3 DEF LoopInv
          <5>1. ~(m <= pos)
            BY <1>0, <3>2 DEF TypeOK
          <5> SUFFICES ASSUME NEW i \in 1..Len(boundaries), boundaries[i] = m PROVE FALSE
            BY DEF Found
          <5> QED BY <5>0, <5>1
        <4> QED BY <1>3, <3>2, <4>1
      <3> QED BY <1>0, <3>1, <3>2 DEF TypeOK
    <2> QED BY <1>3, <2>1 DEF AlignInv, Aligned, MessageEnds, Found,
                OneFramePerMessage, CutsBetweenMessages, Returned
  <1>4. ASSUME pc = "scan", Aligned, pos < n,
               NEW next \in stream.ends, next > offset + n,
               \A x \in stream.ends : x <= offset + pos \/ next <= x
        PROVE  \A m \in 1..n : m > pos => m \notin MessageEnds
    <2> SUFFICES ASSUME NEW m \in 1..n, m > pos, m \in MessageEnds PROVE FALSE
      OBVIOUS
    <2>1. offset + m \in stream.ends
      BY DEF MessageEnds
    <2>2. offset + m <= offset + pos \/ next <= offset + m
      BY <1>4, <2>1
    <2>3. offset \in Nat /\ pos \in Nat /\ n \in Nat /\ m \in Nat /\ m <= n /\ next \in Nat
      BY <1>0 DEF TypeOK
    <2> QED BY <1>4, <2>2, <2>3
  <1>5. ASSUME pc = "scan", Aligned, pos < n
        PROVE  offset + pos \in {0} \cup stream.ends
    BY <1>5 DEF AlignInv
  <1>6. CASE ScanEnds
    <2>1. \A m \in 1..n : ~(m > pos)
      BY <1>0, <1>6 DEF ScanEnds, TypeOK
    <2> QED BY <1>3, <1>6, <2>1 DEF ScanEnds, AlignInv, Aligned
  <1>7. CASE ScanHeaderCut
    <2> SUFFICES ASSUME Aligned PROVE AlignInv'
      BY <1>7 DEF ScanHeaderCut, AlignInv, Aligned
    <2>1. PICK next \in stream.ends :
              /\ \A x \in stream.ends : x <= offset + pos \/ next <= x
              /\ offset + pos + 4 < next
      BY <1>0, <1>5, <1>7, NextMessage DEF ScanHeaderCut
    <2>2. next > offset + n
      BY <1>0, <1>7, <2>1 DEF ScanHeaderCut, TypeOK
    <2>3. \A m \in 1..n : m > pos => m \notin MessageEnds
      BY <1>4, <1>7, <2>1, <2>2 DEF ScanHeaderCut
    <2> QED BY <1>3, <1>7, <2>3 DEF ScanHeaderCut
  <1>8. CASE ScanMessageCut
    <2> SUFFICES ASSUME Aligned PROVE AlignInv'
      BY <1>8 DEF ScanMessageCut, AlignInv, Aligned
    <2>1. PICK next \in stream.ends :
              /\ \A x \in stream.ends : x <= offset + pos \/ next <= x
              /\ msg_len # 0 /\ next = offset + pos + header + msg_len
      BY <1>0, <1>5, <1>8, NextMessage DEF ScanMessageCut
    <2>2. header \in {1, 4} /\ msg_len \in Nat
      BY <1>0, <1>8, HeaderType DEF ScanMessageCut
    <2>3. next > offset + n
      BY <1>0, <1>8, <2>1, <2>2 DEF ScanMessageCut, TypeOK
    <2>4. \A m \in 1..n : m > pos => m \notin MessageEnds
      BY <1>4, <1>8, <2>1, <2>3 DEF ScanMessageCut
    <2> QED BY <1>3, <1>8, <2>4 DEF ScanMessageCut
  <1>9. CASE ScanMessage
    <2> SUFFICES ASSUME Aligned PROVE AlignInv'
      BY <1>9 DEF ScanMessage, AlignInv, Aligned
    <2>1. PICK next \in stream.ends :
              /\ \A x \in stream.ends : x <= offset + pos \/ next <= x
              /\ offset + pos < next
              /\ next = offset + pos + header + msg_len
      BY <1>0, <1>5, <1>9, NextMessage DEF ScanMessage
    <2>2. header \in {1, 4} /\ msg_len \in Nat
      BY <1>0, <1>9, HeaderType DEF ScanMessage
    <2>3. /\ pos' \in 1..n /\ pos < pos' /\ next = offset + pos'
          /\ boundaries' = Append(boundaries, pos')
          /\ pc = "scan" /\ pc' = "scan"
          /\ UNCHANGED <<stream, offset, n, parts>>
      BY <1>0, <1>9, <2>1, <2>2 DEF ScanMessage, TypeOK
    <2>4. ASSUME NEW m \in 1..pos' PROVE Found(m)' <=> Found(m) \/ m = pos'
      <3>1. /\ Len(boundaries') = Len(boundaries) + 1 /\ Len(boundaries) \in Nat
            /\ boundaries'[Len(boundaries) + 1] = pos'
            /\ \A i \in 1..Len(boundaries) : boundaries'[i] = boundaries[i]
        <4>1. pos' \in Nat /\ boundaries \in Seq(Nat)
          BY <1>0, <2>3 DEF TypeOK
        <4> QED BY <2>3, <4>1, AppendFacts
      <3> QED BY <3>1 DEF Found
    <2>5. ASSUME NEW m \in 1..pos' PROVE m \in MessageEnds <=> Found(m) \/ m = pos'
      <3>1. CASE m <= pos
        BY <1>0, <2>3, <3>1 DEF AlignInv, TypeOK
      <3>2. CASE m > pos /\ m < pos'
        <4>0. offset \in Nat /\ pos \in Nat /\ pos' \in Nat /\ m \in Nat
          BY <1>0, <2>3 DEF TypeOK
        <4>4. \A i \in 1..Len(boundaries) : boundaries[i] <= pos
          BY <2>3 DEF LoopInv
        <4>5. ~(m <= pos)
          BY <3>2, <4>0
        <4>1. ~Found(m)
          <5> SUFFICES ASSUME NEW i \in 1..Len(boundaries), boundaries[i] = m PROVE FALSE
            BY DEF Found
          <5> QED BY <4>4, <4>5
        <4>2. m \notin MessageEnds
          <5>1. ASSUME NEW a \in Nat, NEW b \in Nat, NEW d \in Nat, NEW f \in Nat,
                       b < d, d < f
                PROVE  ~(a + d <= a + b) /\ ~(a + f <= a + d)
            BY <5>1
          <5>2. ~(offset + m <= offset + pos) /\ ~(offset + pos' <= offset + m)
            BY <3>2, <4>0, <5>1
          <5>3. offset + m \notin stream.ends
            BY <2>1, <2>3, <5>2
          <5> QED BY <5>3 DEF MessageEnds
        <4>3. m # pos'
          BY <3>2, <4>0
        <4> QED BY <4>1, <4>2, <4>3
      <3>3. CASE m = pos'
        BY <2>1, <2>3, <3>3 DEF MessageEnds
      <3> QED BY <1>0, <2>3, <3>1, <3>2, <3>3 DEF TypeOK
    <2>6. MessageEnds' = MessageEnds
      BY <2>3 DEF MessageEnds
    <2>7. \A m \in 1..pos' : m \in MessageEnds' <=> Found(m)'
      BY <2>4, <2>5, <2>6
    <2> QED BY <2>1, <2>3, <2>7 DEF AlignInv, OneFramePerMessage,
                                    CutsBetweenMessages, Returned
  <1>10. CASE Cut
    <2> SUFFICES ASSUME Aligned PROVE AlignInv'
      BY <1>10 DEF Cut, AlignInv, Aligned
    <2>1. /\ n \in Nat \ {0} /\ boundaries \in Seq(Nat) /\ Increasing(boundaries, n)
          /\ \A m \in 1..n : m \in MessageEnds <=> Found(m)
          /\ parts' = cuts(boundaries, n) /\ pc' = "idle"
          /\ MessageEnds' = MessageEnds /\ n' = n
      BY <1>0, <1>10 DEF Cut, LoopInv, AlignInv, TypeOK, MessageEnds
    <2>2. /\ parts' \in Seq(Nat) /\ DOMAIN parts' = 1..Len(parts')
          /\ parts' # << >> /\ parts'[Len(parts')] = n
      BY <2>1, CutsTile
    <2>3. \A i \in DOMAIN parts' : parts'[i] = n \/ parts'[i] \in MessageEnds
      <3>1. \A i \in 1..Len(boundaries) : boundaries[i] \in MessageEnds
        BY <2>1 DEF Increasing, Found
      <3> QED BY <2>1, <2>2, <3>1 DEF cuts
    <2>4. ASSUME n \in MessageEnds
          PROVE  {parts'[i] : i \in DOMAIN parts'} = MessageEnds
      <3>1. \A i \in DOMAIN parts' : parts'[i] \in MessageEnds
        BY <2>3, <2>4
      <3>2. ASSUME NEW m \in MessageEnds PROVE \E i \in DOMAIN parts' : parts'[i] = m
        <4>1. PICK j \in 1..Len(boundaries) : boundaries[j] = m
          BY <2>1 DEF MessageEnds, Found
        <4>2. PICK l \in 1..Len(boundaries) : boundaries[l] = n
          BY <2>1, <2>4 DEF MessageEnds, Found
        <4>3. CASE Len(boundaries) <= 1
          <5>1. j = l
            BY <2>1, <4>1, <4>2, <4>3
          <5>2. parts'[Len(parts')] = m /\ Len(parts') \in DOMAIN parts'
            BY <2>2, <4>1, <4>2, <5>1
          <5> QED BY <5>2
        <4>4. CASE Len(boundaries) > 1
          <5>1. parts' = boundaries \/ parts' = Append(boundaries, n)
            BY <2>1, <4>4 DEF cuts
          <5>2. j \in DOMAIN parts' /\ parts'[j] = boundaries[j]
            <6>1. CASE parts' = boundaries
              BY <2>1, <6>1
            <6>2. CASE parts' = Append(boundaries, n)
              BY <2>1, <6>2, AppendFacts
            <6> QED BY <5>1, <6>1, <6>2
          <5> QED BY <4>1, <5>2
        <4> QED BY <2>1, <4>3, <4>4
      <3> QED BY <3>1, <3>2
    <2> QED BY <2>1, <2>3, <2>4 DEF AlignInv, OneFramePerMessage,
                                    CutsBetweenMessages, Returned
  <1> QED BY <1>1, <1>2, <1>6, <1>7, <1>8, <1>9, <1>10 DEF Next

\* For every stream of whole messages, a chunk that starts and ends with a
\* message becomes one frame per message.
THEOREM BatchesSplit == Spec => []OneFramePerMessage
  <1>1. AlignInv => OneFramePerMessage
    BY DEF AlignInv, OneFramePerMessage
  <1> QED BY <1>1, InitLoopInv, NextLoopInv, InitAlignInv, NextAlignInv, PTL DEF Spec

\* For every stream of whole messages, a chunk that starts with a message is cut
\* only where messages end.
THEOREM CutsAligned == Spec => []CutsBetweenMessages
  <1>1. AlignInv => CutsBetweenMessages
    BY DEF AlignInv, CutsBetweenMessages
  <1> QED BY <1>1, InitLoopInv, NextLoopInv, InitAlignInv, NextAlignInv, PTL DEF Spec
=============================================================================
