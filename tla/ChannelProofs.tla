--------------------------- MODULE ChannelProofs ---------------------------
(* The byte stream of WsClient implements the channel of whole frames that Relay
   reads: every step of connect, of read_frame and of the upstream is a step of
   FrameChannel or none at all. *)
EXTENDS HandshakeProofs

-----------------------------------------------------------------------------
(* Which frame the stream stands in *)

\* A frame is sent when all before it has arrived, so only the last one can be
\* incomplete
OneInFlight == log # << >> => Boundary(Len(log) - 1) <= avail

ChannelInv == Inv /\ UpgradeInv /\ OneInFlight

\* Frames have at least two bytes, so a later one ends later.
LEMMA BoundariesApart ==
    ASSUME Inv, NEW i \in 0..Len(log), NEW j \in 0..Len(log), i < j
    PROVE  Boundary(i) + 2 <= Boundary(j)
  <1>1. Len(log) \in Nat /\ i \in Nat /\ j \in Nat /\ j \in 1..Len(log)
    BY StateFacts
  <1>2. Boundary(i) \in Nat /\ Boundary(j) \in Nat /\ reply.len \in Nat
    BY StateFacts
  <1>3. /\ log[j].start + Size(log[j]) = Boundary(j) /\ Legible(log[j])
        /\ log[j].start \in Nat /\ log[j].start = Boundary(j - 1)
    BY <1>1, BoundariesGrow
  <1>4. PICK s \in Nat : s = Size(log[j]) /\ s >= 2
    BY <1>3, SizeFacts
  <1>5. Boundary(i) <= log[j].start
    <2>1. CASE i = j - 1
      BY <2>1, <1>2, <1>3
    <2>2. CASE i # j - 1 /\ i # 0
      <3>1. i \in 1..Len(log)
        BY <2>2, <1>1
      <3>2. log[i].start + Size(log[i]) <= log[j].start
        BY <3>1, <1>1 DEF Inv, LogInv
      <3> QED BY <3>2, <2>2 DEF Boundary
    <2>3. CASE i # j - 1 /\ i = 0
      <3>1. 1 \in 1..Len(log) /\ 1 < j
        BY <2>3, <1>1
      <3>2. log[1].start + Size(log[1]) <= log[j].start
        BY <3>1, <1>1 DEF Inv, LogInv
      <3>3. log[1].start = Boundary(0) /\ Legible(log[1]) /\ log[1].start \in Nat
        <4>1. log[1].start = Boundary(1 - 1) /\ Legible(log[1]) /\ log[1].start \in Nat
          BY <3>1, BoundariesGrow
        <4> QED BY <4>1
      <3>4. Size(log[1]) \in Nat
        BY <3>3, SizeFacts
      <3> QED BY <2>3, <3>2, <3>3, <3>4, <1>3
    <2> QED BY <2>1, <2>2, <2>3
  <1> QED BY <1>2, <1>3, <1>4, <1>5

LEMMA CompleteFacts ==
    ASSUME ChannelInv
    PROVE  /\ Complete \in 0..Len(log) /\ Len(log) <= Complete + 1 /\ Len(log) \in Nat
           /\ avail = total => Complete = Len(log)
           /\ Complete = Len(log) => log = << >> \/ avail = total
           /\ Complete # Len(log) => /\ Complete = Len(log) - 1 /\ avail < total
                                     /\ Boundary(Complete) <= avail
  <1>1. Len(log) \in Nat /\ avail \in Nat /\ total \in Nat /\ avail <= total
    BY StateFacts DEF ChannelInv
  <1>2. log # << >> => Len(log) # 0
    BY DEF ChannelInv, Inv, LogInv
  <1>3. CASE avail = total \/ log = << >>
    BY <1>1, <1>3 DEF Complete
  <1>4. CASE ~(avail = total \/ log = << >>)
    <2>1. Complete = Len(log) - 1 /\ Len(log) # 0
      BY <1>2, <1>4 DEF Complete
    <2>2. Boundary(Complete) <= avail
      BY <2>1, <1>4 DEF ChannelInv, OneInFlight
    <2> QED BY <1>1, <1>4, <2>1, <2>2
  <1> QED BY <1>3, <1>4

\* A reader that stands in a frame or behind one: where the stream may have ended.
LEMMA ReaderPlace ==
    ASSUME ChannelInv, NEW n \in 0..Len(log), n = Len(got)
    PROVE  /\ (Boundary(n) <= avail /\ avail < Boundary(n) + 2 =>
                  n = Complete /\ ~CutInFrame)
           /\ (n < Len(log) /\ Boundary(n) + 2 <= avail /\ avail < Boundary(n + 1) =>
                  n = Complete /\ CutInFrame)
           /\ (n < Len(log) /\ Boundary(n + 1) <= avail => n < Complete)
  <1>0. Inv
    BY DEF ChannelInv
  <1>1. /\ Complete \in 0..Len(log) /\ Len(log) <= Complete + 1 /\ Len(log) \in Nat
        /\ avail = total => Complete = Len(log)
        /\ Complete = Len(log) => log = << >> \/ avail = total
        /\ Complete # Len(log) => /\ Complete = Len(log) - 1 /\ avail < total
                                  /\ Boundary(Complete) <= avail
    BY CompleteFacts
  <1>2. /\ avail \in Nat /\ total \in Nat /\ avail <= total
        /\ \A k \in 0..Len(log) : Boundary(k) \in Nat
    BY <1>0, StateFacts
  <1>3. total = Boundary(Len(log)) /\ (log = << >> => Len(log) = 0)
    BY <1>0 DEF Inv, LogInv
  <1>4. \A i, j \in 0..Len(log) : i < j => Boundary(i) + 2 <= Boundary(j)
    BY <1>0, BoundariesApart
  <1>5. Complete # 0 => Boundary(Complete) <= avail
    <2>1. CASE Complete = Len(log)
      BY <2>1, <1>1, <1>2, <1>3
    <2>2. CASE Complete # Len(log)
      BY <2>2, <1>1
    <2> QED BY <2>1, <2>2
  <1>6. ASSUME Boundary(n) <= avail, avail < Boundary(n) + 2
        PROVE  n = Complete /\ ~CutInFrame
    <2>1. ~(n < Complete)
      <3> SUFFICES ASSUME n < Complete PROVE FALSE
        OBVIOUS
      <3>1. Boundary(n) + 2 <= Boundary(Complete)
        BY <1>1, <1>4
      <3>2. Boundary(Complete) <= avail
        BY <1>1, <1>5
      <3>3. Boundary(n) \in Nat /\ Boundary(Complete) \in Nat
        BY <1>1, <1>2
      <3> QED BY <3>1, <3>2, <3>3, <1>2, <1>6
    <2>2. ~(Complete < n)
      <3> SUFFICES ASSUME Complete < n PROVE FALSE
        OBVIOUS
      <3>1. Complete # Len(log) /\ n = Len(log)
        BY <1>1
      <3> QED BY <3>1, <1>1, <1>2, <1>3, <1>6
    <2>3. n = Complete
      BY <2>1, <2>2, <1>1
    <2>4. Boundary(n) \in Nat
      BY <1>2
    <2> QED BY <2>3, <2>4, <1>2, <1>6 DEF CutInFrame
  <1>7. ASSUME n < Len(log), Boundary(n) + 2 <= avail, avail < Boundary(n + 1)
        PROVE  n = Complete /\ CutInFrame
    <2>1. n + 1 \in 0..Len(log)
      BY <1>1, <1>7
    <2>2. ~(n < Complete)
      <3> SUFFICES ASSUME n < Complete PROVE FALSE
        OBVIOUS
      <3>1. Boundary(n + 1) <= Boundary(Complete)
        <4>1. CASE n + 1 = Complete
          BY <4>1, <1>1, <1>2
        <4>2. CASE n + 1 < Complete
          <5>1. Boundary(n + 1) + 2 <= Boundary(Complete)
            BY <4>2, <2>1, <1>1, <1>4
          <5>2. Boundary(n + 1) \in Nat /\ Boundary(Complete) \in Nat
            BY <2>1, <1>1, <1>2
          <5> QED BY <5>1, <5>2
        <4> QED BY <4>1, <4>2, <1>1
      <3>2. Boundary(Complete) <= avail
        BY <1>1, <1>5
      <3>3. Boundary(n + 1) \in Nat /\ Boundary(Complete) \in Nat
        BY <2>1, <1>1, <1>2
      <3> QED BY <3>1, <3>2, <3>3, <1>2, <1>7
    <2>3. n = Complete
      BY <2>2, <1>1, <1>7
    <2> QED BY <2>3, <1>7 DEF CutInFrame
  <1>8. ASSUME n < Len(log), Boundary(n + 1) <= avail PROVE n < Complete
    <2> SUFFICES ASSUME ~(n < Complete) PROVE FALSE
      OBVIOUS
    <2>1. Complete # Len(log) /\ n + 1 = Len(log)
      BY <1>1, <1>8
    <2> QED BY <2>1, <1>1, <1>2, <1>3, <1>8
  <1> QED BY <1>6, <1>7, <1>8

-----------------------------------------------------------------------------
(* The invariant *)

LEMMA InitChannel == Init => ChannelInv
  <1> SUFFICES ASSUME Init PROVE ChannelInv
    OBVIOUS
  <1>1. OneInFlight
    BY DEF Init, OneInFlight
  <1> QED BY <1>1, InitInv, InitUpgrade DEF ChannelInv

LEMMA NextChannel == ChannelInv /\ [Next]_vars => ChannelInv'
  <1> SUFFICES ASSUME ChannelInv, [Next]_vars PROVE ChannelInv'
    OBVIOUS
  <1>1. Inv' /\ UpgradeInv'
    BY NextInv, NextUpgrade DEF ChannelInv
  <1>2. CASE \E f \in Frames : UpstreamSends(f)
    <2>1. PICK f \in Frames : UpstreamSends(f)
      BY <1>2
    <2>2. Len(log)' = Len(log) + 1 /\ \A n \in 0..Len(log) : Boundary(n)' = Boundary(n)
      BY <2>1, SendsLog DEF ChannelInv
    <2>3. avail' = avail /\ avail = total
      BY <2>1 DEF UpstreamSends
    <2>4. /\ Len(log) \in Nat /\ avail \in Nat /\ total = Boundary(Len(log))
      BY StateFacts DEF ChannelInv, Inv, LogInv
    <2>5. PICK n \in 0..Len(log) : n = Len(log)
      BY <2>4
    <2>6. Len(log)' - 1 = n
      BY <2>2, <2>4, <2>5
    <2>7. Boundary(Len(log) - 1)' = Boundary(n)'
      BY <2>6
    <2>8. OneInFlight'
      BY <2>2, <2>3, <2>4, <2>5, <2>7 DEF OneInFlight
    <2> QED BY <1>1, <2>8 DEF ChannelInv
  <1>3. CASE Arrives
    <2>1. log' = log /\ reply' = reply
      BY <1>3 DEF Arrives
    <2>2. avail < total /\ (avail' = avail + 1 \/ (avail # total - 1 /\ avail' = total - 1))
      BY <1>3 DEF Arrives
    <2>3. avail \in Nat /\ total \in Nat
      BY StateFacts DEF ChannelInv
    <2>4. avail <= avail' /\ avail' \in Nat
      BY <2>2, <2>3
    <2>5. log # << >> => Boundary(Len(log) - 1) \in Nat
      <3>1. log # << >> => Len(log) - 1 \in 0..Len(log)
        BY DEF ChannelInv, Inv, LogInv
      <3> QED BY <3>1, StateFacts DEF ChannelInv
    <2>6. Boundary(Len(log) - 1)' = Boundary(Len(log) - 1)
      BY <2>1 DEF Boundary
    <2>7. OneInFlight'
      BY <2>1, <2>3, <2>4, <2>5, <2>6 DEF OneInFlight, ChannelInv
    <2> QED BY <1>1, <2>7 DEF ChannelInv
  <1>4. CASE UNCHANGED <<log, avail, reply>>
    BY <1>1, <1>4 DEF ChannelInv, OneInFlight, Boundary
  <1>5. (\E f \in Frames : UpstreamSends(f)) \/ Arrives \/ UNCHANGED <<log, avail, reply>>
    BY DEF Next, ConnectStep, ReadStep, TcpConnected, TlsConnected, ConnectRefused,
           ConnectTimesOut, SendRequest, SendRequestFails, ReadHeaderByte, HeaderOversized,
           HeaderDone, HeaderCut, ReadHdr, ReadExt, ReadMask, ReadPayload, StreamEnds,
           StreamFails, UpstreamStops, vars, upstreamVars
  <1> QED BY <1>2, <1>3, <1>4, <1>5

-----------------------------------------------------------------------------
(* The steps *)

\* As long as the stream itself does not change, neither does what has arrived.
LEMMA StreamSame ==
    ASSUME UNCHANGED upstreamVars
    PROVE  Arrived' = Arrived /\ Stopped' = Stopped
  <1>1. UNCHANGED <<reply, log, total, avail, end>>
    BY DEF upstreamVars
  <1>2. Complete' = Complete
    BY <1>1 DEF Complete
  <1>3. CutInFrame' = CutInFrame
    BY <1>1, <1>2 DEF CutInFrame, Boundary
  <1> QED BY <1>1, <1>2, <1>3 DEF Arrived, Stopped

LEMMA ConnectMaps ==
    ASSUME ChannelInv, TcpConnected \/ TlsConnected \/ ConnectRefused \/ ConnectStep
    PROVE  [channel!Next]_(channel!vars)
  <1>1. pc \in Connecting /\ got' = got /\ UNCHANGED upstreamVars
    BY DEF TcpConnected, TlsConnected, ConnectRefused, ConnectStep, ConnectTimesOut, SendRequest,
           SendRequestFails, ReadHeaderByte, HeaderOversized, HeaderDone, HeaderCut, Connecting
  <1>2. Arrived' = Arrived /\ Stopped' = Stopped /\ Len(got)' = Len(got)
    BY <1>1, StreamSame
  <1>3. outcome = "none" /\ Reader = "none"
    BY <1>1 DEF ChannelInv, UpgradeInv, Reader
  <1>4. CASE outcome' = "ok"
    <2>1. HeaderDone
      BY <1>3, <1>4 DEF TcpConnected, TlsConnected, ConnectRefused, ConnectStep, ConnectTimesOut,
             SendRequest, SendRequestFails, ReadHeaderByte, HeaderOversized, HeaderCut, Fail
    <2>2. pc' = "hdr"
      BY <2>1, <1>4 DEF HeaderDone
    <2>3. Reader' = "open"
      BY <2>2, <1>4 DEF Reader, Reading
    <2>4. channel!Open
      BY <2>3, <1>2, <1>3 DEF channel!Open
    <2> QED BY <2>4 DEF channel!Next
  <1>5. CASE outcome' # "ok"
    <2>1. Reader' = Reader
      BY <1>3, <1>5 DEF Reader
    <2> QED BY <2>1, <1>2 DEF channel!vars
  <1> QED BY <1>4, <1>5

LEMMA ReadMaps ==
    ASSUME ChannelInv, ReadStep
    PROVE  [channel!Next]_(channel!vars)
  <1>1. pc \in Reading /\ outcome' = outcome /\ UNCHANGED upstreamVars
    BY DEF ReadStep, ReadHdr, ReadExt, ReadMask, ReadPayload, StreamEnds, StreamFails, Reading
  <1>2. Arrived' = Arrived /\ Stopped' = Stopped
    BY <1>1, StreamSame
  <1>3. outcome = "ok" /\ Reader = "open"
    BY <1>1 DEF ChannelInv, UpgradeInv, Reader
  <1>4. Inv /\ Len(got) \in 0..Len(log) /\ Len(got) \in Nat /\ Len(log) \in Nat
    BY StateFacts DEF ChannelInv
  <1>5. CASE ReadHdr \/ ReadExt \/ ReadMask
    <2>1. pc' \in Reading /\ got' = got
      BY <1>5 DEF ReadHdr, ReadExt, ReadMask, AfterLength, Reading
    <2>2. Reader' = Reader
      BY <2>1, <1>1, <1>3 DEF Reader
    <2> QED BY <2>1, <2>2, <1>2 DEF channel!vars
  <1>6. CASE ReadPayload
    <2>1. /\ pc = "payload" /\ pos + cur.len <= avail
          /\ got' = Append(got, [kind |-> Kind(cur.op), from |-> pos, len |-> cur.len, key |-> cur.key])
          /\ pc' = IF Kind(cur.op) \in {"close", "other"} THEN "closed" ELSE "hdr"
      BY <1>6 DEF ReadPayload, Ready
    <2>2. /\ Len(got) < Len(log) /\ cur.op = Mine.op
          /\ pos = Mine.start + Len(Mine.head) /\ cur.len = Mine.len
      BY <2>1, <1>4 DEF Inv, PlaceInv
    <2>3. /\ Legible(Mine) /\ Mine.start \in Nat
          /\ Mine.start + Size(Mine) = Boundary(Len(got) + 1)
      BY <2>2, <1>4, MineFacts
    <2>4. Size(Mine) = Len(Mine.head) + Mine.len /\ Len(Mine.head) \in Nat /\ Mine.len \in Nat
      BY <2>3, SizeFacts
    <2>5. Boundary(Len(got) + 1) <= avail
      BY <2>1, <2>2, <2>3, <2>4
    <2>6. Len(got) < Complete
      BY <2>2, <2>5, <1>4, ReaderPlace
    <2>7. Complete \in Nat
      BY <1>4, CompleteFacts
    <2>8. Len(Arrived) = Complete /\ Arrived[Len(got) + 1] = Kind(cur.op)
      BY <2>2, <2>6, <2>7, <1>4 DEF Arrived, Mine
    <2>9. Len(got)' = Len(got) + 1
      BY <2>1, <1>4, AppendFacts DEF Inv, TypeOK
    <2>10. Reader' = IF Kind(cur.op) \in {"close", "other"} THEN "ended" ELSE "open"
      BY <2>1, <1>1, <1>3 DEF Reader, Reading
    <2>11. channel!Receive
      BY <2>6, <2>8, <2>9, <2>10, <1>2, <1>3 DEF channel!Receive
    <2> QED BY <2>11 DEF channel!Next
  <1>7. CASE StreamFails
    <2>1. Stopped = "reset" /\ got' = got
      BY <1>7 DEF StreamFails, Stopped
    <2>2. Reader' = "failed"
      BY <1>7, <1>1, <1>3 DEF StreamFails, Reader, Reading
    <2>3. channel!Fail
      BY <2>1, <2>2, <1>2, <1>3 DEF channel!Fail
    <2> QED BY <2>3 DEF channel!Next
  <1>8. CASE StreamEnds
    <2>1. /\ end = "fin" /\ ~Ready(Needed) /\ got' = got
          /\ pc' = IF pc = "hdr" THEN "eof" ELSE "error"
      BY <1>8 DEF StreamEnds
    <2>2. CASE pc = "hdr"
      <3>1. Needed = 2 /\ pos = Boundary(Len(got))
        BY <2>2, <1>4, NeededFacts DEF Inv, PlaceInv
      <3>2. pos <= avail /\ avail \in Nat /\ pos \in Nat
        BY <1>4, StateFacts
      <3>3. Boundary(Len(got)) <= avail /\ avail < Boundary(Len(got)) + 2
        BY <2>1, <3>1, <3>2 DEF Ready
      <3>4. Len(got) = Complete /\ ~CutInFrame
        BY <3>3, <1>4, ReaderPlace
      <3>5. Stopped = "fin"
        BY <3>4, <2>1 DEF Stopped
      <3>6. Len(Arrived) = Len(got)
        BY <3>4, <1>4 DEF Arrived
      <3>7. Reader' = "ended"
        BY <2>1, <2>2, <1>1, <1>3 DEF Reader, Reading
      <3>8. channel!End
        BY <3>5, <3>6, <3>7, <2>1, <1>2, <1>3 DEF channel!End
      <3> QED BY <3>8 DEF channel!Next
    <2>3. CASE pc # "hdr"
      <3>1. pc \in {"ext", "mask", "payload"}
        BY <2>3, <1>1 DEF Reading
      <3>2. /\ Len(got) < Len(log)
            /\ Boundary(Len(got)) + 2 <= avail /\ avail < Boundary(Len(got) + 1)
        BY <3>1, <2>1, <1>4, CutInside
      <3>3. CutInFrame
        BY <3>2, <1>4, ReaderPlace
      <3>4. Stopped = "reset"
        BY <3>3, <2>1 DEF Stopped
      <3>5. Reader' = "failed"
        BY <2>1, <2>3, <1>1, <1>3 DEF Reader, Reading
      <3>6. channel!Fail
        BY <3>4, <3>5, <2>1, <1>2, <1>3 DEF channel!Fail
      <3> QED BY <3>6 DEF channel!Next
    <2> QED BY <2>2, <2>3
  <1> QED BY <1>5, <1>6, <1>7, <1>8 DEF ReadStep

LEMMA UpstreamMaps ==
    ASSUME ChannelInv, (\E f \in Frames : UpstreamSends(f)) \/ Arrives \/ UpstreamStops
    PROVE  [channel!Next]_(channel!vars)
  <1>1. UNCHANGED <<pc, outcome, got>> /\ end = "open"
    BY DEF UpstreamSends, Arrives, UpstreamStops, readVars
  <1>2. Reader' = Reader /\ Len(got)' = Len(got) /\ Stopped = "open"
    BY <1>1 DEF Reader, Stopped
  <1>3. /\ Len(log) \in Nat /\ total \in Nat /\ avail \in Nat
        /\ (log # << >> => Len(log) # 0)
    BY StateFacts DEF ChannelInv, Inv, LogInv
  <1>4. CASE \E f \in Frames : UpstreamSends(f)
    <2>1. PICK f \in Frames : UpstreamSends(f)
      BY <1>4
    <2>2. Len(log)' = Len(log) + 1 /\ \A n \in 1..Len(log) : log'[n] = log[n]
      BY <2>1, SendsLog DEF ChannelInv
    <2>3. /\ avail = total /\ avail' = avail /\ end' = end /\ total' = total + Size(f)
          /\ log' # << >>
      <3>1. log' # << >>
        BY <2>2, <1>3
      <3> QED BY <3>1, <2>1 DEF UpstreamSends
    <2>4. Size(f) \in Nat /\ Size(f) # 0
      <3>1. Legible(f)
        BY WsClientAssumption, EncodedLegible
      <3> QED BY <3>1, SizeFacts
    <2>5. avail' # total'
      BY <2>3, <2>4, <1>3
    <2>6. Complete = Len(log) /\ Complete' = Len(log)
      BY <2>2, <2>3, <2>5, <1>3 DEF Complete
    <2>7. Arrived' = Arrived
      BY <2>2, <2>6, <1>3 DEF Arrived
    <2>8. Stopped' = Stopped
      BY <2>3, <1>1, <1>2 DEF Stopped
    <2> QED BY <2>7, <2>8, <1>2 DEF channel!vars
  <1>5. CASE Arrives
    <2>1. log' = log /\ total' = total /\ end' = end /\ avail < total
      BY <1>5 DEF Arrives
    <2>2. Stopped' = Stopped
      BY <2>1, <1>1, <1>2 DEF Stopped
    <2>3. CASE log = << >> \/ avail' # total
      <3>1. Complete' = Complete
        BY <2>1, <2>3, <1>3 DEF Complete
      <3>2. Arrived' = Arrived
        BY <3>1, <2>1 DEF Arrived
      <3> QED BY <3>2, <2>2, <1>2 DEF channel!vars
    <2>4. CASE log # << >> /\ avail' = total
      <3> DEFINE k == Kind(log[Len(log)].op)
      <3>1. Complete = Len(log) - 1 /\ Complete' = Len(log)
        BY <2>1, <2>4, <1>3 DEF Complete
      <3>2. k \in {"binary", "ping", "pong", "close", "other"}
        BY Kinds
      <3>3. Arrived' = Append(Arrived, k)
        <4>1. Len(Arrived) = Len(log) - 1 /\ Len(log) - 1 \in Nat
          BY <3>1, <2>4, <1>3 DEF Arrived
        <4>2. Arrived' = [i \in 1..Len(log) |-> Kind(log[i].op)]
          BY <3>1, <2>1 DEF Arrived
        <4>3. Append(Arrived, k) = [i \in 1..Len(log) |-> Kind(log[i].op)]
          BY <4>1, <3>1, <1>3 DEF Arrived
        <4> QED BY <4>2, <4>3
      <3> HIDE DEF k
      <3>4. channel!Send(k)
        BY <3>3, <2>2, <1>2 DEF channel!Send
      <3> QED BY <3>2, <3>4 DEF channel!Next
    <2> QED BY <2>3, <2>4
  <1>6. CASE UpstreamStops
    <2>1. log' = log /\ total' = total /\ avail' = avail /\ end' \in {"fin", "reset"}
      BY <1>6 DEF UpstreamStops
    <2>2. Arrived' = Arrived
      BY <2>1 DEF Arrived, Complete
    <2>3. Stopped' \in {"fin", "reset"}
      BY <2>1 DEF Stopped
    <2>4. channel!Stop
      BY <2>2, <2>3, <1>2 DEF channel!Stop
    <2> QED BY <2>4 DEF channel!Next
  <1> QED BY <1>4, <1>5, <1>6

LEMMA InitMaps == Init => channel!Init
  <1> SUFFICES ASSUME Init PROVE channel!Init
    OBVIOUS
  <1>1. log = << >> /\ got = << >> /\ end = "open" /\ outcome = "none" /\ avail = 0
    BY DEF Init
  <1>2. Complete = 0
    BY <1>1 DEF Complete
  <1>3. Arrived = << >>
    BY <1>2 DEF Arrived
  <1>4. Stopped = "open" /\ Reader = "none" /\ Len(got) = 0
    BY <1>1 DEF Stopped, Reader
  <1> QED BY <1>3, <1>4 DEF channel!Init

\* For any responses and frames and wherever the stream pauses, is cut or is lost:
\* what recv_frame gives its caller is a channel of whole frames, read in order up
\* to a close, with an end only when everything was read and an error only if the
\* stream broke off (RawWsReader::recv_frame over read_frame of modules/ws.rs).
THEOREM ImplementsChannel == Spec => ImplementsFrameChannel
  <1>1. ChannelInv /\ [Next]_vars => [channel!Next]_(channel!vars)
    <2> SUFFICES ASSUME ChannelInv, [Next]_vars PROVE [channel!Next]_(channel!vars)
      OBVIOUS
    <2>1. CASE UNCHANGED vars
      <3>1. UNCHANGED <<pc, outcome, got>> /\ UNCHANGED upstreamVars
        BY <2>1 DEF vars, readVars
      <3>2. Reader' = Reader /\ Len(got)' = Len(got)
        BY <3>1 DEF Reader
      <3> QED BY <3>1, <3>2, StreamSame DEF channel!vars
    <2> QED BY <2>1, ConnectMaps, ReadMaps, UpstreamMaps DEF Next
  <1> QED BY <1>1, InitChannel, NextChannel, InitMaps, PTL
          DEF Spec, ImplementsFrameChannel, channel!Spec
=============================================================================
