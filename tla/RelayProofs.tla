----------------------------- MODULE RelayProofs -----------------------------
(* Proofs about Relay: type correctness, the mutual exclusion of the two blocks on
   the write half, whole frames, answered Pings, and the refinement of Duplex, for
   any number of bytes and frames and any size of the connections. *)
EXTENDS Relay, SequenceTheorems, TLAPS

-----------------------------------------------------------------------------
(* The inductive invariant *)

UpWrites == up \in {"send", "sending", "close"}
DownWrites == down \in {"pong", "ponging"}

\* Exactly the blocks that write are in the queue of the mutex, each once, and a
\* block inside a frame is its head.
LockInv ==
    /\ lockq \in IF UpWrites /\ DownWrites THEN {<<"up", "down">>, <<"down", "up">>}
                 ELSE IF UpWrites THEN {<<"up">>}
                 ELSE IF DownWrites THEN {<<"down">>} ELSE {<< >>}
    /\ up = "sending" => Holds("up")
    /\ down = "ponging" => Holds("down") /\ up # "done"
    /\ up \in {"init", "init_tail"} <=> down = "idle"

InFrame(k, i) == wire # << >> /\ Last(wire) = [kind |-> k, part |-> "head", ping |-> i]

\* A head is the last piece only while the block that wrote it is inside its frame,
\* or for ever once the connection is reset.
WireInv ==
    /\ FramesWhole
    /\ up \in {"init_tail", "sending"} => InFrame("binary", 0)
    /\ down = "ponging" => InFrame("pong", wsPos)
    /\ wire # << >> /\ Last(wire).part = "head" =>
          up \in {"init_tail", "sending"} \/ down = "ponging" \/ upstream = "reset"

\* A complete Pong answers a Ping that was read, before the one being answered now
PongInv ==
    /\ DownWrites => wsPos \in 1..Len(wsLog) /\ wsLog[wsPos] = "ping"
    /\ \A i \in DOMAIN wire :
          /\ wire[i].kind = "binary" => wire[i].ping = 0
          /\ wire[i].kind = "pong" /\ wire[i].part = "tail" =>
                /\ wire[i].ping \in 1..wsPos /\ wsLog[wire[i].ping] = "ping"
                /\ DownWrites => wire[i].ping # wsPos
    /\ PingsAnswered

\* Upwards, what the frames carried and what is left of the chunk are the bytes
\* that were read, in order
UpInv ==
    /\ cRead <= cSent
    /\ up \in {"init", "init_tail"} => upGot = << >> /\ chunk = << >> /\ cRead = 0
    /\ up \in {"read", "send", "sending", "close", "done"} =>
          /\ Len(upGot) >= 1 /\ Len(upGot) + Len(chunk) = cRead + 1
          /\ \A i \in 1..Len(upGot) : upGot[i] = i - 1
          /\ \A i \in 1..Len(chunk) : chunk[i] = Len(upGot) - 1 + i
    /\ up \in {"read", "close", "done"} => chunk = << >>
    /\ up \in {"send", "sending"} => chunk # << >>
    /\ up \in {"close", "done"} => cRead = cSent /\ client # "open"

\* The frames of the upstream: dSent lists its binary ones in order, and a frame
\* that ends the stream is the last
LogInv ==
    /\ wsPos <= Len(wsLog) /\ Len(wsLog) <= MaxFrames
    /\ \A i \in 1..Len(wsLog) : wsLog[i] \in Terminators => i = Len(wsLog)
    /\ \A k \in 1..Len(dSent) : dSent[k] \in 1..Len(wsLog) /\ wsLog[dSent[k]] = "binary"
    /\ \A i \in 1..Len(wsLog) : wsLog[i] = "binary" => \E k \in 1..Len(dSent) : dSent[k] = i
    /\ \A j, k \in 1..Len(dSent) : j < k => dSent[j] < dSent[k]

\* How many binary frames the down block has taken care of, or is about to
Handled == Len(cWire) + IF down = "write" THEN 1 ELSE 0

DownInv ==
    /\ down # "failed" =>
          /\ Handled <= Len(dSent)
          /\ \A k \in 1..Len(cWire) : cWire[k] = dSent[k]
          /\ \A k \in 1..Len(dSent) : dSent[k] <= wsPos <=> k <= Handled
    /\ down = "write" => dSent[Len(cWire) + 1] = wsPos
    /\ down \in {"shutdown", "done"} =>
          wsPos = Len(wsLog) /\ (Terminated \/ upstream # "open")

Inv == TypeOK /\ LockInv /\ WireInv /\ PongInv /\ UpInv /\ LogInv /\ DownInv

-----------------------------------------------------------------------------
(* Sequences that grow and queues that shrink *)

LEMMA AppendFacts ==
    ASSUME NEW S, NEW q \in Seq(S), NEW x \in S
    PROVE  /\ Append(q, x) \in Seq(S) /\ Len(Append(q, x)) = Len(q) + 1 /\ Len(q) \in Nat
           /\ Append(q, x) # << >> /\ Append(q, x)[Len(q) + 1] = x
           /\ \A i \in 1..Len(q) : Append(q, x)[i] = q[i]
           /\ DOMAIN q = 1..Len(q) /\ DOMAIN Append(q, x) = 1..(Len(q) + 1)
  OBVIOUS

LEMMA ShortSequences ==
    ASSUME NEW S, NEW s \in Seq(S)
    PROVE  /\ Len(s) = 0 => s = << >>
           /\ Len(s) = 1 => s = <<s[1]>>
           /\ Len(s) = 2 => s = <<s[1], s[2]>>
  OBVIOUS

LEMMA QueueFacts ==
    ASSUME NEW S, NEW x \in S, NEW y \in S
    PROVE  /\ Append(<< >>, x) = <<x>> /\ Append(<<x>>, y) = <<x, y>>
           /\ Tail(<<x>>) = << >> /\ Tail(<<x, y>>) = <<y>>
           /\ Head(<<x>>) = x /\ Head(<<x, y>>) = x
           /\ <<x>> # << >> /\ <<x, y>> # << >>
  <1>1. << >> \in Seq(S) /\ <<x>> \in Seq(S) /\ <<x, y>> \in Seq(S)
    OBVIOUS
  <1>2. /\ Append(<< >>, x) = <<x>>
        /\ Head(<<x>>) = x /\ Head(<<x, y>>) = x
        /\ <<x>> # << >> /\ <<x, y>> # << >>
    OBVIOUS
  <1>3. Append(<<x>>, y) = <<x, y>>
    <2>1. /\ Append(<<x>>, y) \in Seq(S) /\ Len(Append(<<x>>, y)) = 2
          /\ Append(<<x>>, y)[1] = x /\ Append(<<x>>, y)[2] = y
      BY <1>1
    <2> QED BY <2>1, ShortSequences, Zenon
  <1>4. Tail(<<x>>) = << >>
    <2>1. Tail(<<x>>) \in Seq(S) /\ Len(Tail(<<x>>)) = 0
      BY <1>1
    <2> QED BY <2>1, ShortSequences, Zenon
  <1>5. Tail(<<x, y>>) = <<y>>
    <2>1. Tail(<<x, y>>) \in Seq(S) /\ Len(Tail(<<x, y>>)) = 1 /\ Tail(<<x, y>>)[1] = y
      BY <1>1
    <2> QED BY <2>1, ShortSequences, Zenon
  <1> QED BY <1>2, <1>3, <1>4, <1>5

LEMMA InitInv == Init => Inv
  <1> SUFFICES ASSUME Init PROVE Inv
    OBVIOUS
  <1>1. TypeOK
    <2>1. ASSUME NEW S PROVE << >> \in Seq(S)
      OBVIOUS
    <2>2. \A i \in 1..Len(<< >>) : FALSE
      OBVIOUS
    <2> QED BY <2>1, <2>2 DEF Init, TypeOK, Peers
  <1>2. LockInv
    BY DEF Init, LockInv, UpWrites, DownWrites
  <1>3. FramesWhole /\ PingsAnswered
    BY DEF Init, FramesWhole, PingsAnswered, Answered
  <1>4. WireInv /\ PongInv
    BY <1>3 DEF Init, WireInv, PongInv, DownWrites
  <1>5. UpInv
    BY DEF Init, UpInv
  <1>6. LogInv /\ DownInv
    BY RelayAssumption DEF Init, LogInv, DownInv, Handled
  <1> QED BY <1>1, <1>2, <1>4, <1>5, <1>6 DEF Inv

-----------------------------------------------------------------------------
(* The mutex *)

LEMMA LockQueues ==
    /\ Append(<< >>, "up") = <<"up">> /\ Append(<<"down">>, "up") = <<"down", "up">>
    /\ Append(<< >>, "down") = <<"down">> /\ Append(<<"up">>, "down") = <<"up", "down">>
    /\ Tail(<<"up">>) = << >> /\ Tail(<<"up", "down">>) = <<"down">>
    /\ Tail(<<"down">>) = << >> /\ Tail(<<"down", "up">>) = <<"up">>
    /\ Head(<<"up">>) = "up" /\ Head(<<"up", "down">>) = "up"
    /\ Head(<<"down">>) = "down" /\ Head(<<"down", "up">>) = "down"
    /\ <<"up">> # << >> /\ <<"up", "down">> # << >>
    /\ <<"down">> # << >> /\ <<"down", "up">> # << >>
  <1>1. "up" \in {"up", "down"} /\ "down" \in {"up", "down"}
    OBVIOUS
  <1> QED BY <1>1, QueueFacts, Zenon

\* Whoever holds the lock is in the queue, first
LEMMA Holders ==
    ASSUME LockInv
    PROVE  /\ Holds("up") => UpWrites /\ lockq \in {<<"up">>, <<"up", "down">>}
           /\ Holds("down") => DownWrites /\ lockq \in {<<"down">>, <<"down", "up">>}
           /\ ~(Holds("up") /\ Holds("down"))
  BY LockQueues DEF LockInv, Holds

LEMMA NextLock == Inv /\ [Next]_vars => LockInv'
  <1> SUFFICES ASSUME Inv, [Next]_vars PROVE LockInv'
    OBVIOUS
  <1>0. LockInv
    BY DEF Inv
  <1> USE DEF UpWrites, DownWrites, Holds
  \* Where a block goes without the lock
  <1>1. ASSUME UNCHANGED <<lockq, down>>, UpWrites' <=> UpWrites,
               up' = "sending" => Holds("up"), up' = "done" => up = "done",
               up \in {"init", "init_tail"} <=> up' \in {"init", "init_tail"}
        PROVE  LockInv'
    BY <1>0, <1>1 DEF LockInv
  <1>2. ASSUME UNCHANGED <<lockq, up>>, DownWrites' <=> DownWrites,
               down' = "ponging" => Holds("down") /\ up # "done",
               down = "idle" <=> down' = "idle"
        PROVE  LockInv'
    BY <1>0, <1>2 DEF LockInv
  \* Where it asks for it and releases it
  <1>3. ASSUME ~UpWrites, up \notin {"init", "init_tail"}, up' \in {"send", "close"},
               Lock("up"), UNCHANGED down
        PROVE  LockInv'
    BY <1>0, <1>3, LockQueues DEF LockInv, Lock
  <1>4. ASSUME Holds("up"), up' \in {"read", "done", "failed"}, Unlock, UNCHANGED down
        PROVE  LockInv'
    BY <1>0, <1>4, Holders, LockQueues DEF LockInv, Unlock
  <1>5. ASSUME ~DownWrites, down # "idle", down' = "pong", Lock("down"), UNCHANGED up
        PROVE  LockInv'
    BY <1>0, <1>5, LockQueues DEF LockInv, Lock
  <1>6. ASSUME Holds("down"), down' \in {"recv", "failed"}, Unlock, UNCHANGED up
        PROVE  LockInv'
    BY <1>0, <1>6, Holders, LockQueues DEF LockInv, Unlock
  <1>7. ASSUME UNCHANGED <<lockq, up, down>> PROVE LockInv'
    BY <1>0, <1>7 DEF LockInv
  <1> HIDE DEF UpWrites, DownWrites, Holds
  <1>10. CASE SendInitHead
    BY <1>1, <1>10 DEF SendInitHead, downVars, UpWrites
  <1>11. CASE SendInitTail \/ SendInitFails
    BY <1>0, <1>11 DEF SendInitTail, SendInitFails, LockInv, UpWrites, DownWrites
  <1>12. ASSUME NEW n, UpRead(n) PROVE LockInv'
    BY <1>3, <1>12 DEF UpRead, downVars, UpWrites
  <1>13. CASE UpReadEof
    BY <1>3, <1>13 DEF UpReadEof, downVars, UpWrites
  <1>14. CASE UpReadFails
    BY <1>1, <1>14 DEF UpReadFails, downVars, UpWrites
  <1>15. CASE UpSendHead
    BY <1>1, <1>15 DEF UpSendHead, downVars, UpWrites
  <1>16. ASSUME NEW n, UpSendTail(n) PROVE LockInv'
    <2>1. Holds("up")
      BY <1>0, <1>16 DEF UpSendTail, LockInv
    <2>2. CASE up' = "read" /\ Unlock
      BY <1>4, <1>16, <2>1, <2>2 DEF UpSendTail, downVars
    <2>3. CASE up' = "send" /\ UNCHANGED lockq
      BY <1>1, <1>16, <2>3 DEF UpSendTail, downVars, UpWrites
    <2> QED BY <1>16, <2>2, <2>3 DEF UpSendTail
  <1>17. CASE UpWriteFails \/ UpClose
    BY <1>4, <1>17 DEF UpWriteFails, UpClose, downVars
  <1>20. CASE DownRecvBinary \/ DownRecvPong \/ DownRecvClose
    BY <1>2, <1>20 DEF DownRecvBinary, DownRecvPong, DownRecvClose, DownRecv, upVars, DownWrites
  <1>21. CASE DownRecvPing
    BY <1>5, <1>21 DEF DownRecvPing, DownRecv, upVars, DownWrites
  <1>22. CASE DownRecvEof \/ DownRecvFails \/ DownWrite \/ DownWriteFails \/ DownShutdown
    BY <1>2, <1>22
       DEF DownRecvEof, DownRecvFails, DownWrite, DownWriteFails, DownShutdown, upVars, DownWrites
  <1>23. CASE DownPongHead
    BY <1>2, <1>23 DEF DownPongHead, Put, CanWrite, upVars, DownWrites
  <1>24. CASE DownPongTail
    BY <1>0, <1>6, <1>24 DEF DownPongTail, upVars, LockInv
  <1>25. CASE DownPongFails
    BY <1>6, <1>25 DEF DownPongFails, upVars
  <1>30. CASE Return \/ PeerStep \/ UNCHANGED vars
    BY <1>7, <1>30 DEF Return, PeerStep, vars, upVars, downVars
  <1> QED
    BY <1>10, <1>11, <1>12, <1>13, <1>14, <1>15, <1>16, <1>17, <1>20, <1>21, <1>22, <1>23,
       <1>24, <1>25, <1>30
       DEF Next, UpStep, DownStep

-----------------------------------------------------------------------------
(* Types *)

LEMMA PartFacts ==
    ASSUME NEW S, NEW q \in Seq(S), NEW n \in 0..Len(q)
    PROVE  /\ SubSeq(q, 1, n) \in Seq(S) /\ Len(SubSeq(q, 1, n)) = n
           /\ \A i \in 1..n : SubSeq(q, 1, n)[i] = q[i]
           /\ SubSeq(q, n + 1, Len(q)) \in Seq(S) /\ Len(SubSeq(q, n + 1, Len(q))) = Len(q) - n
           /\ \A i \in 1..(Len(q) - n) : SubSeq(q, n + 1, Len(q))[i] = q[n + i]
  <1>1. /\ 1 \in Int /\ n \in Int /\ n + 1 \in Int /\ Len(q) \in Int
        /\ \A i \in 1..n : q[i] \in S
        /\ \A i \in (n + 1)..Len(q) : q[i] \in S
    OBVIOUS
  <1>2. /\ SubSeq(q, 1, n) \in Seq(S)
        /\ Len(SubSeq(q, 1, n)) = IF 1 <= n THEN n - 1 + 1 ELSE 0
        /\ \A i \in 1..(n - 1 + 1) : SubSeq(q, 1, n)[i] = q[1 + i - 1]
    BY <1>1, SubSeqProperties
  <1>3. /\ SubSeq(q, n + 1, Len(q)) \in Seq(S)
        /\ Len(SubSeq(q, n + 1, Len(q))) = IF n + 1 <= Len(q) THEN Len(q) - (n + 1) + 1 ELSE 0
        /\ \A i \in 1..(Len(q) - (n + 1) + 1) : SubSeq(q, n + 1, Len(q))[i] = q[n + 1 + i - 1]
    BY <1>1, SubSeqProperties
  <1> QED BY <1>2, <1>3

LEMMA PutTypes ==
    ASSUME TypeOK, NEW k \in {"binary", "pong"}, NEW p \in {"head", "tail"}, NEW i \in Nat, Put(k, p, i)
    PROVE  wire' \in Seq(Piece)
  BY DEF TypeOK, Put, Piece

LEMMA NextTypes == Inv /\ [Next]_vars => TypeOK'
  <1> SUFFICES ASSUME Inv, [Next]_vars PROVE TypeOK'
    OBVIOUS
  <1>0. TypeOK
    BY DEF Inv
  <1>1. lockq' \in Seq({"up", "down"})
    <2>1. LockInv'
      BY NextLock
    <2>2. "up" \in {"up", "down"} /\ "down" \in {"up", "down"}
      OBVIOUS
    <2>3. ASSUME NEW S, NEW x \in S, NEW y \in S
          PROVE  << >> \in Seq(S) /\ <<x>> \in Seq(S) /\ <<x, y>> \in Seq(S)
      OBVIOUS
    <2>4. lockq' \in {<< >>, <<"up">>, <<"down">>, <<"up", "down">>, <<"down", "up">>}
      BY <2>1 DEF LockInv
    <2> QED BY <2>2, <2>3, <2>4, Zenon
  <1> DEFINE UpTypes == /\ up \in {"init", "init_tail", "read", "send", "sending", "close",
                                   "done", "failed"}
                        /\ chunk \in Seq(Nat) /\ upGot \in Seq(Nat) /\ cRead \in Nat
                        /\ \A i \in 1..Len(chunk) : chunk[i] \in 1..cRead
             DownTypes == /\ down \in {"idle", "recv", "write", "pong", "ponging", "shutdown",
                                       "done", "failed"}
                          /\ wsPos \in Nat /\ cWire \in Seq(Nat)
             PeerTypes == /\ taken \in Nat /\ cSent \in Nat /\ wsLog \in Seq(FrameKinds)
                          /\ dSent \in Seq(Nat) /\ cTaken \in Nat
                          /\ client \in Peers /\ upstream \in Peers
  <1>2. UpTypes /\ DownTypes /\ PeerTypes /\ wire \in Seq(Piece) /\ ended \in BOOLEAN
    BY <1>0 DEF TypeOK
  <1>3. UpTypes' /\ DownTypes' /\ PeerTypes' /\ wire' \in Seq(Piece) /\ ended' \in BOOLEAN => TypeOK'
    BY <1>1 DEF TypeOK
  <1>4. /\ UNCHANGED upVars => UpTypes'
        /\ UNCHANGED downVars => DownTypes'
        /\ UNCHANGED peerVars => PeerTypes'
    BY <1>2 DEF upVars, downVars, peerVars
  <1>5. CASE UpStep
    <2>1. PeerTypes' /\ UNCHANGED ended
      BY <1>4, <1>5
         DEF UpStep, SendInitHead, SendInitTail, SendInitFails, UpRead, UpReadEof, UpReadFails,
             UpSendHead, UpSendTail, UpWriteFails, UpClose
    <2>2. wire' \in Seq(Piece)
      <3>1. \/ UNCHANGED wire
            \/ \E p \in {"head", "tail"} : Put("binary", p, 0)
        BY <1>5
           DEF UpStep, SendInitHead, SendInitTail, SendInitFails, UpRead, UpReadEof, UpReadFails,
               UpSendHead, UpSendTail, UpWriteFails, UpClose
      <3> QED BY <1>0, <1>2, <3>1, PutTypes
    <2>3. DownTypes'
      <3>1. \/ UNCHANGED downVars
            \/ UNCHANGED <<wsPos, cWire>> /\ down' \in {"recv", "failed"}
        BY <1>5
           DEF UpStep, SendInitHead, SendInitTail, SendInitFails, UpRead, UpReadEof, UpReadFails,
               UpSendHead, UpSendTail, UpWriteFails, UpClose
      <3> QED BY <1>2, <1>4, <3>1
    <2>4. UpTypes'
      <3>1. ASSUME NEW n \in 1..(cSent - cRead), UpRead(n) PROVE UpTypes'
        <4>1. n \in Nat /\ cRead \in Nat
          BY <1>2
        <4>2. [i \in 1..n |-> cRead + i] \in Seq(Nat) /\ cRead + n \in Nat
          BY <4>1
        <4> QED BY <1>2, <3>1, <4>2 DEF UpRead
      <3>2. ASSUME NEW n \in 1..Len(chunk), UpSendTail(n) PROVE UpTypes'
        <4>1. SubSeq(chunk, 1, n) \in Seq(Nat) /\ SubSeq(chunk, n + 1, Len(chunk)) \in Seq(Nat)
          <5>1. n \in 0..Len(chunk)
            BY <1>2
          <5> QED BY <1>2, <5>1, PartFacts
        <4>2. upGot \o SubSeq(chunk, 1, n) \in Seq(Nat)
          BY <1>2, <4>1, ConcatProperties
        <4>3. /\ chunk' = SubSeq(chunk, n + 1, Len(chunk)) /\ UNCHANGED cRead
              /\ upGot' = upGot \o SubSeq(chunk, 1, n) /\ up' \in {"read", "send"}
          BY <3>2 DEF UpSendTail
        <4>4. \A i \in 1..Len(chunk') : chunk'[i] \in 1..cRead
          <5>1. n \in 1..Len(chunk) /\ Len(chunk) \in Nat
            BY <1>2
          <5>2. /\ Len(chunk') = Len(chunk) - n
                /\ \A i \in 1..(Len(chunk) - n) : chunk'[i] = chunk[n + i]
            BY <1>2, <4>3, <5>1, PartFacts
          <5>3. \A i \in 1..(Len(chunk) - n) : n + i \in 1..Len(chunk)
            BY <5>1
          <5> QED BY <1>2, <5>2, <5>3
        <4> QED BY <1>2, <4>1, <4>2, <4>3, <4>4
      <3>3. CASE SendInitTail
        <4>1. <<0>> \in Seq(Nat)
          OBVIOUS
        <4> QED BY <1>2, <3>3, <4>1 DEF SendInitTail
      <3>4. CASE \/ SendInitHead \/ SendInitFails \/ UpReadEof \/ UpReadFails
                 \/ UpSendHead \/ UpWriteFails \/ UpClose
        BY <1>2, <3>4
           DEF SendInitHead, SendInitFails, UpReadEof, UpReadFails, UpSendHead, UpWriteFails, UpClose
      <3> QED BY <1>5, <3>1, <3>2, <3>3, <3>4 DEF UpStep
    <2> QED BY <1>2, <1>3, <2>1, <2>2, <2>3, <2>4
  <1>6. CASE DownStep
    <2>1. UpTypes' /\ PeerTypes' /\ UNCHANGED ended
      BY <1>4, <1>6
         DEF DownStep, DownRecvBinary, DownRecvPing, DownRecvPong, DownRecvClose, DownRecv,
             DownRecvEof, DownRecvFails, DownWrite, DownWriteFails, DownPongHead, DownPongTail,
             DownPongFails, DownShutdown
    <2>2. wire' \in Seq(Piece)
      <3>1. \/ UNCHANGED wire
            \/ \E p \in {"head", "tail"} : Put("pong", p, wsPos)
        BY <1>6
           DEF DownStep, DownRecvBinary, DownRecvPing, DownRecvPong, DownRecvClose, DownRecv,
               DownRecvEof, DownRecvFails, DownWrite, DownWriteFails, DownPongHead, DownPongTail,
               DownPongFails, DownShutdown
      <3>2. CASE \E p \in {"head", "tail"} : Put("pong", p, wsPos)
        <4>1. PICK p \in {"head", "tail"} :
                 wire' = Append(wire, [kind |-> "pong", part |-> p, ping |-> wsPos])
          BY <3>2 DEF Put
        <4>2. [kind |-> "pong", part |-> p, ping |-> wsPos] \in Piece
          BY <1>2 DEF Piece
        <4> QED BY <1>2, <4>1, <4>2, AppendFacts
      <3> QED BY <1>2, <3>1, <3>2
    <2>3. DownTypes'
      <3>1. CASE DownWrite
        BY <1>2, <3>1, AppendFacts DEF DownWrite
      <3>2. CASE DownRecvBinary \/ DownRecvPing \/ DownRecvPong \/ DownRecvClose
        BY <1>2, <3>2 DEF DownRecvBinary, DownRecvPing, DownRecvPong, DownRecvClose, DownRecv
      <3>3. CASE \/ DownRecvEof \/ DownRecvFails \/ DownWriteFails \/ DownPongHead
                 \/ DownPongTail \/ DownPongFails \/ DownShutdown
        BY <1>2, <3>3
           DEF DownRecvEof, DownRecvFails, DownWriteFails, DownPongHead, DownPongTail,
               DownPongFails, DownShutdown
      <3> QED BY <1>6, <3>1, <3>2, <3>3 DEF DownStep
    <2> QED BY <1>2, <1>3, <2>1, <2>2, <2>3
  <1>7. CASE PeerStep
    <2>1. PeerTypes'
      <3>1. CASE UpstreamSends
        <4>1. PICK k \in FrameKinds :
                 /\ wsLog' = Append(wsLog, k)
                 /\ dSent' = IF k = "binary" THEN Append(dSent, Len(wsLog) + 1) ELSE dSent
          BY <3>1 DEF UpstreamSends
        <4>2. wsLog' \in Seq(FrameKinds) /\ dSent' \in Seq(Nat)
          BY <1>2, <4>1
        <4> QED BY <1>2, <3>1, <4>2 DEF UpstreamSends
      <3>2. CASE ClientSends \/ ClientReads \/ UpstreamReads
        BY <1>2, <3>2, SMTT(30) DEF ClientSends, ClientReads, UpstreamReads
      <3>3. CASE ClientStops \/ UpstreamStops
        BY <1>2, <3>3 DEF ClientStops, UpstreamStops, Peers
      <3> QED BY <1>7, <3>1, <3>2, <3>3 DEF PeerStep
    <2> QED BY <1>2, <1>3, <1>4, <1>7, <2>1 DEF PeerStep
  <1>8. CASE Return \/ UNCHANGED vars
    BY <1>2, <1>3, <1>4, <1>8 DEF Return, vars
  <1> QED BY <1>5, <1>6, <1>7, <1>8 DEF Next

-----------------------------------------------------------------------------
(* Whole frames *)

\* One more piece that fits behind the last one
LEMMA WholeStep ==
    ASSUME wire \in Seq(Piece), FramesWhole, NEW p \in Piece, wire' = Append(wire, p),
           wire # << >> =>
              \/ /\ Last(wire).part = "head" /\ p.part = "tail"
                 /\ Last(wire).kind = p.kind /\ Last(wire).ping = p.ping
              \/ Last(wire).part = "tail" /\ p.part = "head"
    PROVE  FramesWhole' /\ wire' # << >> /\ Last(wire') = p
  <1>1. /\ Len(wire') = Len(wire) + 1 /\ Len(wire) \in Nat /\ wire' # << >>
        /\ wire'[Len(wire) + 1] = p /\ \A i \in 1..Len(wire) : wire'[i] = wire[i]
    BY AppendFacts
  <1>2. Last(wire') = p
    BY <1>1 DEF Last
  <1>3. ASSUME NEW i \in 1..(Len(wire') - 1)
        PROVE  \/ /\ wire'[i].part = "head" /\ wire'[i + 1].part = "tail"
                  /\ wire'[i].kind = wire'[i + 1].kind /\ wire'[i].ping = wire'[i + 1].ping
               \/ wire'[i].part = "tail" /\ wire'[i + 1].part = "head"
    <2>1. CASE i < Len(wire)
      <3>1. /\ i \in 1..(Len(wire) - 1)
            /\ wire'[i] = wire[i] /\ wire'[i + 1] = wire[i + 1]
        BY <1>1, <2>1
      <3> QED BY <3>1 DEF FramesWhole
    <2>2. CASE i = Len(wire)
      <3>1. /\ wire # << >> /\ wire'[i] = Last(wire) /\ wire'[i + 1] = p
        BY <1>1, <2>2 DEF Last
      <3> QED BY <3>1
    <2> QED BY <1>1, <2>1, <2>2
  <1> QED BY <1>1, <1>2, <1>3 DEF FramesWhole

\* A head is written where no frame is open
LEMMA PutHead ==
    ASSUME TypeOK, WireInv, NEW k \in {"binary", "pong"}, NEW i \in Nat, Put(k, "head", i),
           up \notin {"init_tail", "sending"}, down # "ponging"
    PROVE  FramesWhole' /\ wire' # << >> /\ Last(wire') = [kind |-> k, part |-> "head", ping |-> i]
  <1> DEFINE p == [kind |-> k, part |-> "head", ping |-> i]
  <1>1. p \in Piece /\ p.part = "head" /\ wire' = Append(wire, p) /\ upstream # "reset"
    BY DEF Piece, Put, CanWrite
  <1>2. wire \in Seq(Piece) /\ FramesWhole
    BY DEF TypeOK, WireInv
  <1>3. wire # << >> => Last(wire).part = "tail"
    <2>1. ASSUME wire # << >> PROVE Last(wire) \in Piece
      BY <1>2, <2>1 DEF Last
    <2>2. wire # << >> => Last(wire).part # "head"
      BY <1>1 DEF WireInv
    <2> QED BY <2>1, <2>2 DEF Piece
  <1> HIDE DEF p
  <1>4. FramesWhole' /\ wire' # << >> /\ Last(wire') = p
    BY <1>1, <1>2, <1>3, WholeStep
  <1> QED BY <1>4 DEF p

\* A tail is written behind its own head
LEMMA PutTail ==
    ASSUME TypeOK, WireInv, NEW k \in {"binary", "pong"}, NEW i \in Nat, Put(k, "tail", i),
           InFrame(k, i)
    PROVE  FramesWhole' /\ wire' # << >> /\ Last(wire') = [kind |-> k, part |-> "tail", ping |-> i]
  <1> DEFINE p == [kind |-> k, part |-> "tail", ping |-> i]
  <1>1. /\ p \in Piece /\ p.part = "tail" /\ p.kind = k /\ p.ping = i
        /\ wire' = Append(wire, p)
    BY DEF Piece, Put
  <1>2. wire \in Seq(Piece) /\ FramesWhole
    BY DEF TypeOK, WireInv
  <1>3. Last(wire).part = "head" /\ Last(wire).kind = k /\ Last(wire).ping = i
    BY DEF InFrame
  <1> HIDE DEF p
  <1>4. FramesWhole' /\ wire' # << >> /\ Last(wire') = p
    BY <1>1, <1>2, <1>3, WholeStep
  <1> QED BY <1>4 DEF p

LEMMA NextWire == Inv /\ [Next]_vars => WireInv'
  <1> SUFFICES ASSUME Inv, [Next]_vars PROVE WireInv'
    OBVIOUS
  <1>0. TypeOK /\ WireInv /\ LockInv
    BY DEF Inv
  \* A step that writes nothing, and leaves a frame only behind a reset
  <1>1. ASSUME UNCHANGED wire,
               up' \in {"init_tail", "sending"} => up' = up,
               down' = "ponging" => down' = down /\ wsPos' = wsPos,
               up \in {"init_tail", "sending"} /\ up' # up => upstream' = "reset",
               down = "ponging" /\ down' # down => upstream' = "reset",
               upstream = "reset" => upstream' = "reset"
        PROVE  WireInv'
    <2>1. FramesWhole'
      BY <1>0, <1>1 DEF WireInv, FramesWhole
    <2> QED BY <1>0, <1>1, <2>1 DEF WireInv, InFrame
  \* A step that writes a head, or a tail
  <1>2. ASSUME FramesWhole', wire' # << >>, Last(wire') = [kind |-> "binary", part |-> "head", ping |-> 0],
               up' \in {"init_tail", "sending"}, down' # "ponging"
        PROVE  WireInv'
    BY <1>2 DEF WireInv, InFrame
  <1>3. ASSUME FramesWhole', wire' # << >>, Last(wire') = [kind |-> "pong", part |-> "head", ping |-> wsPos],
               wsPos' = wsPos, up' \notin {"init_tail", "sending"}, down' = "ponging"
        PROVE  WireInv'
    BY <1>3 DEF WireInv, InFrame
  <1>4. ASSUME FramesWhole', wire' # << >>, Last(wire').part = "tail",
               up' \notin {"init_tail", "sending"}, down' # "ponging"
        PROVE  WireInv'
    BY <1>4 DEF WireInv
  \* Only one block is inside a frame
  <1>5. /\ Holds("up") => down # "ponging"
        /\ Holds("down") => up \notin {"init_tail", "sending"}
        /\ up = "sending" => Holds("up")
        /\ down = "ponging" => Holds("down")
        /\ up \in {"init", "init_tail"} => down = "idle"
    BY <1>0, Holders DEF LockInv, DownWrites
  <1>10. CASE SendInitHead
    <2>1. up = "init" /\ down # "ponging" /\ down' = down /\ up' = "init_tail"
      BY <1>5, <1>10 DEF SendInitHead, downVars
    <2>2. FramesWhole' /\ wire' # << >> /\ Last(wire') = [kind |-> "binary", part |-> "head", ping |-> 0]
      BY <1>0, <1>10, <2>1, PutHead DEF SendInitHead
    <2> QED BY <1>2, <2>1, <2>2
  <1>11. CASE SendInitTail
    <2>1. FramesWhole' /\ wire' # << >> /\ Last(wire') = [kind |-> "binary", part |-> "tail", ping |-> 0]
      BY <1>0, <1>11, PutTail DEF SendInitTail, WireInv
    <2> QED BY <1>4, <1>11, <2>1 DEF SendInitTail
  <1>12. CASE SendInitFails
    BY <1>1, <1>5, <1>12 DEF SendInitFails, peerVars
  <1>13. ASSUME NEW n, UpRead(n) PROVE WireInv'
    BY <1>1, <1>13 DEF UpRead, downVars, peerVars
  <1>14. CASE UpReadEof \/ UpReadFails
    BY <1>1, <1>14 DEF UpReadEof, UpReadFails, downVars, peerVars
  <1>15. CASE UpSendHead
    <2>1. up = "send" /\ down # "ponging" /\ down' = down /\ up' = "sending"
      BY <1>5, <1>15 DEF UpSendHead, downVars
    <2>2. FramesWhole' /\ wire' # << >> /\ Last(wire') = [kind |-> "binary", part |-> "head", ping |-> 0]
      BY <1>0, <1>15, <2>1, PutHead DEF UpSendHead
    <2> QED BY <1>2, <2>1, <2>2
  <1>16. ASSUME NEW n, UpSendTail(n) PROVE WireInv'
    <2>1. up = "sending" /\ down # "ponging" /\ down' = down /\ up' \in {"read", "send"}
      BY <1>5, <1>16 DEF UpSendTail, downVars
    <2>2. FramesWhole' /\ wire' # << >> /\ Last(wire') = [kind |-> "binary", part |-> "tail", ping |-> 0]
      BY <1>0, <1>16, PutTail DEF UpSendTail, WireInv
    <2> QED BY <1>4, <2>1, <2>2
  <1>17. CASE UpWriteFails
    BY <1>1, <1>17 DEF UpWriteFails, downVars, peerVars
  <1>18. CASE UpClose
    BY <1>1, <1>18 DEF UpClose, downVars, peerVars
  <1>20. CASE DownRecvBinary \/ DownRecvPing \/ DownRecvPong \/ DownRecvClose
    BY <1>1, <1>20 DEF DownRecvBinary, DownRecvPing, DownRecvPong, DownRecvClose, DownRecv, upVars, peerVars
  <1>21. CASE DownRecvEof \/ DownRecvFails \/ DownWrite \/ DownWriteFails \/ DownShutdown
    BY <1>1, <1>21
       DEF DownRecvEof, DownRecvFails, DownWrite, DownWriteFails, DownShutdown, upVars, peerVars
  <1>22. CASE DownPongHead
    <2>1. /\ up \notin {"init_tail", "sending"} /\ up' = up /\ down' = "ponging" /\ down = "pong"
          /\ wsPos' = wsPos
      BY <1>5, <1>22 DEF DownPongHead, upVars
    <2>2. PICK i \in Nat : i = wsPos
      BY <1>0 DEF TypeOK
    <2>3. Put("pong", "head", i)
      BY <1>22, <2>2 DEF DownPongHead, Put
    <2>4. FramesWhole' /\ wire' # << >> /\ Last(wire') = [kind |-> "pong", part |-> "head", ping |-> i]
      BY <1>0, <2>1, <2>3, PutHead
    <2> QED BY <1>3, <2>1, <2>2, <2>4
  <1>23. CASE DownPongTail
    <2>1. /\ up \notin {"init_tail", "sending"} /\ up' = up /\ down' = "recv" /\ down = "ponging"
      BY <1>5, <1>23 DEF DownPongTail, upVars
    <2>2. PICK i \in Nat : i = wsPos
      BY <1>0 DEF TypeOK
    <2>3. Put("pong", "tail", i) /\ InFrame("pong", i)
      BY <1>0, <1>23, <2>1, <2>2 DEF DownPongTail, Put, WireInv, InFrame
    <2>4. FramesWhole' /\ wire' # << >> /\ Last(wire') = [kind |-> "pong", part |-> "tail", ping |-> i]
      BY <1>0, <2>3, PutTail
    <2> QED BY <1>4, <2>1, <2>4
  <1>24. CASE DownPongFails
    BY <1>0, <1>1, <1>24 DEF DownPongFails, upVars, peerVars, LockInv
  <1>25. CASE PeerStep
    <2>1. upstream = "reset" => upstream' = "reset"
      BY <1>25
         DEF PeerStep, ClientSends, ClientReads, ClientStops, UpstreamSends, UpstreamReads, UpstreamStops
    <2> QED BY <1>1, <1>25, <2>1 DEF PeerStep, upVars, downVars
  <1>26. CASE Return \/ UNCHANGED vars
    BY <1>1, <1>26 DEF Return, vars, upVars, downVars, peerVars
  <1> QED
    BY <1>10, <1>11, <1>12, <1>13, <1>14, <1>15, <1>16, <1>17, <1>18, <1>20, <1>21, <1>22,
       <1>23, <1>24, <1>25, <1>26
       DEF Next, UpStep, DownStep

-----------------------------------------------------------------------------
(* Pings and Pongs *)

\* Nothing is written, and the log of the upstream only grows
LEMMA PongsStay ==
    ASSUME TypeOK, TypeOK', LogInv, PongInv, UNCHANGED wire,
           Len(wsLog') >= Len(wsLog), \A i \in 1..Len(wsLog) : wsLog'[i] = wsLog[i],
           wsPos' = wsPos, DownWrites' => DownWrites,
           DownWrites => DownWrites' \/ down' = "failed" \/ up = "done",
           up = "done" => up' = "done", down = "failed" => down' = "failed"
    PROVE  PongInv'
  <1>1. /\ DOMAIN wire' = DOMAIN wire /\ wsPos \in Nat /\ wsPos <= Len(wsLog)
        /\ \A i \in DOMAIN wire : wire[i] \in Piece
    BY SMTT(30) DEF TypeOK, LogInv
  <1>1a. \A p \in 1..wsPos : wsLog'[p] = wsLog[p]
    <2>1. Len(wsLog) \in Nat
      BY SMTT(30) DEF TypeOK
    <2>2. \A p \in 1..wsPos : p \in 1..Len(wsLog)
      BY <1>1, <2>1
    <2> QED BY <2>2
  <1>2. DownWrites' => wsPos' \in 1..Len(wsLog') /\ wsLog'[wsPos'] = "ping"
    <2>1. Len(wsLog) \in Nat /\ Len(wsLog') \in Nat
      BY SMTT(30) DEF TypeOK
    <2>2. DownWrites' => wsPos \in 1..Len(wsLog) /\ wsLog[wsPos] = "ping"
      BY DEF PongInv
    <2> QED BY <2>1, <2>2
  <1>3. ASSUME NEW i \in DOMAIN wire
        PROVE  /\ wire[i].kind = "binary" => wire[i].ping = 0
               /\ wire[i].kind = "pong" /\ wire[i].part = "tail" =>
                     /\ wire[i].ping \in 1..wsPos /\ wsLog'[wire[i].ping] = "ping"
                     /\ DownWrites' => wire[i].ping # wsPos
    <2>1. wire[i].kind = "binary" => wire[i].ping = 0
      BY DEF PongInv
    <2>2. ASSUME wire[i].kind = "pong" /\ wire[i].part = "tail"
          PROVE  /\ wire[i].ping \in 1..wsPos /\ wsLog[wire[i].ping] = "ping"
                 /\ DownWrites => wire[i].ping # wsPos
      BY <2>2 DEF PongInv
    <2> QED BY <1>1a, <2>1, <2>2
  <1>4. PingsAnswered'
    <2>1. ASSUME NEW p \in 1..wsPos
          PROVE  \/ wsLog'[p] # "ping"
                 \/ up' = "done" \/ down' = "failed"
                 \/ p = wsPos /\ DownWrites'
                 \/ \E i \in DOMAIN wire : wire[i].part = "tail" /\ wire[i].ping = p
      <3> QED BY <1>1a DEF PongInv, PingsAnswered, Answered, DownWrites
    <2>2. ASSUME NEW i \in DOMAIN wire, NEW j \in DOMAIN wire,
                 wire[i].kind = "pong" /\ wire[i].part = "tail"
          PROVE  wsLog'[wire[i].ping] = "ping" /\ (wire[j] = wire[i] => i = j)
      <3>1. wire[j] = wire[i] => i = j
        BY <2>2 DEF PongInv, PingsAnswered, Answered
      <3> QED BY <1>3, <2>2, <3>1
    <2> QED BY <2>1, <2>2 DEF PingsAnswered, Answered, DownWrites
  <1> QED BY <1>1, <1>2, <1>3, <1>4 DEF PongInv

\* A piece is written that is not the end of a Pong
LEMMA PongsStayPut ==
    ASSUME TypeOK, TypeOK', PongInv, NEW x \in Piece, wire' = Append(wire, x),
           (x.kind = "binary" /\ x.ping = 0) \/ (x.part = "head" /\ x.kind = "pong"),
           UNCHANGED <<wsLog, wsPos>>, DownWrites' <=> DownWrites,
           up = "done" => up' = "done", down = "failed" => down' = "failed"
    PROVE  PongInv'
  <1>1. /\ DOMAIN wire = 1..Len(wire) /\ DOMAIN wire' = 1..(Len(wire) + 1) /\ Len(wire) \in Nat
        /\ wire'[Len(wire) + 1] = x /\ \A i \in 1..Len(wire) : wire'[i] = wire[i]
    BY AppendFacts DEF TypeOK
  <1>2. ASSUME NEW i \in DOMAIN wire', wire'[i].kind = "pong", wire'[i].part = "tail"
        PROVE  i \in DOMAIN wire /\ wire'[i] = wire[i]
    <2>1. i # Len(wire) + 1
      BY <1>1, <1>2
    <2> QED BY <1>1, <2>1
  <1>3. ASSUME NEW i \in DOMAIN wire', wire'[i].kind = "binary"
        PROVE  wire'[i].ping = 0
    <2>1. CASE i = Len(wire) + 1
      BY <1>1, <1>3, <2>1
    <2>2. CASE i # Len(wire) + 1
      <3>1. i \in DOMAIN wire /\ wire'[i] = wire[i]
        BY <1>1, <2>2
      <3> QED BY <1>3, <3>1 DEF PongInv
    <2> QED BY <2>1, <2>2
  <1>4. ASSUME NEW i \in DOMAIN wire', wire'[i].kind = "pong", wire'[i].part = "tail"
        PROVE  /\ wire'[i].ping \in 1..wsPos' /\ wsLog'[wire'[i].ping] = "ping"
               /\ DownWrites' => wire'[i].ping # wsPos'
    BY <1>2, <1>4 DEF PongInv
  <1>5. PingsAnswered'
    <2>1. ASSUME NEW p \in 1..wsPos,
                 \E i \in DOMAIN wire : wire[i].part = "tail" /\ wire[i].ping = p
          PROVE  \E i \in DOMAIN wire' : wire'[i].part = "tail" /\ wire'[i].ping = p
      <3>1. PICK i \in DOMAIN wire : wire[i].part = "tail" /\ wire[i].ping = p
        BY <2>1
      <3>2. i \in DOMAIN wire' /\ wire'[i] = wire[i]
        BY <1>1
      <3> QED BY <3>1, <3>2
    <2>2. ASSUME NEW i \in DOMAIN wire', NEW j \in DOMAIN wire',
                 wire'[i].kind = "pong" /\ wire'[i].part = "tail"
          PROVE  wsLog'[wire'[i].ping] = "ping" /\ (wire'[j] = wire'[i] => i = j)
      <3>1. ASSUME wire'[j] = wire'[i] PROVE i = j
        <4>1. i \in DOMAIN wire /\ j \in DOMAIN wire /\ wire'[i] = wire[i] /\ wire'[j] = wire[j]
          BY <1>2, <2>2, <3>1
        <4> QED BY <2>2, <3>1, <4>1 DEF PongInv, PingsAnswered, Answered
      <3> QED BY <1>4, <2>2, <3>1
    <2>3. ASSUME NEW p \in 1..wsPos
          PROVE  \/ wsLog[p] # "ping"
                 \/ up' = "done" \/ down' = "failed"
                 \/ p = wsPos /\ DownWrites'
                 \/ \E i \in DOMAIN wire' : wire'[i].part = "tail" /\ wire'[i].ping = p
      BY <2>1 DEF PongInv, PingsAnswered, Answered, DownWrites
    <2> QED BY <2>2, <2>3 DEF PingsAnswered, Answered, DownWrites
  <1> QED BY <1>3, <1>4, <1>5 DEF PongInv

\* The next frame is read
LEMMA PongsRecv ==
    ASSUME TypeOK, LogInv, PongInv, NEW k \in FrameKinds, NEW label, DownRecv(k, label),
           k = "ping" <=> label = "pong", label # "ponging"
    PROVE  PongInv'
  <1>1. /\ wsPos \in Nat /\ wsPos < Len(wsLog) /\ wsLog[wsPos + 1] = k /\ wsPos' = wsPos + 1
        /\ UNCHANGED <<wire, wsLog, up>> /\ down' = label /\ down = "recv"
        /\ Len(wsLog) \in Nat
    BY DEF DownRecv, TypeOK, peerVars, upVars
  <1>2. ASSUME NEW i \in DOMAIN wire, wire[i].kind = "pong", wire[i].part = "tail"
        PROVE  wire[i].ping \in 1..wsPos /\ wsLog[wire[i].ping] = "ping"
    BY <1>2 DEF PongInv
  <1>3. DownWrites' => k = "ping"
    BY <1>1 DEF DownWrites
  <1>4. ASSUME NEW x \in 1..wsPos PROVE x \in 1..(wsPos + 1) /\ x # wsPos + 1
    BY <1>1
  <1>5. PingsAnswered'
    <2>1. ASSUME NEW p \in 1..(wsPos + 1)
          PROVE  \/ wsLog[p] # "ping"
                 \/ up = "done" \/ label = "failed"
                 \/ p = wsPos + 1 /\ label \in {"pong", "ponging"}
                 \/ \E i \in DOMAIN wire : wire[i].part = "tail" /\ wire[i].ping = p
      <3>1. CASE p = wsPos + 1
        BY <1>1, <3>1
      <3>2. CASE p # wsPos + 1
        <4>1. p \in 1..wsPos
          BY <1>1, <3>2
        <4> QED BY <1>1, <4>1 DEF PongInv, PingsAnswered, Answered
      <3> QED BY <3>1, <3>2
    <2>2. ASSUME NEW i \in DOMAIN wire, NEW j \in DOMAIN wire,
                 wire[i].kind = "pong" /\ wire[i].part = "tail"
          PROVE  wsLog[wire[i].ping] = "ping" /\ (wire[j] = wire[i] => i = j)
      BY <2>2 DEF PongInv, PingsAnswered, Answered
    <2> QED BY <1>1, <2>1, <2>2 DEF PingsAnswered, Answered
  <1>6. DownWrites' => wsPos' \in 1..Len(wsLog') /\ wsLog'[wsPos'] = "ping"
    BY <1>1, <1>3
  <1>7. ASSUME NEW i \in DOMAIN wire
        PROVE  wire[i].kind = "binary" => wire[i].ping = 0
    BY DEF PongInv
  <1> QED BY <1>1, <1>2, <1>4, <1>5, <1>6, <1>7 DEF PongInv

\* The Pong that is being sent is complete
LEMMA PongsTail ==
    ASSUME TypeOK, PongInv, DownPongTail
    PROVE  PongInv'
  <1> DEFINE x == [kind |-> "pong", part |-> "tail", ping |-> wsPos]
  <1>0. x.kind = "pong" /\ x.part = "tail" /\ x.ping = wsPos /\ wsPos \in Nat /\ x \in Piece
    BY DEF TypeOK, Piece
  <1>1. /\ wire' = Append(wire, x) /\ UNCHANGED <<wsLog, wsPos, up>>
        /\ down = "ponging" /\ down' = "recv"
    BY DEF DownPongTail, Put, peerVars, upVars
  <1> HIDE DEF x
  <1>2. /\ DOMAIN wire = 1..Len(wire) /\ DOMAIN wire' = 1..(Len(wire) + 1) /\ Len(wire) \in Nat
        /\ wire'[Len(wire) + 1] = x /\ \A i \in 1..Len(wire) : wire'[i] = wire[i]
    BY <1>0, <1>1, AppendFacts DEF TypeOK
  <1>3. wsPos \in 1..Len(wsLog) /\ wsLog[wsPos] = "ping" /\ wsPos \in 1..wsPos
    BY <1>1 DEF PongInv, DownWrites
  <1>4. ASSUME NEW i \in DOMAIN wire, wire[i].kind = "pong", wire[i].part = "tail"
        PROVE  wire[i].ping \in 1..wsPos /\ wsLog[wire[i].ping] = "ping" /\ wire[i].ping # wsPos
    BY <1>1, <1>4 DEF PongInv, DownWrites
  <1>5. \A i \in DOMAIN wire' : i = Len(wire) + 1 \/ (i \in DOMAIN wire /\ wire'[i] = wire[i])
    BY <1>2
  <1>6. ASSUME NEW i \in DOMAIN wire'
        PROVE  /\ wire'[i].kind = "binary" => wire'[i].ping = 0
               /\ wire'[i].kind = "pong" /\ wire'[i].part = "tail" =>
                     wire'[i].ping \in 1..wsPos /\ wsLog[wire'[i].ping] = "ping"
    <2>1. CASE i = Len(wire) + 1
      BY <1>0, <1>2, <1>3, <2>1
    <2>2. CASE i \in DOMAIN wire /\ wire'[i] = wire[i]
      BY <1>4, <2>2 DEF PongInv
    <2> QED BY <1>5, <2>1, <2>2
  <1>7. ASSUME NEW i \in DOMAIN wire', NEW j \in DOMAIN wire',
               wire'[i].kind = "pong", wire'[i].part = "tail", wire'[j] = wire'[i]
        PROVE  i = j
    <2>1. CASE i = Len(wire) + 1 /\ j \in DOMAIN wire /\ wire'[j] = wire[j]
      <3>1. wire[j] = x
        BY <1>2, <1>7, <2>1
      <3> QED BY <1>0, <1>4, <2>1, <3>1
    <2>2. CASE i \in DOMAIN wire /\ wire'[i] = wire[i] /\ j = Len(wire) + 1
      BY <1>0, <1>2, <1>4, <1>7, <2>2
    <2>3. CASE i \in DOMAIN wire /\ wire'[i] = wire[i] /\ j \in DOMAIN wire /\ wire'[j] = wire[j]
      <3>1. wire[i].kind = "pong" /\ wire[i].part = "tail" /\ wire[j] = wire[i]
        BY <1>7, <2>3
      <3> QED BY <2>3, <3>1 DEF PongInv, PingsAnswered, Answered
    <2>4. CASE i = Len(wire) + 1 /\ j = Len(wire) + 1
      BY <2>4
    <2> QED BY <1>5, <2>1, <2>2, <2>3, <2>4
  <1>8. ASSUME NEW p \in 1..wsPos
        PROVE  \/ wsLog[p] # "ping"
               \/ up = "done"
               \/ \E i \in DOMAIN wire' : wire'[i].part = "tail" /\ wire'[i].ping = p
    <2>1. CASE p = wsPos
      <3>1. Len(wire) + 1 \in DOMAIN wire'
        BY <1>2
      <3> QED BY <1>0, <1>2, <2>1, <3>1
    <2>2. CASE p # wsPos
      <3>1. \/ wsLog[p] # "ping" \/ up = "done"
            \/ \E i \in DOMAIN wire : wire[i].part = "tail" /\ wire[i].ping = p
        BY <1>1, <2>2 DEF PongInv, PingsAnswered, Answered
      <3>2. ASSUME NEW i \in DOMAIN wire PROVE i \in DOMAIN wire' /\ wire'[i] = wire[i]
        BY <1>2
      <3> QED BY <3>1, <3>2
    <2> QED BY <2>1, <2>2
  <1>9. PingsAnswered'
    BY <1>1, <1>6, <1>7, <1>8 DEF PingsAnswered, Answered
  <1> QED BY <1>1, <1>6, <1>9 DEF PongInv, DownWrites

LEMMA NextPong == Inv /\ [Next]_vars => PongInv'
  <1> SUFFICES ASSUME Inv, [Next]_vars PROVE PongInv'
    OBVIOUS
  <1>0. TypeOK /\ LogInv /\ PongInv /\ LockInv /\ TypeOK'
    BY NextTypes DEF Inv
  <1>1. ASSUME UNCHANGED <<wire, wsLog, wsPos>>, DownWrites' => DownWrites,
               DownWrites => DownWrites' \/ down' = "failed" \/ up = "done",
               up = "done" => up' = "done", down = "failed" => down' = "failed"
        PROVE  PongInv'
    <2>1. Len(wsLog') >= Len(wsLog) /\ \A i \in 1..Len(wsLog) : wsLog'[i] = wsLog[i]
      BY <1>0, <1>1 DEF TypeOK
    <2> QED BY <1>0, <1>1, <2>1, PongsStay
  <1>2. ASSUME NEW p \in {"head", "tail"}, Put("binary", p, 0), UNCHANGED <<wsLog, wsPos>>,
               DownWrites' <=> DownWrites,
               up = "done" => up' = "done", down = "failed" => down' = "failed"
        PROVE  PongInv'
    <2>1. PICK x \in Piece : x = [kind |-> "binary", part |-> p, ping |-> 0]
      BY DEF Piece
    <2>2. x.kind = "binary" /\ x.ping = 0 /\ wire' = Append(wire, x)
      BY <1>2, <2>1 DEF Put
    <2> QED BY <1>0, <1>2, <2>2, PongsStayPut
  <1>10. CASE SendInitHead
    BY <1>2, <1>10 DEF SendInitHead, downVars, peerVars, DownWrites
  <1>11. CASE SendInitTail
    <2>1. down = "idle"
      BY <1>0, <1>11 DEF SendInitTail, LockInv
    <2> QED BY <1>2, <1>11, <2>1 DEF SendInitTail, peerVars, DownWrites
  <1>12. CASE SendInitFails
    <2>1. down = "idle"
      BY <1>0, <1>12 DEF SendInitFails, LockInv
    <2> QED BY <1>1, <1>12, <2>1 DEF SendInitFails, peerVars, DownWrites
  <1>13. ASSUME NEW n, UpRead(n) PROVE PongInv'
    BY <1>1, <1>13 DEF UpRead, downVars, peerVars, DownWrites
  <1>14. CASE UpReadEof \/ UpReadFails \/ UpWriteFails \/ UpClose
    BY <1>1, <1>14 DEF UpReadEof, UpReadFails, UpWriteFails, UpClose, downVars, peerVars, DownWrites
  <1>15. CASE UpSendHead
    BY <1>2, <1>15 DEF UpSendHead, downVars, peerVars, DownWrites
  <1>16. ASSUME NEW n, UpSendTail(n) PROVE PongInv'
    BY <1>2, <1>16 DEF UpSendTail, downVars, peerVars, DownWrites
  <1>20. CASE DownRecvBinary \/ DownRecvPing \/ DownRecvPong \/ DownRecvClose
    <2>1. \E k \in FrameKinds, label \in {"write", "pong", "recv", "shutdown"} :
             DownRecv(k, label) /\ (k = "ping" <=> label = "pong")
      BY <1>20 DEF DownRecvBinary, DownRecvPing, DownRecvPong, DownRecvClose, FrameKinds, Terminators
    <2> QED BY <1>0, <2>1, PongsRecv
  <1>21. CASE DownRecvEof \/ DownRecvFails \/ DownWrite \/ DownWriteFails \/ DownShutdown
    BY <1>1, <1>21
       DEF DownRecvEof, DownRecvFails, DownWrite, DownWriteFails, DownShutdown, upVars, peerVars, DownWrites
  <1>22. CASE DownPongHead
    <2>1. PICK x \in Piece : x = [kind |-> "pong", part |-> "head", ping |-> wsPos]
      BY <1>0 DEF Piece, TypeOK
    <2>2. x.kind = "pong" /\ x.part = "head" /\ wire' = Append(wire, x)
      BY <1>22, <2>1 DEF DownPongHead, Put
    <2> QED BY <1>0, <1>22, <2>2, PongsStayPut DEF DownPongHead, upVars, peerVars, DownWrites
  <1>23. CASE DownPongTail
    BY <1>0, <1>23, PongsTail
  <1>24. CASE DownPongFails
    BY <1>1, <1>24 DEF DownPongFails, upVars, peerVars, DownWrites
  <1>25. CASE PeerStep
    <2>1. UNCHANGED <<wire, up, down, wsPos>>
      BY <1>25 DEF PeerStep, upVars, downVars
    <2>2. Len(wsLog') >= Len(wsLog) /\ \A i \in 1..Len(wsLog) : wsLog'[i] = wsLog[i]
      <3>1. wsLog' = wsLog \/ \E k \in FrameKinds : wsLog' = Append(wsLog, k)
        BY <1>25
           DEF PeerStep, ClientSends, ClientReads, ClientStops, UpstreamSends, UpstreamReads, UpstreamStops
      <3>2. ASSUME NEW k \in FrameKinds, wsLog' = Append(wsLog, k)
            PROVE  Len(wsLog') >= Len(wsLog) /\ \A i \in 1..Len(wsLog) : wsLog'[i] = wsLog[i]
        BY <1>0, <3>2, AppendFacts DEF TypeOK
      <3>3. Len(wsLog) \in Nat
        BY <1>0 DEF TypeOK
      <3> QED BY <3>1, <3>2, <3>3
    <2> QED BY <1>0, <2>1, <2>2, PongsStay DEF DownWrites
  <1>26. CASE Return \/ UNCHANGED vars
    BY <1>1, <1>26 DEF Return, vars, upVars, downVars, peerVars, DownWrites
  <1> QED
    BY <1>10, <1>11, <1>12, <1>13, <1>14, <1>15, <1>16, <1>20, <1>21, <1>22,
       <1>23, <1>24, <1>25, <1>26
       DEF Next, UpStep, DownStep

-----------------------------------------------------------------------------
(* Upwards *)

\* The next n bytes are handed over: the frames go on where they stopped
LEMMA UpDelivers ==
    ASSUME TypeOK, UpInv, NEW n \in 1..Len(chunk), UpSendTail(n)
    PROVE  /\ upGot' \in Seq(Nat) /\ chunk' \in Seq(Nat)
           /\ Len(upGot') = Len(upGot) + n /\ Len(chunk') = Len(chunk) - n
           /\ \A i \in 1..Len(upGot') : upGot'[i] = i - 1
           /\ \A i \in 1..Len(chunk') : chunk'[i] = Len(upGot') - 1 + i
  <1>1. /\ upGot \in Seq(Nat) /\ chunk \in Seq(Nat) /\ n \in 0..Len(chunk)
        /\ Len(upGot) \in Nat /\ Len(chunk) \in Nat
    BY DEF TypeOK
  <1>2. /\ \A i \in 1..Len(upGot) : upGot[i] = i - 1
        /\ \A i \in 1..Len(chunk) : chunk[i] = Len(upGot) - 1 + i
    BY DEF UpInv, UpSendTail
  <1> DEFINE part == SubSeq(chunk, 1, n)
             rest == SubSeq(chunk, n + 1, Len(chunk))
  <1>3. /\ part \in Seq(Nat) /\ Len(part) = n /\ \A i \in 1..n : part[i] = chunk[i]
        /\ rest \in Seq(Nat) /\ Len(rest) = Len(chunk) - n
        /\ \A i \in 1..(Len(chunk) - n) : rest[i] = chunk[n + i]
    BY <1>1, PartFacts, ZenonT(60)
  <1>4. upGot' = upGot \o part /\ chunk' = rest
    BY DEF UpSendTail
  <1> HIDE DEF part, rest
  <1>5. /\ upGot \o part \in Seq(Nat) /\ Len(upGot \o part) = Len(upGot) + n
        /\ \A i \in 1..(Len(upGot) + n) :
              (upGot \o part)[i] = IF i <= Len(upGot) THEN upGot[i] ELSE part[i - Len(upGot)]
    BY <1>1, <1>3, ConcatProperties, ZenonT(60)
  <1>6. ASSUME NEW i \in 1..(Len(upGot) + n) PROVE (upGot \o part)[i] = i - 1
    <2>1. CASE i <= Len(upGot)
      BY <1>1, <1>2, <1>5, <2>1
    <2>2. CASE ~(i <= Len(upGot))
      <3>1. i - Len(upGot) \in 1..n /\ i - Len(upGot) \in 1..Len(chunk)
        BY <1>1, <2>2
      <3>2. (upGot \o part)[i] = chunk[i - Len(upGot)]
        BY <1>3, <1>5, <2>2, <3>1
      <3> QED BY <1>1, <1>2, <3>1, <3>2
    <2> QED BY <2>1, <2>2
  <1>7. ASSUME NEW i \in 1..(Len(chunk) - n) PROVE rest[i] = Len(upGot) + n - 1 + i
    <2>1. n + i \in 1..Len(chunk)
      BY <1>1
    <2>2. rest[i] = Len(upGot) - 1 + (n + i)
      BY <1>2, <1>3, <2>1
    <2> QED BY <1>1, <2>2
  <1> QED BY <1>3, <1>4, <1>5, <1>6, <1>7, SMTT(30)

LEMMA NextUp == Inv /\ [Next]_vars => UpInv'
  <1> SUFFICES ASSUME Inv, [Next]_vars PROVE UpInv'
    OBVIOUS
  <1>0. TypeOK /\ UpInv /\ TypeOK'
    BY NextTypes DEF Inv
  <1>1. /\ Len(upGot) \in Nat /\ Len(chunk) \in Nat /\ cRead \in Nat /\ cSent \in Nat
        /\ chunk = << >> <=> Len(chunk) = 0
    BY <1>0, SMTT(30) DEF TypeOK
  <1>2. ASSUME UNCHANGED <<chunk, cRead, upGot, cSent>>, client' # "open" \/ client' = client,
               \/ up' = up
               \/ up = "init" /\ up' = "init_tail"
               \/ up' = "failed"
               \/ up = "read" /\ up' = "close" /\ cRead = cSent /\ client # "open"
               \/ up = "send" /\ up' = "sending"
               \/ up = "close" /\ up' = "done"
        PROVE  UpInv'
    BY <1>0, <1>2 DEF UpInv
  <1>10. CASE SendInitHead
    BY <1>2, <1>10 DEF SendInitHead, peerVars
  <1>11. CASE SendInitTail
    <2>1. /\ chunk = << >> /\ cRead = 0 /\ cRead <= cSent
          /\ upGot' = <<0>> /\ up' = "read" /\ UNCHANGED <<chunk, cRead, cSent, client>>
      BY <1>0, <1>11 DEF SendInitTail, UpInv, peerVars
    <2>2. Len(<<0>>) = 1 /\ <<0>>[1] = 0 /\ Len(chunk) = 0
      BY <1>1, <2>1
    <2> QED BY <2>1, <2>2 DEF UpInv
  <1>12. CASE SendInitFails
    BY <1>2, <1>12 DEF SendInitFails, peerVars
  <1>13. ASSUME NEW n \in 1..(cSent - cRead), UpRead(n) PROVE UpInv'
    <2>1. /\ n \in Nat \ {0} /\ cRead + n <= cSent
          /\ chunk' = [i \in 1..n |-> cRead + i] /\ cRead' = cRead + n
          /\ up = "read" /\ up' = "send" /\ UNCHANGED <<upGot, cSent, client>>
      BY <1>1, <1>13 DEF UpRead, peerVars
    <2>2. Len([i \in 1..n |-> cRead + i]) = n /\ [i \in 1..n |-> cRead + i] # << >>
      BY <2>1
    <2>3. /\ Len(upGot) >= 1 /\ Len(upGot) = cRead + 1
          /\ \A i \in 1..Len(upGot) : upGot[i] = i - 1
      BY <1>0, <1>1, <2>1 DEF UpInv
    <2>4. Len(upGot') + Len(chunk') = cRead' + 1 /\ cRead' <= cSent' /\ chunk' # << >>
      BY <1>1, <2>1, <2>2, <2>3
    <2>5. \A i \in 1..Len(chunk') : chunk'[i] = Len(upGot') - 1 + i
      BY <1>1, <2>1, <2>2, <2>3
    <2> QED BY <2>1, <2>3, <2>4, <2>5 DEF UpInv
  <1>14. CASE UpReadEof \/ UpReadFails \/ UpSendHead \/ UpWriteFails \/ UpClose
    BY <1>2, <1>14 DEF UpReadEof, UpReadFails, UpSendHead, UpWriteFails, UpClose, peerVars
  <1>15. ASSUME NEW n \in 1..Len(chunk), UpSendTail(n) PROVE UpInv'
    <2>1. /\ up = "sending" /\ UNCHANGED <<cRead, cSent, client>>
          /\ \/ n = Len(chunk) /\ up' = "read"
             \/ n < Len(chunk) /\ up' = "send"
      BY <1>15 DEF UpSendTail, peerVars
    <2>2. /\ Len(upGot') = Len(upGot) + n /\ Len(chunk') = Len(chunk) - n
          /\ \A i \in 1..Len(upGot') : upGot'[i] = i - 1
          /\ \A i \in 1..Len(chunk') : chunk'[i] = Len(upGot') - 1 + i
      BY <1>0, <1>15, UpDelivers
    <2>3. chunk' = << >> <=> Len(chunk') = 0
      BY <1>0 DEF TypeOK
    <2>4. Len(upGot) >= 1 /\ Len(upGot) + Len(chunk) = cRead + 1 /\ cRead <= cSent
      BY <1>0, <2>1 DEF UpInv
    <2>5. Len(upGot') >= 1 /\ Len(upGot') + Len(chunk') = cRead' + 1 /\ cRead' <= cSent'
      <3>1. n \in Nat /\ cRead' = cRead /\ cSent' = cSent
        BY <1>1, <2>1
      <3>2. Len(upGot) + n >= 1 /\ (Len(upGot) + n) + (Len(chunk) - n) = cRead + 1
        BY <1>1, <2>4, <3>1
      <3> QED BY <2>2, <2>4, <3>1, <3>2
    <2>6. (up' = "read" => chunk' = << >>) /\ (up' = "send" => chunk' # << >>) /\ up' \in {"read", "send"}
      BY <1>1, <2>1, <2>2, <2>3
    <2> QED BY <2>2, <2>5, <2>6 DEF UpInv
  <1>16. CASE DownStep \/ Return
    <2>1. UNCHANGED <<upVars, peerVars>>
      BY <1>16
         DEF DownStep, DownRecvBinary, DownRecvPing, DownRecvPong, DownRecvClose, DownRecv,
             DownRecvEof, DownRecvFails, DownWrite, DownWriteFails, DownPongHead, DownPongTail,
             DownPongFails, DownShutdown, Return
    <2> QED BY <1>2, <2>1 DEF upVars, peerVars
  <1>17. CASE PeerStep
    <2>1. UNCHANGED <<up, chunk, cRead, upGot>>
      BY <1>17 DEF PeerStep, upVars
    <2>2. CASE ClientSends
      <3>1. cSent' = cSent + 1 /\ client = "open" /\ client' = client
        BY <2>2 DEF ClientSends
      <3> QED BY <1>0, <1>1, <2>1, <3>1 DEF UpInv
    <2>3. CASE ClientReads \/ ClientStops \/ UpstreamSends \/ UpstreamReads \/ UpstreamStops
      BY <1>2, <2>1, <2>3 DEF ClientReads, ClientStops, UpstreamSends, UpstreamReads, UpstreamStops
    <2> QED BY <1>17, <2>2, <2>3 DEF PeerStep
  <1>18. CASE UNCHANGED vars
    BY <1>2, <1>18 DEF vars, upVars, peerVars
  <1> QED
    BY <1>10, <1>11, <1>12, <1>13, <1>14, <1>15, <1>16, <1>17, <1>18
       DEF Next, UpStep

-----------------------------------------------------------------------------
(* Downwards *)

LEMMA NextLog == Inv /\ [Next]_vars => LogInv'
  <1> SUFFICES ASSUME Inv, [Next]_vars PROVE LogInv'
    OBVIOUS
  <1>0. TypeOK /\ LogInv
    BY DEF Inv
  <1>1. Len(wsLog) \in Nat /\ Len(dSent) \in Nat /\ wsPos \in Nat /\ wsPos <= Len(wsLog)
    BY <1>0 DEF TypeOK, LogInv
  <1>2. ASSUME UNCHANGED <<wsLog, dSent, wsPos>> PROVE LogInv'
    BY <1>0, <1>2 DEF LogInv
  <1>3. CASE DownRecvBinary \/ DownRecvPing \/ DownRecvPong \/ DownRecvClose
    <2>1. wsPos < Len(wsLog) /\ wsPos' = wsPos + 1 /\ UNCHANGED <<wsLog, dSent>>
      BY <1>3 DEF DownRecvBinary, DownRecvPing, DownRecvPong, DownRecvClose, DownRecv, peerVars
    <2>2. wsPos' <= Len(wsLog')
      BY <1>1, <2>1
    <2> QED BY <1>0, <2>1, <2>2 DEF LogInv
  <1>4. CASE UpstreamSends /\ UNCHANGED downVars
    <2>1. PICK k \in FrameKinds :
             /\ wsLog' = Append(wsLog, k)
             /\ dSent' = IF k = "binary" THEN Append(dSent, Len(wsLog) + 1) ELSE dSent
      BY <1>4 DEF UpstreamSends
    <2>2. /\ Len(wsLog) < MaxFrames /\ wsPos' = wsPos /\ MaxFrames \in Nat
          /\ \A i \in 1..Len(wsLog) : wsLog[i] \notin Terminators
      BY <1>0, <1>4, RelayAssumption DEF UpstreamSends, Terminated, downVars, TypeOK
    <2>3. /\ Len(wsLog') = Len(wsLog) + 1 /\ wsLog'[Len(wsLog) + 1] = k
          /\ \A i \in 1..Len(wsLog) : wsLog'[i] = wsLog[i]
      BY <1>0, <2>1, AppendFacts DEF TypeOK
    <2>4. wsPos' <= Len(wsLog') /\ Len(wsLog') <= MaxFrames
      BY <1>1, <2>2, <2>3
    <2>5. \A i \in 1..Len(wsLog') : wsLog'[i] \in Terminators => i = Len(wsLog')
      BY <1>1, <2>2, <2>3
    <2>6. \A i \in 1..Len(wsLog') : i = Len(wsLog) + 1 \/ (i \in 1..Len(wsLog) /\ wsLog'[i] = wsLog[i])
      BY <1>1, <2>3
    <2>7. CASE k # "binary"
      <3>1. dSent' = dSent
        BY <2>1, <2>7
      <3>2. ASSUME NEW j \in 1..Len(dSent) PROVE dSent[j] \in 1..Len(wsLog') /\ wsLog'[dSent[j]] = "binary"
        <4>1. dSent[j] \in 1..Len(wsLog) /\ wsLog[dSent[j]] = "binary"
          BY <1>0 DEF LogInv
        <4> QED BY <1>1, <2>3, <4>1
      <3>3. ASSUME NEW i \in 1..Len(wsLog'), wsLog'[i] = "binary" PROVE \E j \in 1..Len(dSent) : dSent[j] = i
        BY <1>0, <2>3, <2>6, <2>7, <3>3 DEF LogInv
      <3> QED BY <1>0, <2>4, <2>5, <3>1, <3>2, <3>3 DEF LogInv
    <2>8. CASE k = "binary"
      <3>1. /\ dSent' = Append(dSent, Len(wsLog) + 1) /\ Len(dSent') = Len(dSent) + 1
            /\ dSent'[Len(dSent) + 1] = Len(wsLog) + 1
            /\ \A j \in 1..Len(dSent) : dSent'[j] = dSent[j]
        <4>1. dSent' = Append(dSent, Len(wsLog) + 1) /\ Len(wsLog) + 1 \in Nat /\ dSent \in Seq(Nat)
          BY <1>0, <1>1, <2>1, <2>8 DEF TypeOK
        <4> QED BY <4>1, AppendFacts
      <3>2. \A j \in 1..Len(dSent') : j = Len(dSent) + 1 \/ (j \in 1..Len(dSent) /\ dSent'[j] = dSent[j])
        BY <1>1, <3>1
      <3>3. ASSUME NEW j \in 1..Len(dSent) PROVE dSent[j] \in 1..Len(wsLog) /\ wsLog[dSent[j]] = "binary"
        BY <1>0 DEF LogInv
      <3>4. ASSUME NEW j \in 1..Len(dSent')
            PROVE  dSent'[j] \in 1..Len(wsLog') /\ wsLog'[dSent'[j]] = "binary"
        <4>1. CASE j = Len(dSent) + 1
          BY <1>1, <2>3, <2>8, <3>1, <4>1
        <4>2. CASE j \in 1..Len(dSent) /\ dSent'[j] = dSent[j]
          BY <1>1, <2>3, <3>3, <4>2
        <4> QED BY <3>2, <4>1, <4>2
      <3>5. ASSUME NEW i \in 1..Len(wsLog'), wsLog'[i] = "binary" PROVE \E j \in 1..Len(dSent') : dSent'[j] = i
        <4>1. CASE i = Len(wsLog) + 1
          <5>1. Len(dSent) + 1 \in 1..Len(dSent')
            BY <1>1, <3>1
          <5> QED BY <3>1, <4>1, <5>1
        <4>2. CASE i \in 1..Len(wsLog) /\ wsLog'[i] = wsLog[i]
          <5>1. PICK j \in 1..Len(dSent) : dSent[j] = i
            BY <1>0, <3>5, <4>2 DEF LogInv
          <5>2. j \in 1..Len(dSent') /\ dSent'[j] = i
            BY <1>1, <3>1, <5>1
          <5> QED BY <5>2
        <4> QED BY <2>6, <4>1, <4>2
      <3>6. ASSUME NEW i \in 1..Len(dSent'), NEW j \in 1..Len(dSent'), i < j PROVE dSent'[i] < dSent'[j]
        <4>1. i \in 1..Len(dSent) /\ dSent'[i] = dSent[i]
          BY <1>1, <3>1, <3>6
        <4>2. CASE j = Len(dSent) + 1
          BY <1>1, <3>1, <3>3, <4>1, <4>2
        <4>3. CASE j \in 1..Len(dSent) /\ dSent'[j] = dSent[j]
          BY <1>0, <3>6, <4>1, <4>3 DEF LogInv
        <4> QED BY <3>2, <4>2, <4>3
      <3> QED BY <2>4, <2>5, <3>4, <3>5, <3>6 DEF LogInv
    <2> QED BY <2>7, <2>8
  <1>5. CASE UpStep
    <2>1. UNCHANGED <<wsLog, dSent, wsPos>>
      BY <1>5
         DEF UpStep, SendInitHead, SendInitTail, SendInitFails, UpRead, UpReadEof, UpReadFails,
             UpSendHead, UpSendTail, UpWriteFails, UpClose, downVars, peerVars
    <2> QED BY <1>2, <2>1
  <1>6. CASE \/ DownRecvEof \/ DownRecvFails \/ DownWrite \/ DownWriteFails
             \/ DownPongHead \/ DownPongTail \/ DownPongFails \/ DownShutdown
    BY <1>2, <1>6
       DEF DownRecvEof, DownRecvFails, DownWrite, DownWriteFails, DownPongHead, DownPongTail,
           DownPongFails, DownShutdown, peerVars
  <1>7. CASE PeerStep
    BY <1>2, <1>4, <1>7
       DEF PeerStep, ClientSends, ClientReads, ClientStops, UpstreamReads, UpstreamStops, downVars
  <1>8. CASE Return \/ UNCHANGED vars
    BY <1>2, <1>8 DEF Return, vars, downVars, peerVars
  <1> QED BY <1>3, <1>5, <1>6, <1>7, <1>8 DEF Next, DownStep

LEMMA NextDown == Inv /\ [Next]_vars => DownInv'
  <1> SUFFICES ASSUME Inv, [Next]_vars PROVE DownInv'
    OBVIOUS
  <1>0. TypeOK /\ LogInv /\ DownInv /\ LockInv
    BY DEF Inv
  <1>1. /\ Len(wsLog) \in Nat /\ Len(dSent) \in Nat /\ Len(cWire) \in Nat
        /\ wsPos \in Nat /\ wsPos <= Len(wsLog)
        /\ \A j \in 1..Len(dSent) : dSent[j] \in Nat
    BY <1>0 DEF TypeOK, LogInv
  \* Nothing is read or written for the client, and a direction that is ending
  \* goes on ending
  <1>2. ASSUME UNCHANGED <<cWire, dSent, wsLog, wsPos>>,
               down' = down \/ down' = "failed" \/ {down, down'} \subseteq {"idle", "recv", "pong", "ponging"}
                   \/ (down = "shutdown" /\ down' = "done"),
               upstream' # "open" \/ upstream' = upstream
        PROVE  DownInv'
    <2>1. Terminated' <=> Terminated
      BY <1>2 DEF Terminated
    <2>2. down' # "failed" => Handled' = Handled /\ down # "failed"
      BY <1>2 DEF Handled
    <2>3. down' = "write" => down = "write"
      BY <1>2
    <2>4. down' \in {"shutdown", "done"} => down \in {"shutdown", "done"}
      BY <1>2
    <2> QED BY <1>0, <1>2, <2>1, <2>2, <2>3, <2>4 DEF DownInv
  <1>3. CASE SendInitHead \/ SendInitTail \/ SendInitFails
    <2>1. down = "idle" /\ down' \in {"idle", "recv", "failed"}
      BY <1>0, <1>3 DEF LockInv, SendInitHead, SendInitTail, SendInitFails, downVars
    <2> QED BY <1>2, <1>3, <2>1 DEF SendInitHead, SendInitTail, SendInitFails, downVars, peerVars
  <1>4. ASSUME NEW n, UpRead(n) \/ UpSendTail(n) PROVE DownInv'
    BY <1>2, <1>4 DEF UpRead, UpSendTail, downVars, peerVars
  <1>5. CASE UpReadEof \/ UpReadFails \/ UpSendHead \/ UpWriteFails \/ UpClose
    BY <1>2, <1>5 DEF UpReadEof, UpReadFails, UpSendHead, UpWriteFails, UpClose, downVars, peerVars
  \* A frame that is not binary is read
  <1>6. ASSUME down = "recv", wsPos < Len(wsLog), wsPos' = wsPos + 1, wsLog[wsPos + 1] # "binary",
               UNCHANGED <<cWire, dSent, wsLog, upstream>>,
               \/ down' \in {"recv", "pong"}
               \/ down' = "shutdown" /\ wsLog[wsPos + 1] \in Terminators
        PROVE  DownInv'
    <2>1. /\ Handled = Len(cWire) /\ Handled' = Len(cWire)
          /\ Len(cWire) <= Len(dSent) /\ \A j \in 1..Len(cWire) : cWire[j] = dSent[j]
      BY <1>0, <1>1, <1>6 DEF DownInv, Handled
    <2>2. ASSUME NEW j \in 1..Len(dSent) PROVE dSent[j] <= wsPos + 1 <=> j <= Len(cWire)
      <3>1. dSent[j] # wsPos + 1
        BY <1>0, <1>6 DEF LogInv
      <3>2. dSent[j] <= wsPos <=> j <= Len(cWire)
        BY <1>0, <1>6, <2>1 DEF DownInv
      <3> QED BY <1>1, <3>1, <3>2
    <2>3. down' = "shutdown" => wsPos' = Len(wsLog') /\ Terminated'
      <3>1. wsPos + 1 \in 1..Len(wsLog) /\ DOMAIN wsLog = 1..Len(wsLog)
        BY <1>0, <1>1, <1>6 DEF TypeOK
      <3>2. down' = "shutdown" => wsPos + 1 = Len(wsLog) /\ Terminated
        BY <1>0, <1>6, <3>1 DEF LogInv, Terminated
      <3> QED BY <1>6, <3>2 DEF Terminated
    <2> QED BY <1>6, <2>1, <2>2, <2>3 DEF DownInv
  <1>7. CASE DownRecvPing \/ DownRecvPong \/ DownRecvClose
    BY <1>6, <1>7 DEF DownRecvPing, DownRecvPong, DownRecvClose, DownRecv, peerVars, Terminators
  \* A binary frame is read: it is the next one of dSent
  <1>8. CASE DownRecvBinary
    <2>1. /\ down = "recv" /\ wsPos < Len(wsLog) /\ wsLog[wsPos + 1] = "binary"
          /\ wsPos' = wsPos + 1 /\ down' = "write" /\ UNCHANGED <<cWire, dSent, wsLog>>
      BY <1>8 DEF DownRecvBinary, DownRecv, peerVars
    <2>2. /\ Handled = Len(cWire) /\ Handled' = Len(cWire) + 1
          /\ Len(cWire) <= Len(dSent) /\ \A j \in 1..Len(cWire) : cWire[j] = dSent[j]
          /\ \A j \in 1..Len(dSent) : dSent[j] <= wsPos <=> j <= Len(cWire)
      BY <1>0, <1>1, <2>1 DEF DownInv, Handled
    <2>3. wsPos + 1 \in 1..Len(wsLog)
      BY <1>1, <2>1
    <2>4. PICK j \in 1..Len(dSent) : dSent[j] = wsPos + 1
      BY <1>0, <2>1, <2>3 DEF LogInv
    <2>5. ~(j <= Len(cWire))
      BY <1>1, <2>2, <2>4
    <2>6. Len(cWire) + 1 \in 1..Len(dSent) /\ Len(cWire) + 1 <= j
      BY <1>1, <2>5
    <2>7. ~(dSent[Len(cWire) + 1] <= wsPos)
      BY <1>1, <2>2, <2>6
    <2>8. Len(cWire) + 1 = j
      <3>1. Len(cWire) + 1 < j => dSent[Len(cWire) + 1] < dSent[j]
        BY <1>0, <2>6 DEF LogInv
      <3> QED BY <1>1, <2>4, <2>6, <2>7, <3>1
    <2>9. ASSUME NEW i \in 1..Len(dSent) PROVE dSent[i] <= wsPos + 1 <=> i <= Len(cWire) + 1
      <3>1. i < j => dSent[i] < dSent[j]
        BY <1>0 DEF LogInv
      <3>2. j < i => dSent[j] < dSent[i]
        BY <1>0 DEF LogInv
      <3> QED BY <1>1, <2>4, <2>8, <3>1, <3>2
    <2>10. dSent'[Len(cWire') + 1] = wsPos' /\ Handled' <= Len(dSent')
      BY <1>1, <2>1, <2>2, <2>4, <2>6, <2>8
    <2> QED BY <2>1, <2>2, <2>9, <2>10 DEF DownInv
  <1>9. CASE DownRecvEof
    <2>1. /\ down = "recv" /\ down' = "shutdown" /\ wsPos = Len(wsLog) /\ upstream # "open"
          /\ UNCHANGED <<cWire, dSent, wsLog, wsPos, upstream>>
      BY <1>9 DEF DownRecvEof, peerVars
    <2>2. Handled' = Handled
      BY <2>1 DEF Handled
    <2> QED BY <1>0, <2>1, <2>2 DEF DownInv
  <1>10. CASE DownWrite
    <2>1. /\ down = "write" /\ down' = "recv" /\ cWire' = Append(cWire, wsPos)
          /\ UNCHANGED <<dSent, wsLog, wsPos>>
      BY <1>10 DEF DownWrite, peerVars
    <2>2. /\ Len(cWire') = Len(cWire) + 1 /\ cWire'[Len(cWire) + 1] = wsPos
          /\ \A j \in 1..Len(cWire) : cWire'[j] = cWire[j]
      BY <1>0, <2>1, AppendFacts DEF TypeOK
    <2>3. Handled' = Handled
      BY <1>1, <2>1, <2>2 DEF Handled
    <2>4. /\ dSent[Len(cWire) + 1] = wsPos /\ Handled <= Len(dSent)
          /\ \A j \in 1..Len(cWire) : cWire[j] = dSent[j]
          /\ \A j \in 1..Len(dSent) : dSent[j] <= wsPos <=> j <= Handled
      BY <1>0, <2>1 DEF DownInv
    <2>5. ASSUME NEW j \in 1..Len(cWire') PROVE cWire'[j] = dSent[j]
      <3>1. j = Len(cWire) + 1 \/ j \in 1..Len(cWire)
        BY <1>1, <2>2
      <3> QED BY <2>2, <2>4, <3>1
    <2> QED BY <2>1, <2>3, <2>4, <2>5 DEF DownInv
  <1>11. CASE DownRecvFails \/ DownWriteFails \/ DownPongHead \/ DownPongTail \/ DownPongFails \/ DownShutdown
    BY <1>2, <1>11
       DEF DownRecvFails, DownWriteFails, DownPongHead, DownPongTail, DownPongFails, DownShutdown, peerVars
  \* The upstream sends one more frame, behind everything that was read
  <1>12. CASE UpstreamSends /\ UNCHANGED downVars
    <2>1. PICK k \in FrameKinds :
             /\ wsLog' = Append(wsLog, k)
             /\ dSent' = IF k = "binary" THEN Append(dSent, Len(wsLog) + 1) ELSE dSent
      BY <1>12 DEF UpstreamSends
    <2>2. UNCHANGED <<down, wsPos, cWire>> /\ ~Terminated /\ upstream = "open"
      BY <1>12 DEF UpstreamSends, downVars
    <2>3. down \notin {"shutdown", "done"} /\ Handled' = Handled
      BY <1>0, <2>2 DEF DownInv, Handled
    <2>4. CASE k # "binary"
      <3>1. dSent' = dSent
        BY <2>1, <2>4
      <3> QED BY <1>0, <2>2, <2>3, <3>1 DEF DownInv
    <2>5. CASE k = "binary"
      <3>1. /\ Len(dSent') = Len(dSent) + 1 /\ dSent'[Len(dSent) + 1] = Len(wsLog) + 1
            /\ \A j \in 1..Len(dSent) : dSent'[j] = dSent[j]
        <4>1. dSent' = Append(dSent, Len(wsLog) + 1) /\ Len(wsLog) + 1 \in Nat /\ dSent \in Seq(Nat)
          BY <1>0, <1>1, <2>1, <2>5 DEF TypeOK
        <4> QED BY <4>1, AppendFacts
      <3>2. ASSUME down # "failed"
            PROVE  /\ Handled <= Len(dSent) /\ Len(cWire) <= Handled /\ Handled \in Nat
                   /\ \A j \in 1..Len(cWire) : cWire[j] = dSent[j]
                   /\ \A j \in 1..Len(dSent) : dSent[j] <= wsPos <=> j <= Handled
        BY <1>0, <1>1, <3>2 DEF DownInv, Handled
      <3>3. ASSUME down # "failed", NEW j \in 1..Len(dSent') PROVE dSent'[j] <= wsPos <=> j <= Handled
        <4>1. CASE j = Len(dSent) + 1
          BY <1>1, <3>1, <3>2, <3>3, <4>1
        <4>2. CASE j \in 1..Len(dSent)
          BY <3>1, <3>2, <3>3, <4>2
        <4> QED BY <1>1, <3>1, <4>1, <4>2
      <3>4. ASSUME down # "failed"
            PROVE  Handled <= Len(dSent') /\ \A j \in 1..Len(cWire) : cWire[j] = dSent'[j]
        BY <1>1, <3>1, <3>2, <3>4
      <3>5. down = "write" => dSent'[Len(cWire) + 1] = wsPos
        <4>1. down = "write" => Len(cWire) + 1 \in 1..Len(dSent)
          BY <1>1, <3>2 DEF Handled
        <4> QED BY <1>0, <3>1, <4>1 DEF DownInv
      <3> QED BY <2>2, <2>3, <3>3, <3>4, <3>5 DEF DownInv
    <2> QED BY <2>4, <2>5
  <1>13. CASE PeerStep
    BY <1>2, <1>12, <1>13
       DEF PeerStep, ClientSends, ClientReads, ClientStops, UpstreamReads, UpstreamStops, downVars
  <1>14. CASE Return \/ UNCHANGED vars
    BY <1>2, <1>14 DEF Return, vars, downVars, peerVars
  <1> QED
    BY <1>3, <1>4, <1>5, <1>7, <1>8, <1>9, <1>10, <1>11, <1>13, <1>14
       DEF Next, UpStep, DownStep

-----------------------------------------------------------------------------
(* The theorems *)

LEMMA NextInv == Inv /\ [Next]_vars => Inv'
  BY NextTypes, NextLock, NextWire, NextPong, NextUp, NextLog, NextDown DEF Inv

LEMMA RelayInvariant == Spec => []Inv
  BY InitInv, NextInv, PTL DEF Spec

\* Every state of a session has its types.
THEOREM RelayTypes == Spec => []TypeOK
  BY RelayInvariant, PTL DEF Inv

\* The mutex of the write half belongs to blocks that write, each of them at most
\* once in its queue: neither an error nor the end of a block leaves it locked.
THEOREM WritersHoldTheLock == Spec => []LockHeldByWriters
  <1>1. ASSUME Inv PROVE LockHeldByWriters
    <2>1. LockInv
      BY <1>1 DEF Inv
    <2>2. CASE lockq = << >>
      BY <2>2 DEF LockHeldByWriters
    <2>3. CASE UpWrites /\ lockq = <<"up">>
      BY <2>3 DEF LockHeldByWriters, UpWrites
    <2>4. CASE DownWrites /\ lockq = <<"down">>
      BY <2>4 DEF LockHeldByWriters, DownWrites
    <2>5. CASE UpWrites /\ DownWrites /\ lockq = <<"up", "down">>
      BY <2>5 DEF LockHeldByWriters, UpWrites, DownWrites
    <2>6. CASE UpWrites /\ DownWrites /\ lockq = <<"down", "up">>
      BY <2>6 DEF LockHeldByWriters, UpWrites, DownWrites
    <2> QED BY <2>1, <2>2, <2>3, <2>4, <2>5, <2>6 DEF LockInv
  <1> QED BY <1>1, RelayInvariant, PTL

\* On the WebSocket every head is followed by its own tail: the two blocks never
\* interleave their frames, however often write_all is suspended.
THEOREM FramesStayWhole == Spec => []FramesWhole
  BY RelayInvariant, PTL DEF Inv, WireInv

\* A Ping that was read is answered by exactly one Pong, unless the write half was
\* closed or lost meanwhile, and nothing but a Ping is answered.
THEOREM PingsGetAnswered == Spec => []PingsAnswered
  BY RelayInvariant, PTL DEF Inv, PongInv

-----------------------------------------------------------------------------
(* Refinement *)

\* The bytes of the client, as Duplex sees them
Bytes(k) == [i \in 1..k |-> i - 1]

LEMMA BytesFacts ==
    ASSUME NEW k \in Nat
    PROVE  /\ Bytes(k) \in Seq(Nat) /\ Len(Bytes(k)) = k
           /\ \A i \in 1..k : Bytes(k)[i] = i - 1
           /\ Append(Bytes(k), k) = Bytes(k + 1)
  BY DEF Bytes

LEMMA PrefixOf ==
    ASSUME NEW S, NEW s \in Seq(S), NEW t \in Seq(S), Len(s) <= Len(t),
           \A i \in 1..Len(s) : s[i] = t[i]
    PROVE  SubSeq(t, 1, Len(s)) = s
  <1>1. Len(s) \in 0..Len(t)
    OBVIOUS
  <1>2. /\ SubSeq(t, 1, Len(s)) \in Seq(S) /\ Len(SubSeq(t, 1, Len(s))) = Len(s)
        /\ \A i \in 1..Len(s) : SubSeq(t, 1, Len(s))[i] = t[i]
    BY <1>1, PartFacts
  <1> QED BY <1>2, SeqEqual

LEMMA InitImplements == Init => duplex!Init
  <1> SUFFICES ASSUME Init PROVE duplex!Init
    OBVIOUS
  <1>1. [i \in 1..(cSent + 1) |-> i - 1] \in Seq(0..(MaxUp + MaxFrames))
    BY RelayAssumption DEF Init
  <1>2. dSent \in Seq(0..(MaxUp + MaxFrames))
    BY DEF Init
  <1>3. ~Terminated
    BY DEF Init, Terminated
  <1> QED BY <1>1, <1>2, <1>3 DEF Init, duplex!Init

LEMMA NextImplements == Inv /\ [Next]_vars => [duplex!Next]_(duplex!vars)
  <1> SUFFICES ASSUME Inv, [Next]_vars PROVE [duplex!Next]_(duplex!vars)
    OBVIOUS
  <1>0. TypeOK /\ UpInv /\ LogInv /\ DownInv /\ LockInv
    BY DEF Inv
  <1>a. /\ "up" \in {"up", "down"} /\ "down" \in {"up", "down"} /\ "up" # "down"
        /\ cSent \in Nat /\ upGot \in Seq(Nat) /\ cWire \in Seq(Nat) /\ dSent \in Seq(Nat)
        /\ Len(upGot) \in Nat /\ Len(cWire) \in Nat /\ Len(dSent) \in Nat /\ Len(wsLog) \in Nat
    BY <1>0 DEF TypeOK
  <1>b. /\ [i \in 1..(cSent + 1) |-> i - 1] \in Seq(Nat)
        /\ Len([i \in 1..(cSent + 1) |-> i - 1]) = cSent + 1
        /\ \A j \in 1..(cSent + 1) : [i \in 1..(cSent + 1) |-> i - 1][j] = j - 1
    BY <1>a
  <1> DEFINE Over == {"done", "failed"}
             Quiet == UNCHANGED <<cSent, dSent, client, wsLog, upstream>>
  \* The steps that the peers do not see
  <1>1. ASSUME Quiet, UNCHANGED <<upGot, cWire>>, up' = up \/ {up, up'} \cap Over = {},
               down' = down \/ {down, down'} \cap Over = {}
        PROVE  UNCHANGED duplex!vars
    <2>1. Terminated' <=> Terminated
      BY <1>1 DEF Terminated
    <2> QED BY <1>1, <2>1 DEF duplex!vars
  \* One or both directions are cut
  <1>2. ASSUME NEW D \in SUBSET {"up", "down"}, Quiet, UNCHANGED <<upGot, cWire>>,
               IF "up" \in D THEN up \notin Over /\ up' = "failed" ELSE up' = up,
               IF "down" \in D THEN down \notin Over /\ down' = "failed" ELSE down' = down
        PROVE  duplex!Next
    <2>1. Terminated' <=> Terminated
      BY <1>2 DEF Terminated
    <2>2. duplex!Cut(D)
      BY <1>2, <2>1 DEF duplex!Cut
    <2> QED BY <2>2 DEF duplex!Next
  \* Bytes are handed over upwards
  <1>3. ASSUME NEW n \in 1..(cSent + 1 - Len(upGot)), Quiet, UNCHANGED cWire,
               down' = down \/ {down, down'} \cap Over = {}, up \notin Over, up' \notin Over, upGot' \in Seq(Nat), Len(upGot') = Len(upGot) + n,
               \A i \in 1..Len(upGot') : upGot'[i] = i - 1
        PROVE  duplex!Next
    <2>1. Terminated' <=> Terminated
      BY <1>3 DEF Terminated
    <2>2. Len(upGot') <= cSent + 1
      BY <1>3, <1>a
    <2>3. SubSeq([i \in 1..(cSent + 1) |-> i - 1], 1, Len(upGot')) = upGot'
      <3>1. PICK b \in Seq(Nat) : b = [i \in 1..(cSent + 1) |-> i - 1]
        BY <1>b
      <3>2. Len(b) = cSent + 1 /\ \A j \in 1..(cSent + 1) : b[j] = j - 1
        BY <1>b, <3>1
      <3>3. \A i \in 1..Len(upGot') : upGot'[i] = b[i]
        BY <1>3, <1>a, <2>2, <3>2, SMTT(30)
      <3> QED BY <1>3, <2>2, <3>1, <3>2, <3>3, PrefixOf
    <2>4. duplex!Deliver("up", n)
      BY <1>3, <2>1, <2>3 DEF duplex!Deliver
    <2> QED BY <1>3, <1>a, <1>b, <2>4 DEF duplex!Next
  <1> HIDE DEF Quiet, Over
  <1>10. CASE SendInitHead
    <2>1. up' = "init_tail" /\ up = "init" /\ UNCHANGED <<upGot, down, cWire>> /\ Quiet
      BY <1>10 DEF SendInitHead, downVars, peerVars, Quiet
    <2> QED BY <1>1, <2>1 DEF Over
  <1>11. CASE SendInitTail
    <2>1. /\ up = "init_tail" /\ up' = "read" /\ upGot' = <<0>> /\ upGot = << >>
          /\ down = "idle" /\ down' = "recv" /\ UNCHANGED cWire /\ Quiet
      BY <1>0, <1>11 DEF SendInitTail, UpInv, LockInv, peerVars, Quiet
    <2>2. /\ <<0>> \in Seq(Nat) /\ Len(<<0>>) = 1 /\ Len(upGot) = 0
          /\ \A i \in 1..1 : <<0>>[i] = i - 1
      BY <2>1
    <2>3. 1 \in 1..(cSent + 1 - Len(upGot)) /\ Len(upGot') = Len(upGot) + 1
      BY <1>a, <2>1, <2>2
    <2>4. /\ {down, down'} \cap Over = {} /\ up \notin Over /\ up' \notin Over
          /\ \A i \in 1..Len(upGot') : upGot'[i] = i - 1
      BY <2>1, <2>2 DEF Over
    <2> QED BY <1>3, <2>1, <2>2, <2>3, <2>4
  <1>12. CASE SendInitFails
    <2>1. PICK D \in SUBSET {"up", "down"} : D = {"up", "down"}
      OBVIOUS
    <2>2. /\ up \in {"init", "init_tail"} /\ down = "idle" /\ up' = "failed" /\ down' = "failed"
          /\ Quiet /\ UNCHANGED <<upGot, cWire>>
      BY <1>0, <1>12 DEF SendInitFails, LockInv, peerVars, Quiet
    <2> QED BY <1>2, <2>1, <2>2 DEF Over
  <1>13. ASSUME NEW n, UpRead(n) PROVE UNCHANGED duplex!vars
    <2>1. up' = "send" /\ up = "read" /\ UNCHANGED <<upGot, down, cWire>> /\ Quiet
      BY <1>13 DEF UpRead, downVars, peerVars, Quiet
    <2> QED BY <1>1, <2>1 DEF Over
  <1>14. CASE UpReadEof \/ UpSendHead
    <2>1. /\ up' \in {"close", "sending"} /\ up \in {"read", "send"}
          /\ UNCHANGED <<upGot, down, cWire>> /\ Quiet
      BY <1>14 DEF UpReadEof, UpSendHead, downVars, peerVars, Quiet
    <2> QED BY <1>1, <2>1 DEF Over
  <1>15. CASE UpReadFails \/ UpWriteFails
    <2>1. PICK D \in SUBSET {"up", "down"} : D = {"up"}
      OBVIOUS
    <2>2. /\ up \in {"read", "send", "sending", "close"} /\ up' = "failed"
          /\ Quiet /\ UNCHANGED <<upGot, cWire, down>>
      BY <1>15 DEF UpReadFails, UpWriteFails, downVars, peerVars, Quiet
    <2> QED BY <1>2, <1>a, <2>1, <2>2 DEF Over
  <1>16. ASSUME NEW n \in 1..Len(chunk), UpSendTail(n) PROVE duplex!Next
    <2>1. up = "sending" /\ up' \in {"read", "send"} /\ UNCHANGED <<cWire, down>> /\ Quiet
      BY <1>16 DEF UpSendTail, downVars, peerVars, Quiet
    <2>2. /\ upGot' \in Seq(Nat) /\ Len(upGot') = Len(upGot) + n
          /\ \A i \in 1..Len(upGot') : upGot'[i] = i - 1
      BY <1>0, <1>16, UpDelivers
    <2>3. n \in 1..(cSent + 1 - Len(upGot))
      <3>1. Len(upGot) + Len(chunk) = cRead + 1 /\ cRead <= cSent
        BY <1>0, <2>1 DEF UpInv
      <3>2. Len(chunk) \in Nat /\ cRead \in Nat
        BY <1>0 DEF TypeOK
      <3> QED BY <1>a, <3>1, <3>2
    <2> QED BY <1>3, <2>1, <2>2, <2>3 DEF Over
  <1>17. CASE UpClose
    <2>1. up = "close" /\ up' = "done" /\ UNCHANGED <<upGot, cWire, down>> /\ Quiet
      BY <1>17 DEF UpClose, downVars, peerVars, Quiet
    <2>2. client # "open" /\ Len(upGot) = cSent + 1 /\ \A i \in 1..Len(upGot) : upGot[i] = i - 1
      <3>1. /\ chunk = << >> /\ cRead = cSent /\ Len(upGot) + Len(chunk) = cRead + 1 /\ client # "open"
            /\ \A i \in 1..Len(upGot) : upGot[i] = i - 1
        BY <1>0, <2>1 DEF UpInv
      <3> QED BY <1>a, <3>1
    <2>3. upGot = [i \in 1..(cSent + 1) |-> i - 1]
      BY <1>a, <2>2
    <2>4. Terminated' <=> Terminated
      BY <2>1 DEF Terminated, Quiet
    <2>5. duplex!Close("up")
      BY <2>1, <2>2, <2>3, <2>4 DEF duplex!Close, Quiet
    <2> QED BY <1>a, <2>5 DEF duplex!Next
  <1>20. CASE \/ DownRecvBinary \/ DownRecvPing \/ DownRecvPong \/ DownRecvClose
              \/ DownRecvEof \/ DownPongHead \/ DownPongTail
    <2>1. /\ down \in {"recv", "pong", "ponging"}
          /\ down' \in {"recv", "write", "pong", "ponging", "shutdown"}
          /\ UNCHANGED <<upGot, up, cWire>> /\ Quiet
      BY <1>20 DEF DownRecvBinary, DownRecvPing, DownRecvPong, DownRecvClose, DownRecv, DownRecvEof,
                   DownPongHead, DownPongTail, upVars, peerVars, Quiet
    <2> QED BY <1>1, <2>1 DEF Over
  <1>21. ASSUME down \notin Over, down' = "failed", Quiet, UNCHANGED <<upGot, cWire, up>>
         PROVE  duplex!Next
    <2>1. PICK D \in SUBSET {"up", "down"} : D = {"down"}
      OBVIOUS
    <2> QED BY <1>2, <1>a, <1>21, <2>1
  <1>22. CASE DownRecvFails \/ DownWriteFails
    BY <1>21, <1>22 DEF DownRecvFails, DownWriteFails, upVars, peerVars, Quiet, Over
  <1>23. CASE DownPongFails
    <2>1. /\ down \in {"pong", "ponging"} /\ down' \in {"recv", "failed"}
          /\ UNCHANGED <<upGot, up, cWire>> /\ Quiet
      BY <1>23 DEF DownPongFails, upVars, peerVars, Quiet
    <2>2. CASE down' = "recv"
      BY <1>1, <2>1, <2>2 DEF Over
    <2>3. CASE down' = "failed"
      BY <1>21, <2>1, <2>3 DEF Over
    <2> QED BY <2>1, <2>2, <2>3
  <1>24. CASE DownWrite
    <2>1. /\ down = "write" /\ down' = "recv" /\ cWire' = Append(cWire, wsPos)
          /\ UNCHANGED <<upGot, up>> /\ Quiet
      BY <1>24 DEF DownWrite, upVars, peerVars, Quiet
    <2>2. /\ Len(cWire) + 1 <= Len(dSent) /\ dSent[Len(cWire) + 1] = wsPos
          /\ \A i \in 1..Len(cWire) : cWire[i] = dSent[i]
      BY <1>0, <2>1 DEF DownInv, Handled
    <2>3. /\ cWire' \in Seq(Nat) /\ Len(cWire') = Len(cWire) + 1 /\ cWire'[Len(cWire) + 1] = wsPos
          /\ \A i \in 1..Len(cWire) : cWire'[i] = cWire[i]
      <3>1. wsPos \in Nat
        BY <1>0 DEF TypeOK
      <3> QED BY <1>a, <2>1, <3>1, AppendFacts
    <2>4. \A i \in 1..Len(cWire') : cWire'[i] = dSent[i]
      <3>1. \A i \in 1..Len(cWire') : i = Len(cWire) + 1 \/ i \in 1..Len(cWire)
        BY <1>a, <2>3
      <3> QED BY <2>2, <2>3, <3>1
    <2>5. SubSeq(dSent, 1, Len(cWire) + 1) = cWire'
      BY <1>a, <2>2, <2>3, <2>4, PrefixOf
    <2>6. Terminated' <=> Terminated
      BY <2>1 DEF Terminated, Quiet
    <2>7. duplex!Deliver("down", 1)
      BY <2>1, <2>5, <2>6 DEF duplex!Deliver, Quiet
    <2>8. 1 \in 1..(Len(dSent) - Len(cWire))
      BY <1>a, <2>2
    <2> QED BY <1>a, <2>7, <2>8 DEF duplex!Next
  <1>25. CASE DownShutdown
    <2>1. down = "shutdown" /\ down' = "done" /\ UNCHANGED <<upGot, cWire, up>> /\ Quiet
      BY <1>25 DEF DownShutdown, upVars, peerVars, Quiet
    <2>2. /\ Terminated \/ upstream # "open"
          /\ wsPos = Len(wsLog) /\ Len(cWire) <= Len(dSent)
          /\ \A i \in 1..Len(cWire) : cWire[i] = dSent[i]
          /\ \A i \in 1..Len(dSent) : dSent[i] <= wsPos <=> i <= Len(cWire)
      <3>1. Handled = Len(cWire)
        BY <1>a, <2>1 DEF Handled
      <3> QED BY <1>0, <2>1, <3>1 DEF DownInv
    <2>3. Len(cWire) = Len(dSent)
      <3>1. ASSUME Len(dSent) # 0 PROVE Len(dSent) <= Len(cWire)
        <4>1. Len(dSent) \in 1..Len(dSent)
          BY <1>a, <3>1
        <4>2. dSent[Len(dSent)] \in 1..Len(wsLog)
          BY <1>0, <4>1 DEF LogInv
        <4> QED BY <1>a, <2>2, <4>1, <4>2
      <3> QED BY <1>a, <2>2, <3>1
    <2>4. cWire = dSent
      BY <1>a, <2>2, <2>3, SeqEqual
    <2>5. Terminated' <=> Terminated
      BY <2>1 DEF Terminated, Quiet
    <2>6. duplex!Close("down")
      BY <2>1, <2>2, <2>4, <2>5 DEF duplex!Close, Quiet
    <2> QED BY <1>a, <2>6 DEF duplex!Next
  \* The peers
  <1>30. CASE PeerStep
    <2>1. UNCHANGED <<up, upGot, down, cWire>>
      BY <1>30 DEF PeerStep, upVars, downVars
    <2>2. CASE ClientSends
      <3>1. /\ client = "open" /\ cSent' = cSent + 1 /\ cSent < MaxUp
            /\ UNCHANGED <<wsLog, dSent, client, upstream>>
        BY <2>2 DEF ClientSends
      <3>2. PICK u \in 0..(MaxUp + MaxFrames) : u = cSent + 1
        BY <1>a, <3>1, RelayAssumption
      <3>3. Append([i \in 1..(cSent + 1) |-> i - 1], u) = [i \in 1..(cSent' + 1) |-> i - 1]
        BY <1>a, <3>1, <3>2, BytesFacts DEF Bytes
      <3>4. Terminated' <=> Terminated
        BY <3>1 DEF Terminated
      <3>5. duplex!Send("up", u)
        BY <2>1, <3>1, <3>3, <3>4 DEF duplex!Send
      <3> QED BY <1>a, <3>5 DEF duplex!Next
    <2>3. CASE ClientReads \/ UpstreamReads
      BY <1>1, <2>1, <2>3 DEF ClientReads, UpstreamReads, Quiet
    <2>4. CASE ClientStops
      <3>1. client' # "open" /\ UNCHANGED <<cSent, wsLog, dSent, upstream>>
        BY <2>4 DEF ClientStops
      <3>2. Terminated' <=> Terminated
        BY <3>1 DEF Terminated
      <3>3. duplex!Finish("up")
        BY <2>1, <3>1, <3>2 DEF duplex!Finish
      <3> QED BY <1>a, <3>3 DEF duplex!Next
    <2>5. CASE UpstreamStops
      <3>1. upstream' # "open" /\ UNCHANGED <<cSent, wsLog, dSent, client>>
        BY <2>5 DEF UpstreamStops
      <3>2. duplex!Finish("down")
        BY <2>1, <3>1 DEF duplex!Finish
      <3> QED BY <1>a, <3>2 DEF duplex!Next
    <2>6. CASE UpstreamSends
      <3>1. /\ upstream = "open" /\ ~Terminated /\ Len(wsLog) < MaxFrames
            /\ UNCHANGED <<cSent, client, upstream>>
        BY <2>6 DEF UpstreamSends
      <3>2. PICK k \in FrameKinds :
               /\ wsLog' = Append(wsLog, k)
               /\ dSent' = IF k = "binary" THEN Append(dSent, Len(wsLog) + 1) ELSE dSent
        BY <2>6 DEF UpstreamSends
      <3>3. /\ DOMAIN wsLog' = 1..(Len(wsLog) + 1) /\ DOMAIN wsLog = 1..Len(wsLog)
            /\ wsLog'[Len(wsLog) + 1] = k
            /\ \A i \in 1..Len(wsLog) : wsLog'[i] = wsLog[i]
        BY <1>0, <3>2, AppendFacts DEF TypeOK
      <3>4. Terminated' <=> k \in Terminators
        <4>1. \A i \in 1..(Len(wsLog) + 1) : i = Len(wsLog) + 1 \/ i \in 1..Len(wsLog)
          BY <1>a, SMTT(30)
        <4>2. Len(wsLog) + 1 \in 1..(Len(wsLog) + 1)
          BY <1>a
        <4> QED BY <3>1, <3>3, <4>1, <4>2 DEF Terminated
      <3>5. CASE k = "binary"
        <4>1. PICK u \in 0..(MaxUp + MaxFrames) : u = Len(wsLog) + 1
          BY <1>a, <3>1, RelayAssumption
        <4>2. ~Terminated' /\ dSent' = Append(dSent, u)
          BY <3>2, <3>4, <3>5, <4>1 DEF Terminators
        <4>3. duplex!Send("down", u)
          BY <2>1, <3>1, <4>2 DEF duplex!Send
        <4> QED BY <1>a, <4>3 DEF duplex!Next
      <3>6. CASE k \in Terminators
        <4>1. dSent' = dSent /\ Terminated'
          BY <3>2, <3>4, <3>6 DEF Terminators
        <4>2. duplex!Finish("down")
          BY <2>1, <3>1, <4>1 DEF duplex!Finish
        <4> QED BY <1>a, <4>2 DEF duplex!Next
      <3>7. CASE k # "binary" /\ k \notin Terminators
        <4>1. dSent' = dSent /\ ~Terminated'
          BY <3>2, <3>4, <3>7
        <4>2. UNCHANGED duplex!vars
          BY <2>1, <3>1, <4>1 DEF duplex!vars
        <4> QED BY <4>2
      <3> QED BY <3>5, <3>6, <3>7
    <2> QED BY <1>30, <2>2, <2>3, <2>4, <2>5, <2>6 DEF PeerStep
  <1>31. CASE Return \/ UNCHANGED vars
    BY <1>1, <1>31 DEF Return, vars, upVars, downVars, peerVars, Quiet
  <1> QED
    BY <1>10, <1>11, <1>12, <1>13, <1>14, <1>15, <1>16, <1>17, <1>20, <1>22, <1>23, <1>24,
       <1>25, <1>30, <1>31
       DEF Next, UpStep, DownStep

\* A session is two FIFO directions: bytes and payloads are handed over in order,
\* none lost or repeated, and a direction is closed gracefully only behind all that
\* was sent.  Every behaviour of bridge_ws_tcp is one of Duplex.
THEOREM RelayImplements == Spec => ImplementsDuplex
  BY InitInv, NextInv, InitImplements, NextImplements, PTL
     DEF Spec, ImplementsDuplex, duplex!Spec
=============================================================================
