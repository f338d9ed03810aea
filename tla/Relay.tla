-------------------------------- MODULE Relay --------------------------------
(***************************************************************************)
(* bridge_ws_tcp (modules/relay.rs): one session between a client's TCP    *)
(* stream and a WebSocket.  Two async blocks run in one join!, the up      *)
(* block from the client to the WebSocket and the down block back; they    *)
(* interleave at every await and share the WebSocket's write half behind a *)
(* tokio Mutex, which serves its waiters in FIFO order.                    *)
(*                                                                         *)
(* The bytes of the client are numbered: 0 is the init packet, which the   *)
(* routing layer has already read, 1, 2, ... follow.  MtProtoMessage-      *)
(* Splitter::split cuts a chunk into contiguous nonempty parts; where it   *)
(* cuts is nondeterministic here.  write_all of a frame may be suspended   *)
(* in the middle, so a frame is written as a head and a tail.  A frame of  *)
(* the upstream is its kind; its position in wsLog stands for its payload. *)
(*                                                                         *)
(* The peers are nondeterministic: they send, read, finish (FIN) or reset  *)
(* whenever they like.  A reset also stands for the other ways a read of   *)
(* the stream can fail, such as its end inside a frame; an end inside the  *)
(* two bytes of a header counts as an end between frames, as in read_frame *)
(***************************************************************************)
EXTENDS Integers, Sequences, SequencesExt

CONSTANTS MaxUp,      \* bound: bytes the client sends after the init
          MaxFrames,  \* bound: frames the upstream sends
          WireCap,    \* pieces that fit into the connection to the upstream
          ClientCap   \* payloads that fit into the connection to the client

ASSUME RelayAssumption == /\ MaxUp \in Nat /\ MaxFrames \in Nat
                          /\ WireCap \in Nat \ {0} /\ ClientCap \in Nat \ {0}

VARIABLES up, down,  \* where the two async blocks stand
          chunk,     \* the bytes of buf[..n] that are not sent yet
          lockq,     \* ws_writer's mutex: the holder, then the waiters
          wire,      \* every piece ever written to the WebSocket
          taken,     \* how many of them the upstream has read
          upGot,     \* the bytes of the binary frames that are complete
          cSent,     \* how many bytes the client has sent
          cRead,     \* how many of them were read
          wsLog,     \* every frame the upstream has sent
          dSent,     \* the positions of its binary frames
          wsPos,     \* how many of them were read
          cWire,     \* every payload ever written to the client
          cTaken,    \* how many of them the client has read
          client,    \* what the client did to the connection
          upstream,  \* what the upstream did to the connection
          ended      \* bridge_ws_tcp has returned

upVars == <<up, chunk, cRead, upGot>>
downVars == <<down, wsPos, cWire>>
peerVars == <<taken, cSent, wsLog, dSent, cTaken, client, upstream>>
vars == <<upVars, downVars, peerVars, lockq, wire, ended>>

FrameKinds == {"binary", "ping", "pong", "close", "other"}
Peers == {"open", "fin", "reset"}

\* Frames after which recv_frame reports the end of the stream
Terminators == {"close", "other"}

\* ping: the position of the Ping that a Pong answers
Piece == [kind : {"binary", "pong"}, part : {"head", "tail"}, ping : Nat]

\* Behind the types: the chunk holds nothing but bytes that read has returned, never
\* what the buffer has behind them.
TypeOK == /\ up \in {"init", "init_tail", "read", "send", "sending", "close",
                     "done", "failed"}
          /\ down \in {"idle", "recv", "write", "pong", "ponging", "shutdown",
                       "done", "failed"}
          /\ chunk \in Seq(Nat) /\ \A i \in 1..Len(chunk) : chunk[i] \in 1..cRead
          /\ lockq \in Seq({"up", "down"})
          /\ wire \in Seq(Piece) /\ upGot \in Seq(Nat)
          /\ taken \in Nat /\ cSent \in Nat /\ cRead \in Nat
          /\ wsLog \in Seq(FrameKinds) /\ dSent \in Seq(Nat) /\ wsPos \in Nat
          /\ cWire \in Seq(Nat) /\ cTaken \in Nat
          /\ client \in Peers /\ upstream \in Peers
          /\ ended \in BOOLEAN

Init == /\ up = "init" /\ down = "idle"
        /\ chunk = << >> /\ lockq = << >>
        /\ wire = << >> /\ taken = 0 /\ upGot = << >>
        /\ cSent = 0 /\ cRead = 0
        /\ wsLog = << >> /\ dSent = << >> /\ wsPos = 0
        /\ cWire = << >> /\ cTaken = 0
        /\ client = "open" /\ upstream = "open"
        /\ ended = FALSE

-----------------------------------------------------------------------------
(* The write half of the WebSocket *)

Lock(t) == lockq' = Append(lockq, t)
Holds(t) == lockq # << >> /\ Head(lockq) = t
Unlock == lockq' = Tail(lockq)

\* One piece is accepted by the connection.  A write after a reset fails, and
\* so does one after ws.close().
CanWrite == Len(wire) - taken < WireCap /\ upstream # "reset" /\ up # "done"
Put(k, p, i) == /\ CanWrite
                /\ wire' = Append(wire, [kind |-> k, part |-> p, ping |-> i])

-----------------------------------------------------------------------------
(* bridge_ws_tcp before the join *)

SendInitHead == /\ up = "init" /\ Put("binary", "head", 0)
                /\ up' = "init_tail"
                /\ UNCHANGED <<chunk, cRead, upGot, downVars, peerVars, lockq, ended>>

SendInitTail == /\ up = "init_tail" /\ Put("binary", "tail", 0)
                /\ upGot' = <<0>>
                /\ up' = "read" /\ down' = "recv"
                /\ UNCHANGED <<chunk, cRead, wsPos, cWire, peerVars, lockq, ended>>

SendInitFails == /\ up \in {"init", "init_tail"} /\ upstream = "reset"
                 /\ up' = "failed" /\ down' = "failed"
                 /\ UNCHANGED <<chunk, cRead, upGot, wsPos, cWire, peerVars, lockq, wire, ended>>

-----------------------------------------------------------------------------
(* The up block *)

\* Mutation of UpRead: the chunk is not cut off where the read ended
UpRead_past_end(n) ==
    /\ up = "read" /\ cRead + n <= cSent
    /\ chunk' = [i \in 1..(n + 1) |-> cRead + i]
    /\ cRead' = cRead + n
    /\ up' = "send" /\ Lock("up")
    /\ UNCHANGED <<upGot, downVars, peerVars, wire, ended>>

\* client_reader.read returned the next n bytes; the block asks for the lock
UpRead(n) ==
    /\ up = "read" /\ cRead + n <= cSent
    /\ chunk' = [i \in 1..n |-> cRead + i]
    /\ cRead' = cRead + n
    /\ up' = "send" /\ Lock("up")
    /\ UNCHANGED <<upGot, downVars, peerVars, wire, ended>>

\* n == 0: the loop ends and the block asks for the lock to close
UpReadEof ==
    /\ up = "read" /\ cRead = cSent /\ client = "fin"
    /\ up' = "close" /\ Lock("up")
    /\ UNCHANGED <<chunk, cRead, upGot, downVars, peerVars, wire, ended>>

\* The error leaves the block at once: the WebSocket is not closed
UpReadFails ==
    /\ up = "read" /\ client = "reset"
    /\ up' = "failed"
    /\ UNCHANGED <<chunk, cRead, upGot, downVars, peerVars, lockq, wire, ended>>

UpSendHead ==
    /\ up = "send" /\ Holds("up") /\ Put("binary", "head", 0)
    /\ up' = "sending"
    /\ UNCHANGED <<chunk, cRead, upGot, downVars, peerVars, lockq, ended>>

\* Mutation of UpSendTail: what follows the first part of a chunk is forgotten
UpSendTail_first_part(n) ==
    /\ up = "sending" /\ Put("binary", "tail", 0)
    /\ upGot' = upGot \o SubSeq(chunk, 1, n)
    /\ chunk' = << >>
    /\ up' = "read" /\ Unlock
    /\ UNCHANGED <<cRead, downVars, peerVars, ended>>

\* The part of length n is out; the lock is kept until the chunk is
UpSendTail(n) ==
    /\ up = "sending" /\ Put("binary", "tail", 0)
    /\ upGot' = upGot \o SubSeq(chunk, 1, n)
    /\ chunk' = SubSeq(chunk, n + 1, Len(chunk))
    /\ \/ n = Len(chunk) /\ up' = "read" /\ Unlock
       \/ n < Len(chunk) /\ up' = "send" /\ UNCHANGED lockq
    /\ UNCHANGED <<cRead, downVars, peerVars, ended>>

\* Mutation of UpWriteFails: the guard outlives the block
UpWriteFails_locked ==
    /\ up \in {"send", "sending", "close"} /\ Holds("up") /\ upstream = "reset"
    /\ up' = "failed"
    /\ UNCHANGED <<chunk, cRead, upGot, downVars, peerVars, lockq, wire, ended>>

\* ws.send or ws.close failed; the guard is dropped with the block
UpWriteFails ==
    /\ up \in {"send", "sending", "close"} /\ Holds("up") /\ upstream = "reset"
    /\ up' = "failed" /\ Unlock
    /\ UNCHANGED <<chunk, cRead, upGot, downVars, peerVars, wire, ended>>

\* Mutation of UpClose: the guard outlives the block
UpClose_locked ==
    /\ up = "close" /\ Holds("up") /\ CanWrite
    /\ up' = "done"
    /\ UNCHANGED <<chunk, cRead, upGot, downVars, peerVars, lockq, wire, ended>>

\* Mutation of UpClose: the first block that is over ends the other (select!)
UpClose_select ==
    /\ up = "close" /\ Holds("up") /\ CanWrite
    /\ up' = "done" /\ lockq' = << >>
    /\ down' = IF down = "done" THEN "done" ELSE "failed"
    /\ UNCHANGED <<chunk, cRead, upGot, wsPos, cWire, peerVars, wire, ended>>

UpClose ==
    /\ up = "close" /\ Holds("up") /\ CanWrite
    /\ up' = "done" /\ Unlock
    /\ UNCHANGED <<chunk, cRead, upGot, downVars, peerVars, wire, ended>>

-----------------------------------------------------------------------------
(* The down block *)

\* The next frame, and where the block goes with it
DownRecv(k, label) ==
    /\ down = "recv" /\ wsPos < Len(wsLog) /\ wsLog[wsPos + 1] = k
    /\ wsPos' = wsPos + 1
    /\ down' = label
    /\ UNCHANGED <<upVars, cWire, peerVars, wire, ended>>

DownRecvBinary == DownRecv("binary", "write") /\ UNCHANGED lockq

\* Mutation of DownRecvPing: a Ping is skipped like a Pong
DownRecvPing_skipped == DownRecv("ping", "recv") /\ UNCHANGED lockq

DownRecvPing == DownRecv("ping", "pong") /\ Lock("down")

\* recv_frame skips a Pong
DownRecvPong == DownRecv("pong", "recv") /\ UNCHANGED lockq

DownRecvClose == /\ \E k \in Terminators : DownRecv(k, "shutdown")
                 /\ UNCHANGED lockq

DownRecvEof ==
    /\ down = "recv" /\ wsPos = Len(wsLog) /\ upstream = "fin"
    /\ down' = "shutdown"
    /\ UNCHANGED <<upVars, wsPos, cWire, peerVars, lockq, wire, ended>>

DownRecvFails ==
    /\ down = "recv" /\ upstream = "reset"
    /\ down' = "failed"
    /\ UNCHANGED <<upVars, wsPos, cWire, peerVars, lockq, wire, ended>>

DownWrite ==
    /\ down = "write" /\ client # "reset" /\ Len(cWire) - cTaken < ClientCap
    /\ cWire' = Append(cWire, wsPos)
    /\ down' = "recv"
    /\ UNCHANGED <<upVars, wsPos, peerVars, lockq, wire, ended>>

\* client_writer.write_all or client_writer.shutdown failed
DownWriteFails ==
    /\ down \in {"write", "shutdown"} /\ client = "reset"
    /\ down' = "failed"
    /\ UNCHANGED <<upVars, wsPos, cWire, peerVars, lockq, wire, ended>>

\* Mutation of DownPongHead: the write half is used without its lock
DownPongHead_unlocked ==
    /\ down = "pong" /\ Put("pong", "head", wsPos)
    /\ down' = "ponging"
    /\ UNCHANGED <<upVars, wsPos, cWire, peerVars, lockq, ended>>

DownPongHead ==
    /\ down = "pong" /\ Holds("down") /\ Put("pong", "head", wsPos)
    /\ down' = "ponging"
    /\ UNCHANGED <<upVars, wsPos, cWire, peerVars, lockq, ended>>

DownPongTail ==
    /\ down = "ponging" /\ Put("pong", "tail", wsPos)
    /\ down' = "recv" /\ Unlock
    /\ UNCHANGED <<upVars, wsPos, cWire, peerVars, ended>>

\* send_control_frame failed; on a stream that this side has closed, the TLS
\* layer reports an error or swallows the frame
DownPongFails ==
    /\ down \in {"pong", "ponging"} /\ Holds("down")
    /\ \/ (upstream = "reset" \/ up = "done") /\ down' = "failed"
       \/ up = "done" /\ down' = "recv"
    /\ Unlock
    /\ UNCHANGED <<upVars, wsPos, cWire, peerVars, wire, ended>>

DownShutdown ==
    /\ down = "shutdown"
    /\ down' = "done"
    /\ UNCHANGED <<upVars, wsPos, cWire, peerVars, lockq, wire, ended>>

-----------------------------------------------------------------------------
\* Both blocks are over: bridge_ws_tcp returns and drops both connections
Return == /\ up \in {"done", "failed"} /\ down \in {"done", "failed"} /\ ~ended
          /\ ended' = TRUE
          /\ UNCHANGED <<upVars, downVars, peerVars, lockq, wire>>

-----------------------------------------------------------------------------
(* The peers (external) *)

ClientSends == /\ client = "open" /\ cSent < MaxUp
               /\ cSent' = cSent + 1
               /\ UNCHANGED <<taken, wsLog, dSent, cTaken, client, upstream>>

ClientReads == /\ client # "reset" /\ cTaken < Len(cWire)
               /\ cTaken' = cTaken + 1
               /\ UNCHANGED <<taken, cSent, wsLog, dSent, client, upstream>>

ClientStops == /\ \/ client = "open" /\ client' \in {"fin", "reset"}
                  \/ client = "fin" /\ client' = "reset"
               /\ UNCHANGED <<taken, cSent, wsLog, dSent, cTaken, upstream>>

Terminated == \E i \in DOMAIN wsLog : wsLog[i] \in Terminators

\* What follows a frame that ends the stream is never read, and left out: behind a
\* Close the upstream sends nothing, but payloads behind a frame of an unknown opcode
\* would be dropped although the client sees a graceful end
UpstreamSends == /\ upstream = "open" /\ ~Terminated /\ Len(wsLog) < MaxFrames
                 /\ \E k \in FrameKinds :
                       /\ wsLog' = Append(wsLog, k)
                       /\ dSent' = IF k = "binary" THEN Append(dSent, Len(wsLog) + 1)
                                                  ELSE dSent
                 /\ UNCHANGED <<taken, cSent, cTaken, client, upstream>>

UpstreamReads == /\ upstream # "reset" /\ taken < Len(wire)
                 /\ taken' = taken + 1
                 /\ UNCHANGED <<cSent, wsLog, dSent, cTaken, client, upstream>>

UpstreamStops == /\ \/ upstream = "open" /\ upstream' \in {"fin", "reset"}
                    \/ upstream = "fin" /\ upstream' = "reset"
                 /\ UNCHANGED <<taken, cSent, wsLog, dSent, cTaken, client>>

PeerStep == /\ \/ ClientSends \/ ClientReads \/ ClientStops
               \/ UpstreamSends \/ UpstreamReads \/ UpstreamStops
            /\ UNCHANGED <<upVars, downVars, lockq, wire, ended>>

-----------------------------------------------------------------------------
UpStep == \/ SendInitHead \/ SendInitTail \/ SendInitFails
          \/ \E n \in 1..(cSent - cRead) : UpRead(n)
          \/ UpReadEof \/ UpReadFails
          \/ UpSendHead \/ \E n \in 1..Len(chunk) : UpSendTail(n)
          \/ UpWriteFails \/ UpClose

DownStep == \/ DownRecvBinary \/ DownRecvPing \/ DownRecvPong \/ DownRecvClose
            \/ DownRecvEof \/ DownRecvFails \/ DownWrite \/ DownWriteFails
            \/ DownPongHead \/ DownPongTail \/ DownPongFails \/ DownShutdown

Next == UpStep \/ DownStep \/ Return \/ PeerStep

\* join! polls a block again when it can proceed.  The peers are only assumed to
\* go on reading what is in flight: a peer that stops reading without closing
\* stalls the relay, which has no write timeout.
Fairness == /\ WF_vars(UpStep) /\ WF_vars(DownStep) /\ WF_vars(Return)
            /\ WF_vars(ClientReads /\ UNCHANGED <<upVars, downVars, lockq, wire, ended>>)
            /\ WF_vars(UpstreamReads /\ UNCHANGED <<upVars, downVars, lockq, wire, ended>>)

Spec == Init /\ [][Next]_vars /\ Fairness

-----------------------------------------------------------------------------
(* What the relay promises *)

\* The two blocks never interleave their frames: on the WebSocket every head is
\* followed by its own tail, although write_all may be suspended in between.
FramesWhole ==
    \A i \in 1..(Len(wire) - 1) :
        \/ /\ wire[i].part = "head" /\ wire[i + 1].part = "tail"
           /\ wire[i].kind = wire[i + 1].kind /\ wire[i].ping = wire[i + 1].ping
        \/ wire[i].part = "tail" /\ wire[i + 1].part = "head"

\* The mutex of the write half is never left locked by a block that is over or
\* that is waiting for its reader: holder and waiters are blocks that write.
LockHeldByWriters ==
    /\ Len(lockq) <= 2 /\ (Len(lockq) = 2 => lockq[1] # lockq[2])
    /\ \A i \in DOMAIN lockq :
          \/ lockq[i] = "up" /\ up \in {"send", "sending", "close"}
          \/ lockq[i] = "down" /\ down \in {"pong", "ponging"}

Answered(p) == \E i \in DOMAIN wire : wire[i].part = "tail" /\ wire[i].ping = p

\* A Ping that was read is answered by one Pong, unless the write half was closed
\* or lost meanwhile; nothing else is answered.
PingsAnswered ==
    /\ \A p \in 1..wsPos :
          \/ wsLog[p] # "ping"
          \/ up = "done" \/ down = "failed"
          \/ p = wsPos /\ down \in {"pong", "ponging"}
          \/ Answered(p)
    /\ \A i, j \in DOMAIN wire :
          wire[i].kind = "pong" /\ wire[i].part = "tail" =>
              /\ wsLog[wire[i].ping] = "ping"
              /\ wire[j] = wire[i] => i = j

\* The session as two FIFO directions: bytes reach the WebSocket, and payloads
\* the client, in order, without loss or duplication, and a direction is closed
\* gracefully only when everything that was sent has been handed over.
duplex == INSTANCE Duplex WITH
    Dirs <- {"up", "down"},
    Units <- 0..(MaxUp + MaxFrames),
    sent <- [d \in {"up", "down"} |->
               IF d = "up" THEN [i \in 1..(cSent + 1) |-> i - 1] ELSE dSent],
    fin <- [d \in {"up", "down"} |->
              IF d = "up" THEN client # "open" ELSE Terminated \/ upstream # "open"],
    got <- [d \in {"up", "down"} |-> IF d = "up" THEN upGot ELSE cWire],
    ends <- [d \in {"up", "down"} |->
               LET pc == IF d = "up" THEN up ELSE down
               IN  IF pc = "done" THEN "closed" ELSE IF pc = "failed" THEN "cut" ELSE "open"]

ImplementsDuplex == duplex!Spec

\* When both peers have finished, the session ends: no block waits for ever, for
\* the lock or for a peer, and bridge_ws_tcp returns.
SessionEnds ==
    []<>(client # "open" /\ (Terminated \/ upstream # "open") => ended)

UnansweredPing == \E p \in 1..wsPos : wsLog[p] = "ping" /\ ~Answered(p)

\* A client that has said all it will may still download: when the upstream ends its
\* stream, everything it sent has been written to the client, followed by a graceful
\* end, however late that is after the up block has closed the write half.  A Ping
\* that this closed half cannot answer is the only exception, and loses the rest.
DownloadCompletes ==
    []<>( /\ Terminated \/ upstream = "fin"
          /\ client # "reset" /\ upstream # "reset"
          /\ ~ (up = "done" /\ UnansweredPing)
          => down = "done" /\ cWire = dSent )

-----------------------------------------------------------------------------
(* What the documents say and the code does not do *)

\* docs/architecture.md: "Read and write halves of the WebSocket stream are
\* separated to avoid a shared lock blocking both directions": payloads waiting
\* for the client would never be held up behind a stalled write to the upstream.
NoSharedLockStall ==
    ~ /\ up \in {"send", "sending"} /\ Holds("up") /\ Len(wire) - taken >= WireCap
      /\ down = "pong" /\ lockq # << >> /\ upstream = "open"
      /\ \E i \in (wsPos + 1)..Len(wsLog) : wsLog[i] = "binary"

\* docs/architecture.md: "Proxy relays traffic both directions until one side
\* closes": a client whose connection is gone would end the session.
EndsWhenClientGone == client = "reset" ~> ended
=============================================================================
