----------------------------- MODULE Passthrough -----------------------------
(***************************************************************************)
(* bridge_tcp_tcp_with_prelude (modules/relay.rs): connect to the target,  *)
(* write the prelude (an init packet that was read and is not for a        *)
(* WebSocket, or nothing), and leave the rest to copy_bidirectional of     *)
(* tokio, which is modelled from its documented behaviour: each direction  *)
(* has a buffer and ends by shutting down its target once its source has   *)
(* finished and the buffer is written, and the first error ends both.      *)
(*                                                                         *)
(* The prelude is what the client sent before this module begins.  It has  *)
(* left the client's socket and is held by the task alone, so the copy     *)
(* neither sees nor delivers it.                                           *)
(***************************************************************************)
EXTENDS Integers, Sequences

CONSTANTS MaxUnits,   \* bound: units sent in each direction
          BufSize,    \* units that fit into a buffer of copy_bidirectional
          SockCap     \* units that fit into a connection

ASSUME PassthroughAssumption ==
    MaxUnits \in Nat \ {0} /\ BufSize \in Nat \ {0} /\ SockCap \in Nat \ {0}

VARIABLES pc, prelude, st,   \* the task; its prelude; its directions
          buf,               \* what the copy has read and not yet written
          out,               \* what was written to the target of each direction
          sent, sock,        \* what the source has sent; what of it is unread
          taken,             \* how much of out the target has read
          peer               \* what each peer did to its connection

copyVars == <<pc, st, buf, out>>
vars == <<copyVars, prelude, sent, sock, taken, peer>>

Dirs == {"up", "down"}
Src(d) == IF d = "up" THEN "client" ELSE "remote"
Dst(d) == IF d = "up" THEN "remote" ELSE "client"

Units == 1..MaxUnits

\* Behind the types: buffers keep to their size, and no more was ever written to a
\* target, and no more read by it, than its source has sent.
TypeOK == /\ pc \in {"connect", "prelude", "copy", "done", "failed"}
          /\ prelude \in Seq(Units)
          /\ st \in [Dirs -> {"running", "done"}]
          /\ peer \in [{"client", "remote"} -> {"open", "fin", "reset"}]
          /\ \A f \in {buf, out, sent, sock} : f \in [Dirs -> Seq(Units)]
          /\ taken \in [Dirs -> Nat]
          /\ \A d \in Dirs : /\ Len(buf[d]) <= BufSize /\ Len(sent[d]) <= MaxUnits
                             /\ taken[d] <= Len(out[d]) /\ Len(out[d]) <= Len(sent[d])

Nothing == [d \in Dirs |-> << >>]

Init == /\ pc = "connect" /\ prelude \in {<< >>, <<1>>}
        /\ st = [d \in Dirs |-> "running"]
        /\ sent = [Nothing EXCEPT !["up"] = prelude]
        /\ sock = Nothing /\ buf = Nothing /\ out = Nothing
        /\ taken = [d \in Dirs |-> 0]
        /\ peer = [p \in {"client", "remote"} |-> "open"]

-----------------------------------------------------------------------------
Goto(label) == pc' = label /\ UNCHANGED <<st, buf, prelude, sent, sock, taken, peer>>

\* Mutation of Connected: the prelude is forgotten
Connected_bare == pc = "connect" /\ Goto("copy") /\ UNCHANGED out

Connected == pc = "connect" /\ Goto(IF prelude # << >> THEN "prelude" ELSE "copy")
             /\ UNCHANGED out

ConnectFails == pc = "connect" /\ Goto("failed") /\ UNCHANGED out

\* The connection of direction d takes n more units
Room(d, n) == peer[Dst(d)] # "reset" /\ Len(out[d]) + n - taken[d] <= SockCap

\* Mutation of SendPrelude: a write that was suspended starts again from the
\* beginning of the prelude
SendPrelude_restarts == /\ pc = "prelude" /\ Room("up", Len(prelude))
                        /\ out' = [out EXCEPT !["up"] = @ \o prelude]
                        /\ Goto("prelude") \/ Goto("copy")

SendPrelude == /\ pc = "prelude" /\ Room("up", Len(prelude))
               /\ out' = [out EXCEPT !["up"] = @ \o prelude]
               /\ Goto("copy")

PreludeFails == /\ pc = "prelude" /\ peer["remote"] = "reset"
                /\ Goto("failed") /\ UNCHANGED out

-----------------------------------------------------------------------------
(* copy_bidirectional *)

Front(s, n) == SubSeq(s, 1, n)
Rest(s, n) == SubSeq(s, n + 1, Len(s))

Copying(d) == pc = "copy" /\ st[d] = "running"

CopyRead(d, n) == /\ Copying(d) /\ Len(buf[d]) + n <= BufSize
                  /\ buf' = [buf EXCEPT ![d] = @ \o Front(sock[d], n)]
                  /\ sock' = [sock EXCEPT ![d] = Rest(@, n)]
                  /\ UNCHANGED <<pc, st, out, prelude, sent, taken, peer>>

CopyWrite(d, n) == /\ Copying(d) /\ Room(d, n)
                   /\ out' = [out EXCEPT ![d] = @ \o Front(buf[d], n)]
                   /\ buf' = [buf EXCEPT ![d] = Rest(@, n)]
                   /\ UNCHANGED <<pc, st, prelude, sent, sock, taken, peer>>

AtEof(d) == peer[Src(d)] = "fin" /\ sock[d] = << >>

CopyEnds(d) == /\ Copying(d) /\ AtEof(d) /\ buf[d] = << >> /\ peer[Dst(d)] # "reset"
               /\ st' = [st EXCEPT ![d] = "done"]
               /\ UNCHANGED <<pc, buf, out, prelude, sent, sock, taken, peer>>

\* A read is tried while there is room in the buffer, a write while there is
\* something in it, a shutdown at the end
Broken(d) == \/ peer[Src(d)] = "reset" /\ Len(buf[d]) < BufSize
             \/ peer[Dst(d)] = "reset" /\ (buf[d] # << >> \/ AtEof(d))

\* Mutation of CopyFails: one direction's error leaves the other one running
CopyFails_join(d) == /\ Copying(d) /\ Broken(d)
                     /\ \A e \in Dirs : st[e] = "done" \/ Broken(e)
                     /\ Goto("failed") /\ UNCHANGED out

CopyFails(d) == /\ Copying(d) /\ Broken(d)
                /\ Goto("failed") /\ UNCHANGED out

\* Both directions are over; the two trailing shutdowns find nothing left to do
CopyDone == /\ pc = "copy" /\ \A d \in Dirs : st[d] = "done"
            /\ Goto("done") /\ UNCHANGED out

-----------------------------------------------------------------------------
(* The peers (external) *)

Attached(p) == p = "client" \/ pc # "connect"

\* Units are numbered in the order they are sent, so that each can be told apart
PeerSends(d) == /\ Attached(Src(d)) /\ peer[Src(d)] = "open" /\ Len(sent[d]) < MaxUnits
                /\ LET unit == Len(sent[d]) + 1
                   IN  /\ sent' = [sent EXCEPT ![d] = Append(@, unit)]
                       /\ sock' = [sock EXCEPT ![d] = Append(@, unit)]
                /\ UNCHANGED <<copyVars, prelude, taken, peer>>

PeerTakes(d) == /\ peer[Dst(d)] # "reset" /\ taken[d] < Len(out[d])
                /\ taken' = [taken EXCEPT ![d] = @ + 1]
                /\ UNCHANGED <<copyVars, prelude, sent, sock, peer>>

PeerStops(p) == /\ Attached(p)
                /\ \/ peer[p] = "open" /\ peer' = [peer EXCEPT ![p] = "fin"]
                   \/ peer[p] # "reset" /\ peer' = [peer EXCEPT ![p] = "reset"]
                /\ UNCHANGED <<copyVars, prelude, sent, sock, taken>>

-----------------------------------------------------------------------------
Task == \/ Connected \/ ConnectFails \/ SendPrelude \/ PreludeFails
        \/ \E d \in Dirs : \/ \E n \in 1..Len(sock[d]) : CopyRead(d, n)
                           \/ \E n \in 1..Len(buf[d]) : CopyWrite(d, n)
                           \/ CopyEnds(d) \/ CopyFails(d)
        \/ CopyDone

Next == \/ Task
        \/ \E d \in Dirs : PeerSends(d) \/ PeerTakes(d)
        \/ \E p \in {"client", "remote"} : PeerStops(p)

\* A connect is answered or given up by the kernel, the task is polled when it can
\* go on, and peers read what is in flight
Spec == /\ Init /\ [][Next]_vars
        /\ WF_vars(Task) /\ \A d \in Dirs : WF_vars(PeerTakes(d))

-----------------------------------------------------------------------------
(* What the passthrough promises *)

\* The same as a WebSocket session: what was written to a target is a prefix of what
\* its source has sent, the prelude included, and a target sees a graceful end only
\* when its source has finished and everything was written.
duplex == INSTANCE Duplex WITH
    got <- out,
    fin <- [d \in Dirs |-> peer[Src(d)] # "open"],
    ends <- [d \in Dirs |-> IF st[d] = "done" THEN "closed"
                          ELSE IF pc = "failed" THEN "cut" ELSE "open"]

ImplementsDuplex == duplex!Spec

\* The session ends when both peers have finished and, unlike one over a WebSocket,
\* as soon as one peer's connection breaks while it is still being read.
EndsWhenBroken ==
    \/ \A p \in {"client", "remote"} : peer[p] # "open"
    \/ \E d \in Dirs : peer[Src(d)] = "reset" /\ st[d] = "running"
    ~> pc \in {"done", "failed"}
=============================================================================
