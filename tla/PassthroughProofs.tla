-------------------------- MODULE PassthroughProofs --------------------------
(* Proofs about Passthrough: type correctness and the refinement of Duplex, for
   any number of units and any size of buffers and connections. *)
EXTENDS Passthrough, SequenceTheorems, TLAPS

-----------------------------------------------------------------------------
(* Sequences of units *)

LEMMA FrontRest ==
    ASSUME NEW S, NEW s \in Seq(S), NEW n \in 1..Len(s)
    PROVE  /\ Front(s, n) \in Seq(S) /\ Len(Front(s, n)) = n
           /\ Rest(s, n) \in Seq(S) /\ Len(Rest(s, n)) = Len(s) - n
           /\ Front(s, n) \o Rest(s, n) = s
  <1>1. /\ Front(s, n) \in Seq(S) /\ Len(Front(s, n)) = n
        /\ \A i \in 1..n : Front(s, n)[i] = s[i]
    BY DEF Front
  <1>2. /\ Rest(s, n) \in Seq(S) /\ Len(Rest(s, n)) = Len(s) - n
        /\ \A i \in 1..(Len(s) - n) : Rest(s, n)[i] = s[n + i]
    BY DEF Rest
  <1>3. /\ Front(s, n) \o Rest(s, n) \in Seq(S) /\ Len(Front(s, n) \o Rest(s, n)) = Len(s)
        /\ \A i \in 1..Len(s) : (Front(s, n) \o Rest(s, n))[i] = s[i]
    <2>1. PICK f \in Seq(S), r \in Seq(S) : f = Front(s, n) /\ r = Rest(s, n)
      BY <1>1, <1>2
    <2>2. /\ f \o r \in Seq(S) /\ Len(f \o r) = Len(f) + Len(r)
          /\ \A i \in 1..(Len(f) + Len(r)) :
                (f \o r)[i] = IF i <= Len(f) THEN f[i] ELSE r[i - Len(f)]
      BY ConcatProperties
    <2>3. Len(f) + Len(r) = Len(s)
      <3>1. Len(f) = n /\ Len(r) = Len(s) - n /\ Len(s) \in Nat
        BY <1>1, <1>2, <2>1
      <3> QED BY <3>1
    <2>4. ASSUME NEW i \in 1..Len(s) PROVE (f \o r)[i] = s[i]
      BY <1>1, <1>2, <2>1, <2>2, <2>3
    <2> QED BY <2>1, <2>2, <2>3, <2>4
  <1> QED BY <1>1, <1>2, <1>3, SeqEqual

LEMMA ConcatFacts ==
    ASSUME NEW S, NEW a \in Seq(S), NEW b \in Seq(S), NEW c \in Seq(S), NEW x \in S
    PROVE  /\ a \o b \in Seq(S) /\ Len(a \o b) = Len(a) + Len(b)
           /\ (a \o b) \o c = a \o (b \o c)
           /\ a \o << >> = a /\ << >> \o a = a
           /\ a \o Append(b, x) = Append(a \o b, x)
  <1>1. a \o b \in Seq(S) /\ Len(a \o b) = Len(a) + Len(b)
    BY ConcatProperties
  <1>2. (a \o b) \o c = a \o (b \o c)
    BY ConcatAssociative
  <1>3. a \o << >> = a /\ << >> \o a = a
    BY ConcatEmptySeq
  <1>4. a \o Append(b, x) = Append(a \o b, x)
    <2>1. /\ a \o Append(b, x) \in Seq(S) /\ Append(a \o b, x) \in Seq(S)
          /\ Len(a \o Append(b, x)) = Len(Append(a \o b, x))
      BY <1>1
    <2>2. \A i \in 1..Len(Append(a \o b, x)) : (a \o Append(b, x))[i] = Append(a \o b, x)[i]
      BY <1>1
    <2> QED BY <2>1, <2>2, SeqEqual
  <1> QED BY <1>1, <1>2, <1>3, <1>4

LEMMA Associative == \A a, b, c \in Seq(Units) : (a \o b) \o c = a \o (b \o c)
  <1> SUFFICES ASSUME NEW a \in Seq(Units), NEW b \in Seq(Units), NEW c \in Seq(Units)
               PROVE  (a \o b) \o c = a \o (b \o c)
    OBVIOUS
  <1> QED BY ConcatAssociative

LEMMA Prefix ==
    ASSUME NEW S, NEW a \in Seq(S), NEW b \in Seq(S)
    PROVE  SubSeq(a \o b, 1, Len(a)) = a
  <1>1. /\ a \o b \in Seq(S) /\ Len(a \o b) = Len(a) + Len(b)
        /\ \A i \in 1..Len(a) : (a \o b)[i] = a[i]
    BY ConcatProperties
  <1>2. /\ SubSeq(a \o b, 1, Len(a)) \in Seq(S) /\ Len(SubSeq(a \o b, 1, Len(a))) = Len(a)
        /\ \A i \in 1..Len(a) : SubSeq(a \o b, 1, Len(a))[i] = a[i]
    BY <1>1
  <1> QED BY <1>2, SeqEqual

LEMMA Lengths == ASSUME NEW S, NEW a \in Seq(S)
                 PROVE  Len(a) \in Nat /\ (a = << >> <=> Len(a) = 0)
  OBVIOUS

-----------------------------------------------------------------------------
(* The inductive invariant *)

\* Until the copy starts nothing was written and nothing is over; the prelude is
\* what the client sent before everything in its socket.  From then on, what was
\* sent is what was written, what the copy holds and what is unread, in this order.
FlowInv ==
    /\ pc \in {"connect", "prelude"} =>
          /\ out = Nothing /\ buf = Nothing /\ st = [d \in Dirs |-> "running"]
          /\ sent["up"] = prelude \o sock["up"] /\ sent["down"] = sock["down"]
    /\ pc \in {"copy", "done"} =>
          \A d \in Dirs : sent[d] = out[d] \o (buf[d] \o sock[d])

Inv == TypeOK /\ FlowInv

LEMMA NothingTypes == /\ Nothing \in [Dirs -> Seq(Units)]
                      /\ \A d \in Dirs : Nothing[d] = << >> /\ Len(Nothing[d]) = 0
  BY DEF Nothing

LEMMA InitInv == Init => Inv
  <1> SUFFICES ASSUME Init PROVE Inv
    OBVIOUS
  <1>1. prelude \in Seq(Units) /\ Len(prelude) <= 1 /\ Len(prelude) \in Nat
    <2>1. 1 \in Units
      BY PassthroughAssumption DEF Units
    <2>2. /\ << >> \in Seq(Units) /\ <<1>> \in Seq(Units)
          /\ Len(<< >>) = 0 /\ Len(<<1>>) = 1
      BY <2>1
    <2>3. prelude = << >> \/ prelude = <<1>>
      BY DEF Init
    <2>4. CASE prelude = << >>
      BY <2>2, <2>4
    <2>5. CASE prelude = <<1>>
      BY <2>2, <2>5
    <2> QED BY <2>3, <2>4, <2>5
  <1>2. /\ sent \in [Dirs -> Seq(Units)]
        /\ sent["up"] = prelude /\ sent["down"] = << >>
    BY <1>1, NothingTypes DEF Init, Dirs
  <1>3. \A d \in Dirs : Len(sent[d]) <= MaxUnits /\ 0 <= Len(sent[d])
    BY <1>1, <1>2, PassthroughAssumption DEF Dirs
  <1>4. \A d \in Dirs : Len(buf[d]) = 0 /\ Len(out[d]) = 0 /\ taken[d] = 0
    BY NothingTypes DEF Init
  <1>5. TypeOK
    BY <1>1, <1>2, <1>3, <1>4, NothingTypes, PassthroughAssumption DEF Init, TypeOK
  <1>6. FlowInv
    <2>1. sock["up"] = << >> /\ sock["down"] = << >>
      BY NothingTypes DEF Init, Dirs
    <2>2. prelude \o << >> = prelude
      BY <1>1, ConcatEmptySeq
    <2> QED BY <1>2, <2>1, <2>2 DEF Init, FlowInv
  <1> QED BY <1>5, <1>6 DEF Inv

-----------------------------------------------------------------------------
(* The steps that move units: each changes the sequences of one direction only *)

LEMMA Moves ==
    ASSUME Inv, NEW d \in Dirs
    PROVE  /\ out[d] \in Seq(Units) /\ buf[d] \in Seq(Units)
           /\ sock[d] \in Seq(Units) /\ sent[d] \in Seq(Units)
           /\ Len(out[d]) \in Nat /\ Len(buf[d]) \in Nat
           /\ Len(sock[d]) \in Nat /\ Len(sent[d]) \in Nat /\ taken[d] \in Nat
  BY Lengths DEF Inv, TypeOK

\* What one copy step does: n units go from one place to the next one
LEMMA CopyReadInv ==
    ASSUME Inv, NEW d \in Dirs, NEW n \in 1..Len(sock[d]), CopyRead(d, n)
    PROVE  Inv'
  <1>1. PICK f \in Seq(Units), r \in Seq(Units) : f = Front(sock[d], n) /\ r = Rest(sock[d], n)
    BY Moves, FrontRest
  <1>2. Len(f) = n /\ f \o r = sock[d]
    BY <1>1, Moves, FrontRest
  <1>3. buf[d] \o f \in Seq(Units) /\ Len(buf[d] \o f) = Len(buf[d]) + n
    BY <1>2, Moves, ConcatProperties
  <1>4. /\ buf' = [buf EXCEPT ![d] = buf[d] \o f] /\ sock' = [sock EXCEPT ![d] = r]
        /\ UNCHANGED <<pc, st, out, prelude, sent, taken, peer>>
        /\ Len(buf[d]) + n <= BufSize /\ pc = "copy"
    BY <1>1 DEF CopyRead, Copying
  <1>5. /\ buf'[d] = buf[d] \o f /\ sock'[d] = r
        /\ \A e \in Dirs : e # d => buf'[e] = buf[e] /\ sock'[e] = sock[e]
        /\ buf' \in [Dirs -> Seq(Units)] /\ sock' \in [Dirs -> Seq(Units)]
    BY <1>3, <1>4 DEF Inv, TypeOK
  <1>6. TypeOK'
    <2>1. \A e \in Dirs : Len(buf'[e]) <= BufSize
      BY <1>3, <1>4, <1>5 DEF Inv, TypeOK
    <2> QED BY <1>4, <1>5, <2>1 DEF Inv, TypeOK
  <1>7. FlowInv'
    <2>1. sent[d] = out[d] \o ((buf[d] \o f) \o r)
      <3>1. buf[d] \in Seq(Units)
        BY Moves
      <3>2. (buf[d] \o f) \o r = buf[d] \o (f \o r)
        BY <3>1, Associative, ZenonT(40)
      <3> QED BY <1>2, <1>4, <3>2 DEF Inv, FlowInv
    <2>2. \A e \in Dirs : sent'[e] = out'[e] \o (buf'[e] \o sock'[e])
      BY <1>4, <1>5, <2>1 DEF Inv, FlowInv
    <2> QED BY <1>4, <2>2 DEF FlowInv
  <1> QED BY <1>6, <1>7 DEF Inv

LEMMA CopyWriteFacts ==
    ASSUME Inv, NEW d \in Dirs, NEW n \in 1..Len(buf[d]), CopyWrite(d, n)
    PROVE  /\ out' = [out EXCEPT ![d] = out'[d]] /\ buf' = [buf EXCEPT ![d] = buf'[d]]
           /\ out'[d] \in Seq(Units) /\ buf'[d] \in Seq(Units)
           /\ sent[d] = out'[d] \o (buf'[d] \o sock[d])
           /\ Len(out'[d]) = Len(out[d]) + n /\ Len(buf'[d]) <= Len(buf[d])
           /\ Len(out'[d]) <= Len(sent[d])
  <1>1. PICK f \in Seq(Units), r \in Seq(Units) : f = Front(buf[d], n) /\ r = Rest(buf[d], n)
    BY Moves, FrontRest
  <1>2. Len(f) = n /\ Len(r) = Len(buf[d]) - n /\ f \o r = buf[d]
    BY <1>1, Moves, FrontRest
  <1>3. out'[d] = out[d] \o f /\ buf'[d] = r /\ pc = "copy"
    BY <1>1 DEF CopyWrite, Copying, Inv, TypeOK
  <1>4. /\ out[d] \o f \in Seq(Units) /\ Len(out[d] \o f) = Len(out[d]) + n
        /\ r \o sock[d] \in Seq(Units)
    BY <1>2, Moves, ConcatProperties
  <1>5. sent[d] = (out[d] \o f) \o (r \o sock[d])
    <2>1. sent[d] = out[d] \o ((f \o r) \o sock[d])
      BY <1>2, <1>3 DEF Inv, FlowInv
    <2>2. sock[d] \in Seq(Units) /\ out[d] \in Seq(Units)
      BY Moves
    <2>3. (f \o r) \o sock[d] = f \o (r \o sock[d])
      BY <2>2, Associative, ZenonT(40)
    <2>4. (out[d] \o f) \o (r \o sock[d]) = out[d] \o (f \o (r \o sock[d]))
      <3>1. PICK q \in Seq(Units) : q = r \o sock[d]
        BY <1>4
      <3>2. (out[d] \o f) \o q = out[d] \o (f \o q)
        BY <2>2, Associative, ZenonT(40)
      <3> QED BY <3>1, <3>2
    <2> QED BY <2>1, <2>3, <2>4
  <1>6. Len(sent[d]) = Len(out[d] \o f) + Len(r \o sock[d]) /\ Len(r \o sock[d]) \in Nat
    BY <1>4, <1>5, ConcatProperties, Lengths
  <1>7. /\ out' = [out EXCEPT ![d] = out'[d]] /\ buf' = [buf EXCEPT ![d] = buf'[d]]
    BY DEF CopyWrite, Inv, TypeOK
  <1>8. Len(out[d]) + n <= Len(sent[d])
    <2>1. PICK k \in Nat : k = Len(r \o sock[d])
      BY <1>6
    <2>2. Len(sent[d]) = (Len(out[d]) + n) + k /\ Len(out[d]) \in Nat
      BY <1>4, <1>6, <2>1, Moves
    <2> QED BY <2>2
  <1>9. Len(r) <= Len(buf[d])
    BY <1>2, Moves
  <1> QED BY <1>3, <1>4, <1>5, <1>7, <1>8, <1>9

LEMMA CopyWriteInv ==
    ASSUME Inv, NEW d \in Dirs, NEW n \in 1..Len(buf[d]), CopyWrite(d, n)
    PROVE  Inv'
  <1>1. /\ out' = [out EXCEPT ![d] = out'[d]] /\ buf' = [buf EXCEPT ![d] = buf'[d]]
        /\ out'[d] \in Seq(Units) /\ buf'[d] \in Seq(Units)
        /\ sent[d] = out'[d] \o (buf'[d] \o sock[d])
        /\ Len(out'[d]) = Len(out[d]) + n /\ Len(buf'[d]) <= Len(buf[d])
        /\ Len(out'[d]) <= Len(sent[d])
    BY CopyWriteFacts
  <1>2. UNCHANGED <<pc, st, prelude, sent, sock, taken, peer>> /\ pc = "copy"
    BY DEF CopyWrite, Copying
  <1>3. /\ out' \in [Dirs -> Seq(Units)] /\ buf' \in [Dirs -> Seq(Units)]
        /\ \A e \in Dirs : e # d => out'[e] = out[e] /\ buf'[e] = buf[e]
    <2>1. PICK o \in Seq(Units), b \in Seq(Units) : o = out'[d] /\ b = buf'[d]
      BY <1>1
    <2>2. out' = [out EXCEPT ![d] = o] /\ buf' = [buf EXCEPT ![d] = b]
      BY <1>1, <2>1
    <2> QED BY <2>2 DEF Inv, TypeOK
  <1>4. TypeOK'
    <2>1. /\ Len(buf'[d]) <= BufSize /\ taken[d] <= Len(out'[d])
      <3>1. Len(buf'[d]) \in Nat /\ Len(buf[d]) <= BufSize /\ taken[d] <= Len(out[d])
        BY <1>1, Lengths DEF Inv, TypeOK
      <3> QED BY <1>1, <3>1, Moves, PassthroughAssumption
    <2>2. \A e \in Dirs : /\ Len(buf'[e]) <= BufSize /\ Len(sent'[e]) <= MaxUnits
                          /\ taken'[e] <= Len(out'[e]) /\ Len(out'[e]) <= Len(sent'[e])
      BY <1>1, <1>2, <1>3, <2>1 DEF Inv, TypeOK
    <2> QED BY <1>2, <1>3, <2>2 DEF Inv, TypeOK
  <1>5. FlowInv'
    <2>1. \A e \in Dirs : sent'[e] = out'[e] \o (buf'[e] \o sock'[e])
      BY <1>1, <1>2, <1>3 DEF Inv, FlowInv
    <2> QED BY <1>2, <2>1 DEF FlowInv
  <1> QED BY <1>4, <1>5 DEF Inv

\* The prelude is what the task holds between the connect and the copy: writing it
\* puts it in front of everything the client's socket holds.
LEMMA SendPreludeInv == ASSUME Inv, SendPrelude PROVE Inv'
  <1>1. /\ "up" \in Dirs /\ "down" \in Dirs /\ pc = "prelude" /\ pc' = "copy"
        /\ out = Nothing /\ buf = Nothing /\ prelude \in Seq(Units)
        /\ UNCHANGED <<st, buf, prelude, sent, sock, taken, peer>>
        /\ \A d \in Dirs : d \in {"up", "down"}
    BY DEF SendPrelude, Goto, Inv, FlowInv, TypeOK, Dirs
  <1>2. out["up"] \o prelude = prelude
    <2>1. out["up"] = << >>
      BY <1>1, NothingTypes
    <2> QED BY <1>1, <2>1, ConcatEmptySeq
  <1>3. /\ out' = [out EXCEPT !["up"] = prelude]
        /\ out'["up"] = prelude /\ out'["down"] = << >>
        /\ out' \in [Dirs -> Seq(Units)]
    <2>1. out' = [out EXCEPT !["up"] = prelude]
      BY <1>2 DEF SendPrelude
    <2> QED BY <1>1, <2>1, NothingTypes DEF Inv, TypeOK
  <1>4. /\ sent["up"] = prelude \o sock["up"] /\ sent["down"] = sock["down"]
        /\ buf["up"] = << >> /\ buf["down"] = << >>
        /\ sock["up"] \in Seq(Units) /\ sock["down"] \in Seq(Units)
    BY <1>1, Moves, NothingTypes DEF Inv, FlowInv
  <1>5. Len(prelude) <= Len(sent["up"]) /\ taken["up"] <= Len(prelude)
    <2>1. Len(sent["up"]) = Len(prelude) + Len(sock["up"])
      BY <1>1, <1>4, ConcatProperties
    <2>2. Len(prelude) \in Nat /\ Len(sock["up"]) \in Nat /\ taken["up"] \in Nat
      BY <1>1, Moves, Lengths
    <2>3. Len(out["up"]) = 0 /\ taken["up"] <= Len(out["up"])
      BY <1>1, NothingTypes DEF Inv, TypeOK
    <2> QED BY <2>1, <2>2, <2>3
  <1>6. TypeOK'
    <2>1. \A d \in Dirs : /\ Len(buf'[d]) <= BufSize /\ Len(sent'[d]) <= MaxUnits
                          /\ taken'[d] <= Len(out'[d]) /\ Len(out'[d]) <= Len(sent'[d])
      <3>1. \A d \in Dirs : d # "up" => out'[d] = out[d]
        BY <1>3 DEF Inv, TypeOK
      <3> QED BY <1>1, <1>3, <1>5, <3>1 DEF Inv, TypeOK
    <2> QED BY <1>1, <1>3, <2>1 DEF Inv, TypeOK
  <1>7. FlowInv'
    <2>1. prelude \o (<< >> \o sock["up"]) = prelude \o sock["up"]
      BY <1>4, ConcatEmptySeq
    <2>2. << >> \o (<< >> \o sock["down"]) = sock["down"]
      BY <1>4, ConcatEmptySeq
    <2>3. \A d \in Dirs : sent'[d] = out'[d] \o (buf'[d] \o sock'[d])
      BY <1>1, <1>3, <1>4, <2>1, <2>2 DEF Dirs
    <2> QED BY <1>1, <2>3 DEF FlowInv
  <1> QED BY <1>6, <1>7 DEF Inv

LEMMA ConnectedInv == ASSUME Inv, Connected PROVE Inv'
  <1>1. /\ pc = "connect" /\ pc' = IF prelude # << >> THEN "prelude" ELSE "copy"
        /\ UNCHANGED <<out, st, buf, prelude, sent, sock, taken, peer>>
    BY DEF Connected, Goto
  <1>2. TypeOK'
    BY <1>1 DEF Inv, TypeOK
  <1>3. /\ out = Nothing /\ buf = Nothing /\ st = [d \in Dirs |-> "running"]
        /\ sent["up"] = prelude \o sock["up"] /\ sent["down"] = sock["down"]
    BY <1>1 DEF Inv, FlowInv
  <1>4. ASSUME prelude # << >> PROVE FlowInv'
    BY <1>1, <1>3, <1>4 DEF FlowInv
  <1>5. ASSUME prelude = << >> PROVE FlowInv'
    <2>1. sock["up"] \in Seq(Units) /\ sock["down"] \in Seq(Units)
      BY Moves DEF Dirs
    <2>2. /\ << >> \o sock["up"] = sock["up"] /\ << >> \o sock["down"] = sock["down"]
      BY <2>1, ConcatEmptySeq
    <2>3. \A d \in Dirs : sent[d] = out[d] \o (buf[d] \o sock[d])
      BY <1>3, <1>5, <2>2, NothingTypes DEF Dirs
    <2> QED BY <1>1, <1>5, <2>3 DEF FlowInv
  <1> QED BY <1>2, <1>4, <1>5 DEF Inv

LEMMA PeerSendsInv == ASSUME Inv, NEW d \in Dirs, PeerSends(d) PROVE Inv'
  <1>1. PICK u \in Units : u = Len(sent[d]) + 1
    BY Moves, PassthroughAssumption DEF PeerSends, Units
  <1>2. /\ sent' = [sent EXCEPT ![d] = Append(sent[d], u)]
        /\ sock' = [sock EXCEPT ![d] = Append(sock[d], u)]
        /\ UNCHANGED <<pc, st, buf, out, prelude, taken, peer>>
        /\ Len(sent[d]) < MaxUnits
    BY <1>1 DEF PeerSends, copyVars
  <1>3. /\ Append(sent[d], u) \in Seq(Units) /\ Append(sock[d], u) \in Seq(Units)
        /\ Len(Append(sent[d], u)) = Len(sent[d]) + 1
    BY Moves
  <1>4. /\ sent'[d] = Append(sent[d], u) /\ sock'[d] = Append(sock[d], u)
        /\ \A e \in Dirs : e # d => sent'[e] = sent[e] /\ sock'[e] = sock[e]
        /\ sent' \in [Dirs -> Seq(Units)] /\ sock' \in [Dirs -> Seq(Units)]
    BY <1>2, <1>3 DEF Inv, TypeOK
  <1>5. TypeOK'
    <2>1. Len(sent'[d]) <= MaxUnits /\ Len(out[d]) <= Len(sent'[d])
      <3>1. PICK s \in Nat, o \in Nat : s = Len(sent[d]) /\ o = Len(out[d])
        BY Moves
      <3>2. s < MaxUnits /\ o <= s /\ Len(sent'[d]) = s + 1
        BY <1>2, <1>3, <1>4, <3>1 DEF Inv, TypeOK
      <3> QED BY <3>1, <3>2, PassthroughAssumption
    <2>2. \A e \in Dirs : /\ Len(buf'[e]) <= BufSize /\ Len(sent'[e]) <= MaxUnits
                          /\ taken'[e] <= Len(out'[e]) /\ Len(out'[e]) <= Len(sent'[e])
      BY <1>2, <1>4, <2>1 DEF Inv, TypeOK
    <2> QED BY <1>2, <1>4, <2>2 DEF Inv, TypeOK
  \* A unit that is appended to what was sent is appended to what is unread
  <1>6. ASSUME NEW a \in Seq(Units), sent[d] = a \o sock[d]
        PROVE  sent'[d] = a \o sock'[d]
    <2>1. PICK q \in Seq(Units) : q = sock[d]
      BY Moves
    <2>2. a \o Append(q, u) = Append(a \o q, u)
      BY ConcatFacts
    <2> QED BY <1>4, <1>6, <2>1, <2>2
  <1>7. FlowInv'
    <2>1. CASE pc \in {"connect", "prelude"}
      <3>1. prelude \in Seq(Units) /\ "up" \in Dirs /\ "down" \in Dirs
        BY DEF Inv, TypeOK, Dirs
      <3>2. sent["up"] = prelude \o sock["up"] /\ sent["down"] = sock["down"]
        BY <2>1 DEF Inv, FlowInv
      <3>3. CASE d = "up"
        BY <1>2, <1>4, <1>6, <2>1, <3>1, <3>2, <3>3 DEF Inv, FlowInv
      <3>4. CASE d = "down"
        BY <1>2, <1>4, <2>1, <3>1, <3>2, <3>4 DEF Inv, FlowInv
      <3> QED BY <3>3, <3>4 DEF Dirs
    <2>2. CASE pc \in {"copy", "done"}
      <3>1. PICK o \in Seq(Units), b \in Seq(Units) : o = out[d] /\ b = buf[d]
        BY Moves
      <3>2. PICK q \in Seq(Units), r \in Seq(Units) : q = sock[d] /\ r = sock'[d]
        BY <1>3, <1>4, Moves
      <3>3. PICK a \in Seq(Units) : a = o \o b
        BY ConcatProperties
      <3>4. o \o (b \o q) = a \o q
        <4>1. (o \o b) \o q = o \o (b \o q)
          BY Associative, ZenonT(40)
        <4> QED BY <3>3, <4>1, Zenon
      <3>5. o \o (b \o r) = a \o r
        <4>1. (o \o b) \o r = o \o (b \o r)
          BY Associative, ZenonT(40)
        <4> QED BY <3>3, <4>1, Zenon
      <3>6. sent'[d] = out[d] \o (buf[d] \o sock'[d])
        BY <1>6, <2>2, <3>1, <3>2, <3>4, <3>5 DEF Inv, FlowInv
      <3>7. \A e \in Dirs : sent'[e] = out'[e] \o (buf'[e] \o sock'[e])
        BY <1>2, <1>4, <2>2, <3>6 DEF Inv, FlowInv
      <3> QED BY <1>2, <2>2, <3>7 DEF FlowInv
    <2>3. CASE pc = "failed"
      BY <1>2, <2>3 DEF FlowInv
    <2> QED BY <2>1, <2>2, <2>3 DEF Inv, TypeOK
  <1> QED BY <1>5, <1>7 DEF Inv

LEMMA NextInv == Inv /\ [Next]_vars => Inv'
  <1> SUFFICES ASSUME Inv, [Next]_vars PROVE Inv'
    OBVIOUS
  <1>1. CASE Connected
    BY <1>1, ConnectedInv
  <1>2. CASE ConnectFails
    BY <1>2 DEF ConnectFails, Goto, Inv, TypeOK, FlowInv
  <1>3. CASE SendPrelude
    BY <1>3, SendPreludeInv
  <1>4. CASE PreludeFails
    BY <1>4 DEF PreludeFails, Goto, Inv, TypeOK, FlowInv
  <1>5. ASSUME NEW d \in Dirs, NEW n \in 1..Len(sock[d]), CopyRead(d, n)
        PROVE  Inv'
    BY <1>5, CopyReadInv
  <1>6. ASSUME NEW d \in Dirs, NEW n \in 1..Len(buf[d]), CopyWrite(d, n)
        PROVE  Inv'
    BY <1>6, CopyWriteInv
  <1>7. ASSUME NEW d \in Dirs, CopyEnds(d)
        PROVE  Inv'
    BY <1>7 DEF CopyEnds, Copying, Inv, TypeOK, FlowInv
  <1>8. ASSUME NEW d \in Dirs, CopyFails(d)
        PROVE  Inv'
    BY <1>8 DEF CopyFails, Goto, Inv, TypeOK, FlowInv
  <1>9. CASE CopyDone
    BY <1>9 DEF CopyDone, Goto, Inv, TypeOK, FlowInv
  <1>10. ASSUME NEW d \in Dirs, PeerSends(d)
         PROVE  Inv'
    BY <1>10, PeerSendsInv
  <1>11. ASSUME NEW d \in Dirs, PeerTakes(d)
         PROVE  Inv'
    <2>1. /\ taken' = [taken EXCEPT ![d] = @ + 1] /\ taken[d] < Len(out[d])
          /\ UNCHANGED <<pc, st, buf, out, prelude, sent, sock, peer>>
      BY <1>11 DEF PeerTakes, copyVars
    <2>2. taken[d] \in Nat /\ taken[d] + 1 <= Len(out[d])
      BY <2>1, Moves
    <2>3. /\ taken' \in [Dirs -> Nat]
          /\ \A e \in Dirs : taken'[e] <= Len(out[e])
      BY <2>1, <2>2 DEF Inv, TypeOK
    <2> QED BY <2>1, <2>3 DEF Inv, TypeOK, FlowInv
  <1>12. ASSUME NEW p \in {"client", "remote"}, PeerStops(p)
         PROVE  Inv'
    <2>1. UNCHANGED <<pc, st, buf, out, prelude, sent, sock, taken>>
      BY <1>12 DEF PeerStops, copyVars
    <2>2. peer' \in [{"client", "remote"} -> {"open", "fin", "reset"}]
      BY <1>12 DEF PeerStops, Inv, TypeOK
    <2> QED BY <2>1, <2>2 DEF Inv, TypeOK, FlowInv
  <1>13. CASE UNCHANGED vars
    BY <1>13 DEF vars, copyVars, Inv, TypeOK, FlowInv
  <1> QED
    BY <1>1, <1>2, <1>3, <1>4, <1>5, <1>6, <1>7, <1>8, <1>9, <1>10, <1>11, <1>12, <1>13
       DEF Next, Task

\* Every state has its types: buffers keep to their size, and no more is written to a
\* target than its source has sent, the prelude once.
THEOREM PassthroughTypes == Spec => []TypeOK
  <1>1. Inv => TypeOK
    BY DEF Inv
  <1> QED
    BY <1>1, InitInv, NextInv, PTL DEF Spec

-----------------------------------------------------------------------------
(* Refinement *)

LEMMA InitImplements == Init => duplex!Init
  <1> SUFFICES ASSUME Init PROVE duplex!Init
    OBVIOUS
  <1>1. sent \in [Dirs -> Seq(Units)]
    BY InitInv DEF Inv, TypeOK
  <1>2. \A d \in Dirs : peer[Src(d)] = "open" /\ st[d] = "running" /\ pc = "connect"
    BY DEF Init, Src
  <1> QED BY <1>1, <1>2 DEF duplex!Init, Init, Nothing

\* A step that writes n more units in direction d, and what is written then is still
\* the beginning of what was sent
LEMMA Delivers ==
    ASSUME Inv, NEW d \in Dirs, NEW n \in Nat \ {0}, NEW o \in Seq(Units), NEW q \in Seq(Units),
           out' = [out EXCEPT ![d] = o], Len(o) = Len(out[d]) + n, sent[d] = o \o q,
           st[d] = "running", pc # "failed", pc' # "failed", UNCHANGED <<sent, peer, st>>
    PROVE  duplex!Next
  <1>1. SubSeq(sent[d], 1, Len(o)) = o
    BY Prefix
  <1>2. duplex!Deliver(d, n)
    BY <1>1 DEF duplex!Deliver, Inv, TypeOK
  <1>3. n \in 1..(Len(sent[d]) - Len(out[d]))
    <2>1. Len(sent[d]) = Len(o) + Len(q) /\ Len(q) \in Nat
      BY ConcatProperties, Lengths
    <2>2. Len(out[d]) \in Nat /\ Len(sent[d]) \in Nat
      BY Moves
    <2> QED BY <2>1, <2>2
  <1> QED BY <1>2, <1>3 DEF duplex!Next

LEMMA NextImplements == Inv /\ [Next]_vars => [duplex!Next]_(duplex!vars)
  <1> SUFFICES ASSUME Inv, [Next]_vars PROVE [duplex!Next]_(duplex!vars)
    OBVIOUS
  <1> DEFINE Stutter == UNCHANGED <<out, sent, peer, st>> /\ (pc' = "failed" <=> pc = "failed")
             CutAll == /\ UNCHANGED <<out, sent, peer, st>>
                       /\ pc # "failed" /\ pc' = "failed"
  \* The steps that the peers do not see
  <1>1. ASSUME Stutter PROVE UNCHANGED duplex!vars
    BY <1>1 DEF duplex!vars
  \* The steps that end every direction still running
  <1>2. ASSUME CutAll PROVE duplex!Next
    <2>1. PICK D \in SUBSET Dirs : D = {d \in Dirs : st[d] = "running"}
      OBVIOUS
    <2>2. duplex!Cut(D)
      BY <1>2, <2>1 DEF duplex!Cut, Inv, TypeOK
    <2> QED BY <2>2 DEF duplex!Next
  <1> HIDE DEF Stutter, CutAll
  <1>4. CASE Connected
    BY <1>1, <1>4 DEF Connected, Goto, Stutter
  <1>5. CASE ConnectFails
    BY <1>2, <1>5 DEF ConnectFails, Goto, CutAll
  <1>6. CASE SendPrelude
    <2>1. /\ "up" \in Dirs /\ out["up"] = << >> /\ st["up"] = "running"
          /\ prelude \in Seq(Units) /\ sock["up"] \in Seq(Units)
          /\ sent["up"] = prelude \o sock["up"]
      BY <1>6, NothingTypes, Moves DEF SendPrelude, Inv, FlowInv, TypeOK, Dirs
    <2>2. out' = [out EXCEPT !["up"] = prelude]
      BY <1>6, <2>1, ConcatEmptySeq DEF SendPrelude
    <2>3. CASE prelude = << >>
      <3>1. out' = out
        BY <2>1, <2>2, <2>3 DEF Inv, TypeOK
      <3> QED BY <1>1, <1>6, <3>1 DEF SendPrelude, Goto, Stutter
    <2>4. CASE prelude # << >>
      <3>1. PICK n \in Nat \ {0} : n = Len(prelude)
        BY <2>1, <2>4, Lengths
      <3>2. Len(prelude) = Len(out["up"]) + n
        BY <2>1, <3>1
      <3>3. pc # "failed" /\ pc' # "failed" /\ UNCHANGED <<sent, peer, st>>
        BY <1>6 DEF SendPrelude, Goto
      <3> QED BY <2>1, <2>2, <3>2, <3>3, Delivers
    <2> QED BY <2>3, <2>4
  <1>7. CASE PreludeFails
    BY <1>2, <1>7 DEF PreludeFails, Goto, CutAll
  <1>8. ASSUME NEW d \in Dirs, NEW n \in 1..Len(sock[d]), CopyRead(d, n)
        PROVE  UNCHANGED duplex!vars
    BY <1>1, <1>8 DEF CopyRead, Stutter
  <1>9. ASSUME NEW d \in Dirs, NEW n \in 1..Len(buf[d]), CopyWrite(d, n)
        PROVE  duplex!Next
    <2>1. PICK o \in Seq(Units) : /\ out' = [out EXCEPT ![d] = o] /\ o = out'[d]
                                 /\ Len(o) = Len(out[d]) + n
      BY <1>9, CopyWriteFacts
    <2>2. PICK q \in Seq(Units) : sent[d] = o \o q
      <3>1. buf'[d] \in Seq(Units) /\ sock[d] \in Seq(Units) /\ sent[d] = o \o (buf'[d] \o sock[d])
        BY <1>9, <2>1, CopyWriteFacts, Moves
      <3> QED BY <3>1, ConcatProperties
    <2>3. /\ st[d] = "running" /\ pc # "failed" /\ pc' # "failed" /\ UNCHANGED <<sent, peer, st>>
      BY <1>9 DEF CopyWrite, Copying
    <2>4. n \in Nat \ {0}
      BY Moves
    <2> QED BY <2>1, <2>2, <2>3, <2>4, Delivers
  <1>10. ASSUME NEW d \in Dirs, CopyEnds(d) PROVE duplex!Next
    <2>1. sent[d] = out[d]
      <3>1. sent[d] = out[d] \o (<< >> \o << >>)
        BY <1>10 DEF CopyEnds, Copying, AtEof, Inv, FlowInv
      <3>2. << >> \o << >> = << >>
        OBVIOUS
      <3>3. out[d] \o << >> = out[d]
        BY Moves, ConcatEmptySeq
      <3> QED BY <3>1, <3>2, <3>3
    <2>2. duplex!Close(d)
      BY <1>10, <2>1 DEF CopyEnds, Copying, AtEof, duplex!Close, Inv, TypeOK
    <2> QED BY <2>2 DEF duplex!Next
  <1>11. ASSUME NEW d \in Dirs, CopyFails(d) PROVE duplex!Next
    BY <1>2, <1>11 DEF CopyFails, Copying, Goto, CutAll
  <1>12. CASE CopyDone
    BY <1>1, <1>12 DEF CopyDone, Goto, Stutter
  <1>13. ASSUME NEW d \in Dirs, PeerSends(d) PROVE duplex!Next
    <2>1. PICK u \in Units : u = Len(sent[d]) + 1
      BY <1>13, Moves, PassthroughAssumption DEF PeerSends, Units
    <2>2. duplex!Send(d, u)
      BY <1>13, <2>1 DEF PeerSends, copyVars, duplex!Send
    <2> QED BY <2>2 DEF duplex!Next
  <1>14. ASSUME NEW d \in Dirs, PeerTakes(d) PROVE UNCHANGED duplex!vars
    BY <1>1, <1>14 DEF PeerTakes, copyVars, Stutter
  <1>15. ASSUME NEW p \in {"client", "remote"}, PeerStops(p)
         PROVE  [duplex!Next]_(duplex!vars)
    <2>1. PICK d \in Dirs : Src(d) = p /\ \A e \in Dirs : Src(e) = p => e = d
      BY DEF Dirs, Src
    <2>2. peer \in [{"client", "remote"} -> {"open", "fin", "reset"}]
      BY DEF Inv, TypeOK
    <2>3. /\ UNCHANGED <<out, sent, st, pc>>
          /\ peer' = [peer EXCEPT ![p] = "fin"] \/ peer' = [peer EXCEPT ![p] = "reset"]
      BY <1>15 DEF PeerStops, copyVars
    <2>4. \A e \in Dirs : Src(e) \in {"client", "remote"}
      BY DEF Src
    <2>5. duplex!Finish(d)
      BY <2>1, <2>2, <2>3, <2>4, ZenonT(60) DEF duplex!Finish
    <2> QED BY <2>5 DEF duplex!Next
  <1>16. CASE UNCHANGED vars
    BY <1>1, <1>16 DEF vars, copyVars, Stutter
  <1> QED
    BY <1>4, <1>5, <1>6, <1>7, <1>8, <1>9, <1>10, <1>11, <1>12, <1>13, <1>14, <1>15, <1>16
       DEF Next, Task

\* Both directions are FIFO, the prelude first and once, nothing lost or repeated, and
\* a target is shut down only behind everything its source sent: every behaviour of
\* bridge_tcp_tcp_with_prelude is one of Duplex.
THEOREM PassthroughImplements == Spec => ImplementsDuplex
  BY InitInv, NextInv, InitImplements, NextImplements, PTL
     DEF Spec, ImplementsDuplex, duplex!Spec
=============================================================================
