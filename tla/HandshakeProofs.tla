-------------------------- MODULE HandshakeProofs --------------------------
(* Proofs about the upgrade of WsClient: what parse_handshake_response makes of a
   response header of any number of lines, and what connect makes of that.  The
   loop is a recursive function of the line number, so this is an induction over
   it, with the set of the numbers for which the claim holds in the place of a
   predicate. *)
EXTENDS WsClientProofs, WellFoundedInduction

-----------------------------------------------------------------------------
(* Induction *)

LEMMA LeastNumber ==
    ASSUME NEW T, T \subseteq Nat, T # {}
    PROVE  \E x \in T : \A y \in T : x <= y
  <1> DEFINE R == OpToRel(<, Nat)
  <1>1. IsWellFoundedOn(R, Nat)
    BY NatLessThanWellFounded
  <1> HIDE DEF R
  <1>2. PICK x \in T : \A y \in T : ~(<<y, x>> \in R)
    BY <1>1, WFMin
  <1>3. \A y \in T : ~(y < x)
    BY <1>2 DEF R, OpToRel
  <1> QED BY <1>2, <1>3

LEMMA Induction ==
    ASSUME NEW S, 0 \in S, \A n \in Nat : n \in S => n + 1 \in S
    PROVE  \A n \in Nat : n \in S
  <1> DEFINE T == {n \in Nat : n \notin S}
  <1>1. SUFFICES ASSUME T # {} PROVE FALSE
    OBVIOUS
  <1>2. PICK x \in T : \A y \in T : x <= y
    BY <1>1, LeastNumber
  <1>3. x # 0 /\ x - 1 \in Nat /\ x - 1 \in S
    BY <1>2
  <1> QED BY <1>2, <1>3

-----------------------------------------------------------------------------
(* The loop of parse_handshake_response *)

\* The recursion has a solution, so ParseLoop is one.
LEMMA ParseLoopUnfolds ==
    ASSUME NEW lines \in Seq(Line)
    PROVE  /\ ParseLoop(lines)[0] = NothingRead
           /\ \A i \in 1..Len(lines) :
                 ParseLoop(lines)[i] = ParseLine(ParseLoop(lines)[i - 1], lines[i])
  <1> DEFINE Turn(g, i) == IF i = 0 THEN NothingRead ELSE ParseLine(g[i - 1], lines[i])
             Solves(g, n) == g = [i \in 0..n |-> Turn(g, i)]
             S == {n \in Nat : \E g : Solves(g, n)}
  <1>1. 0 \in S
    <2>1. Solves([i \in 0..0 |-> NothingRead], 0)
      OBVIOUS
    <2> QED BY <2>1
  <1>2. ASSUME NEW n \in Nat, n \in S PROVE n + 1 \in S
    <2>1. PICK g : Solves(g, n)
      BY <1>2
    <2> DEFINE h == [i \in 0..(n + 1) |-> Turn(g, i)]
    <2>2. \A i \in 0..n : h[i] = g[i]
      BY <2>1
    <2>3. \A i \in 0..(n + 1) : Turn(g, i) = Turn(h, i)
      <3>1. \A i \in 0..(n + 1) : i # 0 => h[i - 1] = g[i - 1]
        <4> HIDE DEF h
        <4> QED BY <2>2
      <3> QED BY <3>1
    <2>4. Solves(h, n + 1)
      <3> HIDE DEF Turn
      <3> QED BY <2>3
    <2> HIDE DEF h, Solves
    <2> QED BY <2>4
  <1>3. Len(lines) \in S
    <2> HIDE DEF S
    <2> QED BY <1>1, <1>2, Induction
  <1>4. PICK g : Solves(g, Len(lines))
    BY <1>3
  <1>5. ParseLoop(lines) = CHOOSE f : Solves(f, Len(lines))
    BY DEF ParseLoop
  <1>6. Solves(ParseLoop(lines), Len(lines))
    <2> HIDE DEF Solves
    <2> QED BY <1>4, <1>5
  <1>7. Len(lines) \in Nat
    OBVIOUS
  <1>8. \A i \in 0..Len(lines) : ParseLoop(lines)[i] = Turn(ParseLoop(lines), i)
    <2> HIDE DEF Turn
    <2> QED BY <1>6
  <1> QED BY <1>7, <1>8

\* The lines before the first empty one, among the first n
SeenOf(lines, n) == {i \in 1..n : \A j \in 1..i : lines[j].name # "empty"}

\* The last of them with a name has the expected value
LastIsGood(lines, n, name) ==
    \E i \in SeenOf(lines, n) :
        /\ lines[i] = [name |-> name, good |-> TRUE]
        /\ \A j \in SeenOf(lines, n) : lines[j].name = name => j <= i

\* The invariant of the loop, after n lines
LoopInv(a, lines, n) ==
    /\ a \in [over : BOOLEAN, malformed : BOOLEAN, field : [LineNames -> {"none", "good", "bad"}]]
    /\ ~a.malformed => (a.over <=> \E i \in 1..n : lines[i].name = "empty")
    /\ a.malformed <=> \E i \in SeenOf(lines, n) : lines[i].name = "no_colon"
    /\ ~a.malformed => \A m \in Required : a.field[m] = "good" <=> LastIsGood(lines, n, m)

LEMMA SeenGrows ==
    ASSUME NEW lines, NEW n \in Nat
    PROVE  /\ (\E i \in 1..(n + 1) : lines[i].name = "empty") =>
                 SeenOf(lines, n + 1) = SeenOf(lines, n)
           /\ ~(\E i \in 1..(n + 1) : lines[i].name = "empty") =>
                 SeenOf(lines, n + 1) = SeenOf(lines, n) \cup {n + 1}
  BY DEF SeenOf

LEMMA LoopStarts ==
    ASSUME NEW lines
    PROVE  LoopInv(NothingRead, lines, 0)
  <1>1. SeenOf(lines, 0) = {}
    BY DEF SeenOf
  <1>2. \A m \in Required : m \in LineNames
    BY DEF Required, LineNames
  <1> QED BY <1>1, <1>2 DEF LoopInv, LastIsGood, NothingRead

LEMMA LoopStep ==
    ASSUME NEW lines \in Seq(Line), NEW n \in Nat, n + 1 \in 1..Len(lines),
           NEW a, LoopInv(a, lines, n)
    PROVE  LoopInv(ParseLine(a, lines[n + 1]), lines, n + 1)
  <1> DEFINE l == lines[n + 1]   b == ParseLine(a, l)
             Seen == SeenOf(lines, n)   More == SeenOf(lines, n + 1)
             Empty == \E i \in 1..n : lines[i].name = "empty"
  <1>1. l \in Line
    OBVIOUS
  <1>2. Seen \subseteq 1..n /\ Seen \subseteq More
    BY DEF SeenOf
  <1>3. a \in [over : BOOLEAN, malformed : BOOLEAN, field : [LineNames -> {"none", "good", "bad"}]]
    BY DEF LoopInv
  <1>4. CASE a.malformed
    BY <1>4, <1>2 DEF LoopInv, ParseLine
  <1>5. CASE ~a.malformed /\ a.over
    <2>1. Empty /\ b = a
      BY <1>5 DEF LoopInv, ParseLine
    <2>2. \E i \in 1..(n + 1) : lines[i].name = "empty"
      BY <2>1
    <2>3. More = Seen
      BY <2>2, SeenGrows
    <2> QED BY <2>1, <2>2, <2>3, <1>5 DEF LoopInv, LastIsGood
  <1>6. CASE ~a.malformed /\ ~a.over /\ l.name = "empty"
    <2>1. b = [a EXCEPT !.over = TRUE]
      BY <1>6 DEF ParseLine
    <2>2. n + 1 \in 1..(n + 1) /\ \E i \in 1..(n + 1) : lines[i].name = "empty"
      BY <1>6
    <2>3. More = Seen
      BY <2>2, SeenGrows
    <2>4. b.over /\ b.malformed = a.malformed /\ b.field = a.field
      BY <2>1, <1>3
    <2>5. b \in [over : BOOLEAN, malformed : BOOLEAN, field : [LineNames -> {"none", "good", "bad"}]]
      BY <2>1, <1>3
    <2> QED BY <2>2, <2>3, <2>4, <2>5, <1>6 DEF LoopInv, LastIsGood
  <1>7. CASE ~a.malformed /\ ~a.over /\ l.name # "empty"
    <2>1. ~Empty
      BY <1>7 DEF LoopInv
    <2>2. ~\E i \in 1..(n + 1) : lines[i].name = "empty"
      <3>1. \A i \in 1..(n + 1) : i \in 1..n \/ i = n + 1
        OBVIOUS
      <3> QED BY <3>1, <2>1, <1>7
    <2>3. More = Seen \cup {n + 1}
      BY <2>2, SeenGrows
    <2>4. CASE l.name = "no_colon"
      <3>1. b = [a EXCEPT !.malformed = TRUE]
        BY <2>4, <1>7 DEF ParseLine
      <3>2. b.malformed
        BY <3>1, <1>3
      <3>3. b \in [over : BOOLEAN, malformed : BOOLEAN, field : [LineNames -> {"none", "good", "bad"}]]
        BY <3>1, <1>3
      <3> QED BY <3>2, <3>3, <2>3, <2>4 DEF LoopInv
    <2>5. CASE l.name # "no_colon"
      <3> DEFINE v == IF l.good THEN "good" ELSE "bad"
      <3>1. b = [a EXCEPT !.field = [a.field EXCEPT ![l.name] = v]]
        BY <2>5, <1>7 DEF ParseLine
      <3>2. b.over = a.over /\ b.malformed = a.malformed /\ b.field = [a.field EXCEPT ![l.name] = v]
        BY <3>1, <1>3
      <3>3. b \in [over : BOOLEAN, malformed : BOOLEAN, field : [LineNames -> {"none", "good", "bad"}]]
        BY <3>1, <1>3
      <3>4. ~b.malformed /\ ~\E i \in More : lines[i].name = "no_colon"
        BY <3>2, <2>3, <2>5, <1>7 DEF LoopInv
      <3>5. ASSUME NEW m \in Required
            PROVE  b.field[m] = "good" <=> LastIsGood(lines, n + 1, m)
        <4>1. m \in LineNames /\ (a.field[m] = "good" <=> LastIsGood(lines, n, m))
          BY <1>7 DEF LoopInv, Required, LineNames
        <4>2. CASE m # l.name
          <5>1. b.field[m] = a.field[m]
            BY <4>1, <4>2, <3>2, <1>3
          <5>2. LastIsGood(lines, n, m) <=> LastIsGood(lines, n + 1, m)
            <6>1. \A i \in More : lines[i] = [name |-> m, good |-> TRUE] => i \in Seen
              BY <4>2, <2>3
            <6>2. \A j \in More : lines[j].name = m => j \in Seen
              BY <4>2, <2>3
            <6> QED BY <6>1, <6>2, <1>2 DEF LastIsGood
          <5> QED BY <5>1, <5>2, <4>1
        <4>3. CASE m = l.name
          <5>1. b.field[m] = v
            BY <4>1, <4>3, <3>2, <1>3
          <5>2. CASE l.good
            <6>1. l = [name |-> m, good |-> TRUE]
              BY <5>2, <4>3, <1>1 DEF Line
            <6>2. n + 1 \in More /\ \A j \in More : j <= n + 1
              BY <2>3, <1>2
            <6> QED BY <6>1, <6>2, <5>1, <5>2 DEF LastIsGood
          <5>3. CASE ~l.good
            <6>1. l # [name |-> m, good |-> TRUE]
              BY <5>3
            <6>2. \A i \in Seen : ~(n + 1 <= i)
              BY <1>2
            <6>3. ~LastIsGood(lines, n + 1, m)
              BY <6>1, <6>2, <2>3, <4>3 DEF LastIsGood
            <6> QED BY <6>3, <5>1, <5>3
          <5> QED BY <5>2, <5>3
        <4> QED BY <4>2, <4>3
      <3> QED BY <3>2, <3>3, <3>4, <3>5, <2>2, <1>7 DEF LoopInv
    <2> QED BY <2>4, <2>5
  <1> QED BY <1>3, <1>4, <1>5, <1>6, <1>7

\* What parse_handshake_response returns for any response header: an error exactly
\* if a line before the first empty one is no header, else for each required
\* header whether the last line with its name has the expected value.
LEMMA ParseResult ==
    ASSUME NEW r \in Reply
    PROVE  LoopInv(parse_handshake_response(r), r.lines, Len(r.lines))
  <1> DEFINE lines == r.lines   after == ParseLoop(lines)
             S == {n \in Nat : n <= Len(lines) => LoopInv(after[n], lines, n)}
  <1>1. lines \in Seq(Line) /\ Len(lines) \in Nat
    BY DEF Reply
  <1> HIDE DEF lines
  <1>2. after[0] = NothingRead /\ \A i \in 1..Len(lines) : after[i] = ParseLine(after[i - 1], lines[i])
    BY <1>1, ParseLoopUnfolds
  <1> HIDE DEF after
  <1>3. 0 \in S
    BY <1>2, LoopStarts
  <1>4. ASSUME NEW n \in Nat, n \in S PROVE n + 1 \in S
    <2>1. SUFFICES ASSUME n + 1 <= Len(lines) PROVE LoopInv(after[n + 1], lines, n + 1)
      OBVIOUS
    <2>2. n + 1 \in 1..Len(lines) /\ LoopInv(after[n], lines, n)
      BY <2>1, <1>1, <1>4
    <2>3. after[n + 1] = ParseLine(after[n], lines[n + 1])
      <3>1. after[n + 1] = ParseLine(after[(n + 1) - 1], lines[n + 1])
        BY <2>2, <1>2
      <3> QED BY <3>1
    <2> QED BY <2>2, <2>3, <1>1, LoopStep
  <1>5. Len(lines) \in S
    <2> HIDE DEF S
    <2> QED BY <1>1, <1>3, <1>4, Induction
  <1>6. LoopInv(after[Len(lines)], lines, Len(lines))
    BY <1>1, <1>5
  <1> QED BY <1>6 DEF after, lines, parse_handshake_response

-----------------------------------------------------------------------------
(* How connect ends *)

\* Every line before the first empty one is a header, and the status is a number
Readable(r) == /\ r.status # NotANumber
               /\ \A i \in SeenOf(r.lines, Len(r.lines)) : r.lines[i].name # "no_colon"

Grants(r) == \A m \in Required : LastIsGood(r.lines, Len(r.lines), m)

\* What connect makes of a complete response of any number of lines, without the
\* loop: an error if it is not readable, an upgrade if a 101 has every required
\* header as expected in its last line, else what the status says.
THEOREM VerdictOf ==
    ASSUME NEW r \in Replies
    PROVE  Verdict[r] = IF ~Readable(r) THEN "handshake"
                        ELSE IF r.status = 101 THEN IF Grants(r) THEN "ok" ELSE "handshake"
                        ELSE IF r.status = 404 THEN "http_404" ELSE "http"
  <1> DEFINE response == parse_handshake_response(r)
             valid == validate_handshake_response(response.field)
             failed == r.status = NotANumber \/ response.malformed
  <1>1. LoopInv(response, r.lines, Len(r.lines))
    BY ParseResult, WsClientAssumption
  <1>2. response.malformed \in BOOLEAN
    BY <1>1 DEF LoopInv
  <1>3. failed <=> ~Readable(r)
    BY <1>1, <1>2 DEF LoopInv, Readable
  <1>4. ~failed => (valid <=> Grants(r))
    BY <1>1, <1>2 DEF LoopInv, Grants, validate_handshake_response
  <1>5. Verdict[r] = IF failed THEN "handshake"
                     ELSE CASE r.status = 101 -> IF valid THEN "ok" ELSE "handshake"
                            [] r.status = 404 -> "http_404" [] OTHER -> "http"
    BY Zenon DEF Verdict
  <1> HIDE DEF failed, valid
  <1>6. failed => Verdict[r] = "handshake"
    BY <1>5, Zenon
  <1>7. DEFINE s == r.status = 101   t == r.status = 404
  <1>8. ~(s /\ t)
    OBVIOUS
  <1>9. Verdict[r] = IF failed THEN "handshake"
                     ELSE CASE s -> IF valid THEN "ok" ELSE "handshake"
                            [] t -> "http_404" [] OTHER -> "http"
    BY <1>5, Zenon
  <1> HIDE DEF s, t
  <1>10. ~failed /\ s => Verdict[r] = IF valid THEN "ok" ELSE "handshake"
    BY <1>8, <1>9, Zenon
  <1>11. ~failed /\ t => Verdict[r] = "http_404"
    BY <1>8, <1>9, Zenon
  <1>12. ~failed /\ ~s /\ ~t => Verdict[r] = "http"
    BY <1>9, Zenon
  <1> QED BY <1>3, <1>4, <1>6, <1>8, <1>10, <1>11, <1>12 DEF s, t

\* Until connect has ended, the response is incomplete and within the limit; once
\* it has ended with a complete one, it has the outcome that response deserves
UpgradeInv ==
    /\ pc \in Connecting => /\ outcome = "none" /\ pos < reply.len
                            /\ pos = 0 \/ pos < MAX_HANDSHAKE_HEADER_SIZE
    /\ pc \in {"tcp", "tls", "request"} => pos = 0
    /\ pc \in Reading => outcome = "ok"
    /\ outcome \in {"ok", "http_404", "http"} \/ (outcome = "handshake" /\ pos = reply.len) =>
          reply.len <= MAX_HANDSHAKE_HEADER_SIZE /\ outcome = Verdict[reply]

LEMMA InitUpgrade == Init => UpgradeInv
  <1> SUFFICES ASSUME Init PROVE UpgradeInv
    OBVIOUS
  <1>1. reply.len \in Nat /\ reply.len >= 4
    BY ReplyFacts DEF Init
  <1> QED BY <1>1 DEF Init, UpgradeInv, Reading

LEMMA NextUpgrade == Inv /\ UpgradeInv /\ [Next]_vars => UpgradeInv'
  <1> SUFFICES ASSUME Inv, UpgradeInv, [Next]_vars PROVE UpgradeInv'
    OBVIOUS
  <1>1. /\ reply.len \in Nat /\ reply.len >= 4 /\ pos \in Nat
        /\ MAX_HANDSHAKE_HEADER_SIZE \in Nat
    BY StateFacts, WsClientAssumption
  <1>2. CASE TcpConnected \/ TlsConnected \/ SendRequest
    BY <1>2 DEF TcpConnected, TlsConnected, SendRequest, UpgradeInv, Connecting, Reading, upstreamVars
  <1>3. CASE ConnectRefused \/ ConnectTimesOut \/ SendRequestFails \/ HeaderCut
    <2>1. pc \in Connecting /\ pos' = pos /\ reply' = reply
      BY <1>3 DEF ConnectRefused, ConnectTimesOut, SendRequestFails, HeaderCut, Connecting, upstreamVars
    <2>2. pc' = "error" /\ outcome' \in {"io", "tls", "timeout", "handshake"}
      BY <1>3 DEF ConnectRefused, ConnectTimesOut, SendRequestFails, HeaderCut, Fail
    <2>3. pos' # reply'.len
      BY <2>1, <1>1 DEF UpgradeInv
    <2> QED BY <2>2, <2>3 DEF UpgradeInv, Connecting, Reading
  <1>4. CASE ReadHeaderByte
    <2>1. /\ pc = "header" /\ pc' = "header" /\ outcome' = outcome /\ reply' = reply
          /\ pos' = pos + 1 /\ pos + 1 < reply.len /\ pos + 1 < MAX_HANDSHAKE_HEADER_SIZE
      BY <1>4 DEF ReadHeaderByte, upstreamVars
    <2> QED BY <2>1 DEF UpgradeInv, Connecting, Reading
  <1>5. CASE HeaderOversized
    <2>1. /\ pc' = "error" /\ outcome' = "handshake" /\ reply' = reply
          /\ pos' = pos + 1 /\ pos + 1 < reply.len
      BY <1>5 DEF HeaderOversized, Fail, upstreamVars
    <2>2. pos' # reply'.len
      BY <2>1, <1>1
    <2> QED BY <2>1, <2>2 DEF UpgradeInv, Connecting, Reading
  <1>6. CASE HeaderDone
    <2>1. /\ pc = "header" /\ pos + 1 = reply.len /\ reply' = reply
          /\ outcome' = Verdict[reply] /\ pc' = IF outcome' = "ok" THEN "hdr" ELSE "error"
      BY <1>6 DEF HeaderDone, upstreamVars
    <2>2. reply.len <= MAX_HANDSHAKE_HEADER_SIZE
      BY <2>1, <1>1 DEF UpgradeInv, Connecting
    <2> QED BY <2>1, <2>2 DEF UpgradeInv, Connecting, Reading
  <1>7. CASE ReadStep
    <2>1. pc \in Reading /\ pc' \notin Connecting /\ outcome' = outcome /\ reply' = reply
      <3>1. /\ pc \in Reading /\ outcome' = outcome /\ reply' = reply
            /\ pc' \in {"hdr", "ext", "mask", "payload", "closed", "eof", "error"}
        BY <1>7 DEF ReadStep, ReadHdr, ReadExt, ReadMask, ReadPayload, StreamEnds, StreamFails,
                    AfterLength, Reading, upstreamVars
      <3> QED BY <3>1 DEF Connecting
    <2>2. outcome = "ok"
      BY <2>1 DEF UpgradeInv
    <2> QED BY <2>1, <2>2 DEF UpgradeInv, Connecting, Reading
  <1>8. CASE (\E f \in Frames : UpstreamSends(f)) \/ Arrives \/ UpstreamStops
    BY <1>8 DEF UpstreamSends, Arrives, UpstreamStops, readVars, UpgradeInv
  <1>9. CASE UNCHANGED vars
    BY <1>9 DEF vars, readVars, upstreamVars, UpgradeInv
  <1> QED
    BY <1>2, <1>3, <1>4, <1>5, <1>6, <1>7, <1>8, <1>9 DEF Next, ConnectStep

LEMMA UpgradeInvariant == Spec => [](Inv /\ UpgradeInv)
  <1>1. Init => Inv /\ UpgradeInv
    BY InitInv, InitUpgrade
  <1>2. Inv /\ UpgradeInv /\ [Next]_vars => Inv' /\ UpgradeInv'
    BY NextInv, NextUpgrade
  <1> QED BY <1>1, <1>2, PTL DEF Spec

\* Whatever an upstream answers, in any number of lines: connect takes a response
\* for an upgrade, for the 404 that may disable a route, or for another status only if
\* it is one, and never refuses one that is (perform_handshake, parse_handshake_response and
\* validate_handshake_response of modules/ws.rs).
THEOREM VerdictsFollowReplies == Spec => []VerdictFollowsReply
  <1>1. Inv /\ UpgradeInv => VerdictFollowsReply
    <2> SUFFICES ASSUME Inv, UpgradeInv PROVE VerdictFollowsReply
      OBVIOUS
    <2> DEFINE Seen == {i \in DOMAIN reply.lines :
                          \A j \in 1..i : reply.lines[j].name # "empty"}
               WellFormed == /\ reply.len <= MAX_HANDSHAKE_HEADER_SIZE
                             /\ reply.status # NotANumber
                             /\ \A i \in Seen : reply.lines[i].name # "no_colon"
               Granted == \A n \in Required : \E i \in Seen :
                              /\ reply.lines[i] = [name |-> n, good |-> TRUE]
                              /\ \A j \in Seen : reply.lines[j].name = n => j <= i
    <2>1. reply \in Replies /\ reply.lines \in Seq(Line)
      BY WsClientAssumption DEF Inv, TypeOK, Reply
    <2>2. Seen = SeenOf(reply.lines, Len(reply.lines))
      BY <2>1 DEF SeenOf
    <2>3. Grants(reply) <=> Granted
      BY <2>2 DEF Grants, LastIsGood
    <2>4. reply.len <= MAX_HANDSHAKE_HEADER_SIZE => (Readable(reply) <=> WellFormed)
      BY <2>2 DEF Readable
    <2> HIDE DEF Granted, WellFormed
    <2>5. /\ Verdict[reply] = "ok" => Readable(reply) /\ reply.status = 101 /\ Grants(reply)
          /\ Verdict[reply] = "http_404" => Readable(reply) /\ reply.status = 404
          /\ Verdict[reply] = "http" => Readable(reply) /\ reply.status \notin {101, 404}
          /\ Verdict[reply] = "handshake" =>
                ~Readable(reply) \/ (reply.status = 101 /\ ~Grants(reply))
      BY <2>1, VerdictOf
    <2>6. /\ outcome = "ok" => WellFormed /\ reply.status = 101 /\ Granted
          /\ outcome = "http_404" => WellFormed /\ reply.status = 404
          /\ outcome = "http" => WellFormed /\ reply.status \notin {101, 404}
          /\ outcome = "handshake" /\ pos = reply.len =>
                ~WellFormed \/ (reply.status = 101 /\ ~Granted)
      BY <2>3, <2>4, <2>5 DEF UpgradeInv
    <2> QED BY <2>6 DEF VerdictFollowsReply, Granted, WellFormed
  <1> QED BY <1>1, UpgradeInvariant, PTL
=============================================================================
