----------------------------- MODULE ProxyProofs -----------------------------
(* Proofs about Proxy: type correctness, who gets a session, what a client may be
   told, and that every announced link is served, for any number of connections,
   any settings and any messages. *)
EXTENDS Proxy, SequenceTheorems, TLAPS

-----------------------------------------------------------------------------
(* The answers of the handshake *)

LEMMA GreetingAnswers ==
    ASSUME NEW A, NEW g
    PROVE  answer_greeting(A, g) \in {<< >>, <<"no_method">>, <<selected_method(A)>>}
  BY Zenon DEF answer_greeting

LEMMA LoginAnswers ==
    ASSUME NEW A, NEW m
    PROVE  /\ authenticate_user(A, m) \in {<< >>, <<"accepted">>, <<"rejected">>}
           /\ authenticate_user(A, m) = <<"accepted">> => <<m.user, m.pass>> \in A
  <1>1. <<"accepted">> # <<"rejected">> /\ <<"accepted">> # << >>
    OBVIOUS
  <1> QED BY <1>1, Zenon DEF authenticate_user, accepted

LEMMA RequestAnswers ==
    ASSUME NEW r
    PROVE  answer_request(r) \in {<< >>, <<"granted">>, <<"refused">>}
  BY Zenon DEF answer_request

-----------------------------------------------------------------------------
(* The addresses *)

LEMMA LinkTypes ==
    ASSUME NEW h \in Host, NEW i \in Ifaces
    PROVE  link_addrs(h, i) \subseteq Addr
  <1>1. Ip("v4", "loopback") \in Addr /\ Ip("v6", "loopback") \in Addr
    BY DEF Ip, Addr
  <1>2. i.addrs \subseteq Addr
    BY DEF Ifaces
  <1>3. discover_link_addrs(i) \subseteq Addr
    BY <1>1, <1>2, Zenon DEF discover_link_addrs
  <1>4. ToSet(h.resolved) \subseteq Addr
    BY DEF Host, ToSet
  <1>5. host_is_unspecified(h) => h.ip \in Addr
    BY DEF Host, NoIp, host_is_unspecified
  <1> QED BY <1>3, <1>4, <1>5 DEF link_addrs

LEMMA SpecTypes ==
    ASSUME NEW h \in Host
    PROVE  ToSet(specs(h)) \subseteq Addr
  <1>1. CASE host_is_unspecified(h)
    BY <1>1 DEF specs, ToSet, Ip, Addr
  <1>2. CASE ~host_is_unspecified(h)
    BY <1>2 DEF specs, ToSet, Host
  <1> QED BY <1>1, <1>2

\* Every announced address is bound, itself or by the wildcard of its family.
LEMMA LinksAreBound ==
    ASSUME NEW h \in Host, NEW i \in Ifaces, NEW l \in link_addrs(h, i)
    PROVE  \E a \in ToSet(specs(h)) : a = l \/ (a.scope = "unspecified" /\ a.family = l.family)
  <1>1. CASE host_is_unspecified(h)
    <2>1. l.family \in {"v4", "v6"}
      BY LinkTypes DEF Addr
    <2>2. /\ Ip("v4", "unspecified") \in ToSet(specs(h))
          /\ Ip("v6", "unspecified") \in ToSet(specs(h))
      BY <1>1 DEF specs, ToSet
    <2> QED BY <2>1, <2>2 DEF Ip
  <1>2. CASE ~host_is_unspecified(h)
    BY <1>2 DEF specs, link_addrs
  <1> QED BY <1>1, <1>2

LEMMA UserTypes ==
    ASSUME NEW entries \in Seq(Entry)
    PROVE  users_of(entries) \subseteq STRING \X STRING
  <1> SUFFICES ASSUME NEW u \in users_of(entries) PROVE u \in STRING \X STRING
    OBVIOUS
  <1>1. PICK i \in DOMAIN entries : u = <<entries[i].user, entries[i].pass>>
    BY DEF users_of
  <1>2. entries[i] \in Entry
    OBVIOUS
  <1> QED BY <1>1, <1>2 DEF Entry

-----------------------------------------------------------------------------
(* The inductive invariant *)

\* What depends on how far main has come.  There are accept loops only between a
\* start that succeeded and the exit; the accounts are those of the setting.
ServerInv ==
    /\ loops \in [DOMAIN loops -> {"accepting", "failed", "cancelled"}]
    /\ phase \in {"init", "start", "exited"} => loops = << >>
    /\ phase = "running" =>
          /\ DOMAIN loops = ToSet(specs(cfg.host))
          /\ \A a \in DOMAIN loops : loops[a] # "cancelled"
    /\ phase \in {"running", "dropping"} => auth = users_of(cfg.users) /\ ~invalid(cfg.users)
    /\ phase # "init" => links = link_addrs(cfg.host, cfg.ifaces)

\* Everything a client may have been told when the accounts are A
Said(A) == {<< >>, <<"no_method">>} \cup
           IF A = {} THEN {<<"no_auth">>, <<"no_auth", "granted">>, <<"no_auth", "refused">>}
                     ELSE {<<"password">>, <<"password", "rejected">>,
                           <<"password", "accepted">>, <<"password", "accepted", "granted">>,
                           <<"password", "accepted", "refused">>}

\* The conversation with a client, by what its task waits for: a request is only
\* read after a login that was accepted, where there are accounts.
Conversation(c) ==
    /\ told[c] \in Said(auth)
    /\ pc[c] = "greeting" => told[c] = << >>
    /\ pc[c] = "login" => auth # {} /\ told[c] = <<"password">>
    /\ pc[c] = "request" =>
          told[c] = IF auth = {} THEN <<"no_auth">> ELSE <<"password", "accepted">>
    /\ pc[c] \in {"request", "session"} /\ auth # {} => login[c] \in auth

TasksInv ==
    /\ phase \in {"init", "start", "exited"} => \A c \in Clients : pc[c] = "free"
    /\ phase \in {"init", "start"} => \A c \in Clients : told[c] = << >>
    /\ \A c \in Clients : Conversation(c)

Inv == TypeOK /\ ServerInv /\ TasksInv

LEMMA SettingTypes ==
    ASSUME cfg \in Settings
    PROVE  /\ cfg.host \in Host /\ cfg.health \in Host
           /\ cfg.users \in Seq(Entry) /\ cfg.ifaces \in Ifaces
  BY ProxyAssumption

\* There are no addresses in an empty table of accept loops
LEMMA NoLoops ==
    DOMAIN << >> = {} /\ << >> \in [DOMAIN << >> -> {"accepting", "failed", "cancelled"}]
  OBVIOUS

LEMMA ShortSequences ==
    ASSUME NEW S, NEW a \in S, NEW b \in S, NEW c \in S
    PROVE  << >> \in Seq(S) /\ <<a>> \in Seq(S) /\ <<a, b>> \in Seq(S) /\ <<a, b, c>> \in Seq(S)
  OBVIOUS

LEMMA SaidTypes == ASSUME NEW A PROVE Said(A) \subseteq Seq(Told)
  <1> SUFFICES ASSUME NEW s \in Said(A) PROVE s \in Seq(Told)
    OBVIOUS
  <1>1. {"no_auth", "password", "no_method", "accepted", "rejected", "granted", "refused"}
            \subseteq Told
    BY DEF Told
  <1>2. \E a \in Told, b \in Told, c \in Told :
            s = << >> \/ s = <<a>> \/ s = <<a, b>> \/ s = <<a, b, c>>
    BY <1>1, Zenon DEF Said
  <1> QED BY <1>2, ShortSequences

LEMMA InitInv == Init => Inv
  <1> SUFFICES ASSUME Init PROVE Inv
    OBVIOUS
  <1>1. TypeOK
    <2>1. << >> \in Seq(Told)
      OBVIOUS
    <2>2. told \in [Clients -> Seq(Told)]
      BY <2>1 DEF Init
    <2>3. DOMAIN loops = {}
      BY NoLoops DEF Init
    <2> QED BY <2>2, <2>3 DEF Init, TypeOK
  <1>2. ServerInv
    BY NoLoops DEF Init, ServerInv
  <1>3. TasksInv
    BY DEF Init, TasksInv, Conversation, Said
  <1> QED BY <1>1, <1>2, <1>3 DEF Inv

-----------------------------------------------------------------------------
(* The handshake: a step of one client's task *)

LEMMA Pairs == ASSUME NEW S, NEW s \in Seq(S), Len(s) = 2 PROVE s = <<s[1], s[2]>>
  OBVIOUS

LEMMA Triples == ASSUME NEW S, NEW s \in Seq(S), Len(s) = 3 PROVE s = <<s[1], s[2], s[3]>>
  OBVIOUS

\* What is told to a client, one message at a time
LEMMA Extensions ==
    ASSUME NEW S, NEW a \in S, NEW b \in S, NEW c \in S
    PROVE  /\ << >> \o << >> = << >> /\ << >> \o <<a>> = <<a>>
           /\ <<a>> \o << >> = <<a>> /\ <<a>> \o <<b>> = <<a, b>>
           /\ <<a, b>> \o << >> = <<a, b>> /\ <<a, b>> \o <<c>> = <<a, b, c>>
  <1>1. /\ <<a>> \in Seq(S) /\ <<b>> \in Seq(S) /\ <<c>> \in Seq(S)
        /\ <<a, b>> \in Seq(S) /\ <<a, b, c>> \in Seq(S)
    BY ShortSequences
  <1>2. /\ << >> \o << >> = << >> /\ << >> \o <<a>> = <<a>>
        /\ <<a>> \o << >> = <<a>> /\ <<a, b>> \o << >> = <<a, b>>
    OBVIOUS
  <1>3. <<a>> \o <<b>> = <<a, b>>
    <2>1. /\ <<a>> \o <<b>> \in Seq(S) /\ Len(<<a>> \o <<b>>) = 2
          /\ (<<a>> \o <<b>>)[1] = a /\ (<<a>> \o <<b>>)[2] = b
      BY <1>1, ConcatProperties
    <2> QED BY <2>1, Pairs, Zenon
  <1>4. <<a, b>> \o <<c>> = <<a, b, c>>
    <2>1. /\ <<a, b>> \o <<c>> \in Seq(S) /\ Len(<<a, b>> \o <<c>>) = 3
          /\ (<<a, b>> \o <<c>>)[1] = a /\ (<<a, b>> \o <<c>>)[2] = b
          /\ (<<a, b>> \o <<c>>)[3] = c
      BY <1>1, ConcatProperties
    <2> QED BY <2>1, Triples, Zenon
  <1> QED BY <1>2, <1>3, <1>4

\* A step that leaves alone what was said to the other clients, and what main knows
LEMMA OneClient ==
    ASSUME TypeOK, TasksInv, NEW c \in Clients,
           UNCHANGED <<phase, auth>>, phase \in {"running", "dropping"},
           NEW newPc, NEW newTold, NEW newLogin,
           pc' = [pc EXCEPT ![c] = newPc],
           told' = [told EXCEPT ![c] = newTold],
           login' = [login EXCEPT ![c] = newLogin],
           Conversation(c)'
    PROVE  TasksInv'
  <1>1. ASSUME NEW d \in Clients, d # c PROVE Conversation(d)'
    <2>1. Conversation(d) /\ pc'[d] = pc[d] /\ told'[d] = told[d] /\ login'[d] = login[d]
      BY <1>1 DEF TypeOK, TasksInv
    <2> QED BY <2>1 DEF Conversation
  <1> QED BY <1>1 DEF TasksInv

\* A task that is not over has been accepted, so main is past its start.
LEMMA TasksRunLate ==
    ASSUME Inv, NEW c \in Clients, pc[c] # "free"
    PROVE  phase \in {"running", "dropping"}
  BY DEF Inv, TypeOK, TasksInv

LEMMA GreetTasks ==
    ASSUME Inv, NEW c \in Clients, NEW g \in Greetings, Greet(c, g)
    PROVE  TasksInv'
  <1> DEFINE answer == answer_greeting(auth, g)
             method == selected_method(auth)
  <1>1. /\ phase \in {"running", "dropping"} /\ told[c] = << >>
        /\ UNCHANGED <<phase, auth, login>>
    BY TasksRunLate DEF Greet, Inv, TasksInv, Conversation, server
  <1>2. answer \in {<< >>, <<"no_method">>, <<method>>}
    BY GreetingAnswers
  <1> HIDE DEF answer
  <1>3. /\ told' = [told EXCEPT ![c] = told[c] \o answer]
        /\ pc' = [pc EXCEPT ![c] = IF answer = <<method>>
                                   THEN IF auth # {} THEN "login" ELSE "request"
                                   ELSE "free"]
        /\ login' = [login EXCEPT ![c] = login[c]]
    BY <1>1 DEF Greet, Answer, answer, Inv, TypeOK
  <1>4. told[c] \o answer = answer
    BY <1>1, <1>2, Extensions, ZenonT(60)
  <1>5. Conversation(c)'
    <2>1. told'[c] = answer /\ pc'[c] = IF answer = <<method>>
                                   THEN IF auth # {} THEN "login" ELSE "request"
                                   ELSE "free"
      BY <1>3, <1>4 DEF Inv, TypeOK
    <2>2. auth' = auth
      BY <1>1
    <2>3. CASE auth = {}
      BY <1>2, <2>1, <2>2, <2>3 DEF Conversation, Said, selected_method
    <2>4. CASE auth # {}
      BY <1>2, <2>1, <2>2, <2>4 DEF Conversation, Said, selected_method
    <2> QED BY <2>3, <2>4
  <1> QED BY <1>1, <1>3, <1>5, OneClient DEF Inv

LEMMA AuthenticateTasks ==
    ASSUME Inv, NEW c \in Clients, NEW m \in Logins, Authenticate(c, m)
    PROVE  TasksInv'
  <1> DEFINE answer == authenticate_user(auth, m)
  <1>1. /\ phase \in {"running", "dropping"} /\ told[c] = <<"password">> /\ auth # {}
        /\ UNCHANGED <<phase, auth>>
    BY TasksRunLate DEF Authenticate, Inv, TasksInv, Conversation, server
  <1>2. /\ answer \in {<< >>, <<"accepted">>, <<"rejected">>}
        /\ answer = <<"accepted">> => <<m.user, m.pass>> \in auth
    BY LoginAnswers
  <1> HIDE DEF answer
  <1>3. /\ told' = [told EXCEPT ![c] = told[c] \o answer]
        /\ pc' = [pc EXCEPT ![c] = IF answer = <<"accepted">> THEN "request" ELSE "free"]
        /\ login' = [login EXCEPT ![c] = <<m.user, m.pass>>]
    BY DEF Authenticate, Answer, answer
  <1>4. told[c] \o answer \in {<<"password">>, <<"password", "accepted">>, <<"password", "rejected">>}
        /\ (answer = <<"accepted">> => told[c] \o answer = <<"password", "accepted">>)
    <2>1. {"password", "accepted", "rejected"} \subseteq Told
      BY DEF Told
    <2>2. <<"accepted">> # << >> /\ <<"accepted">> # <<"rejected">>
      OBVIOUS
    <2> QED BY <1>1, <1>2, <2>1, <2>2, Extensions, ZenonT(60)
  <1>5. Conversation(c)'
    <2>1. /\ told'[c] = told[c] \o answer
          /\ pc'[c] = IF answer = <<"accepted">> THEN "request" ELSE "free"
          /\ login'[c] = <<m.user, m.pass>>
      BY <1>3 DEF Inv, TypeOK
    <2> QED BY <1>1, <1>2, <1>4, <2>1 DEF Conversation, Said
  <1> QED BY <1>1, <1>3, <1>5, OneClient DEF Inv

LEMMA RequestTasks ==
    ASSUME Inv, NEW c \in Clients, NEW r \in Requests, HandleRequest(c, r)
    PROVE  TasksInv'
  <1> DEFINE answer == answer_request(r)
             before == IF auth = {} THEN <<"no_auth">> ELSE <<"password", "accepted">>
  <1>1. /\ phase \in {"running", "dropping"} /\ told[c] = before
        /\ auth # {} => login[c] \in auth
        /\ UNCHANGED <<phase, auth, login>>
    BY TasksRunLate DEF HandleRequest, Inv, TasksInv, Conversation, server
  <1>2. answer \in {<< >>, <<"granted">>, <<"refused">>}
    BY RequestAnswers
  <1> HIDE DEF answer
  <1>3. /\ told' = [told EXCEPT ![c] = told[c] \o answer]
        /\ pc' = [pc EXCEPT ![c] = IF answer = <<"granted">> THEN "session" ELSE "free"]
        /\ login' = [login EXCEPT ![c] = login[c]]
    BY <1>1 DEF HandleRequest, Answer, answer, Inv, TypeOK
  <1>4. told[c] \o answer \in Said(auth)
    <2>1. {"password", "accepted", "no_auth", "granted", "refused"} \subseteq Told
      BY DEF Told
    <2>2. CASE auth = {}
      <3>1. told[c] = <<"no_auth">>
        BY <1>1, <2>2
      <3>2. told[c] \o answer \in {<<"no_auth">>, <<"no_auth", "granted">>, <<"no_auth", "refused">>}
        BY <1>2, <2>1, <3>1, Extensions, Zenon
      <3> QED BY <2>2, <3>2 DEF Said
    <2>3. CASE auth # {}
      <3>1. told[c] = <<"password", "accepted">>
        BY <1>1, <2>3
      <3>2. /\ told[c] \o << >> = <<"password", "accepted">>
            /\ told[c] \o <<"granted">> = <<"password", "accepted", "granted">>
            /\ told[c] \o <<"refused">> = <<"password", "accepted", "refused">>
        <4>1. ASSUME NEW x \in Told
              PROVE  /\ <<"password", "accepted">> \o << >> = <<"password", "accepted">>
                     /\ <<"password", "accepted">> \o <<x>> = <<"password", "accepted", x>>
          BY <2>1, <4>1, Extensions
        <4> QED BY <2>1, <3>1, <4>1, Zenon
      <3>3. told[c] \o answer \in {<<"password", "accepted">>, <<"password", "accepted", "granted">>,
                                   <<"password", "accepted", "refused">>}
        BY <1>2, <3>2, Zenon
      <3> QED BY <2>3, <3>3 DEF Said
    <2> QED BY <2>2, <2>3
  <1>5. Conversation(c)'
    <2>1. /\ told'[c] = told[c] \o answer /\ login'[c] = login[c]
          /\ pc'[c] = IF answer = <<"granted">> THEN "session" ELSE "free"
      BY <1>3 DEF Inv, TypeOK
    <2> QED BY <1>1, <1>4, <2>1 DEF Conversation
  <1> QED BY <1>1, <1>3, <1>5, OneClient DEF Inv

\* A task that ends, for whatever reason, without another word
LEMMA EndsTasks ==
    ASSUME Inv, NEW c \in Clients, pc[c] # "free", pc' = [pc EXCEPT ![c] = "free"],
           UNCHANGED <<phase, auth, login, told>>
    PROVE  TasksInv'
  <1>1. /\ told' = [told EXCEPT ![c] = told[c]] /\ login' = [login EXCEPT ![c] = login[c]]
        /\ pc'[c] = "free" /\ told'[c] = told[c]
    BY DEF Inv, TypeOK
  <1>2. Conversation(c)'
    BY <1>1 DEF Conversation, Inv, TasksInv
  <1> QED BY <1>1, <1>2, TasksRunLate, OneClient DEF Inv

LEMMA AcceptTasks ==
    ASSUME Inv, NEW c \in Clients, NEW a \in DOMAIN loops, Accept(a, c)
    PROVE  TasksInv'
  <1>1. phase \in {"running", "dropping"}
    BY NoLoops DEF Inv, TypeOK, ServerInv
  <1>2. pc'[c] = "greeting" /\ told'[c] = << >>
    BY DEF Inv, TypeOK, Accept
  <1>3. Conversation(c)'
    BY <1>2 DEF Conversation, Said
  <1> QED BY <1>1, <1>3, OneClient DEF Inv, Accept, server

-----------------------------------------------------------------------------
(* Every step *)

LEMMA NextTasks == Inv /\ [Next]_vars => TasksInv'
  <1> SUFFICES ASSUME Inv, [Next]_vars PROVE TasksInv'
    OBVIOUS
  \* The steps that no task notices
  <1>1. ASSUME UNCHANGED <<pc, told, login, auth>>,
               phase' \in {"start", "exited"} =>
                   /\ \A c \in Clients : pc[c] = "free"
                   /\ phase' = "start" => phase \in {"init", "start"},
               phase' # "init" \/ phase = "init"
        PROVE  TasksInv'
    BY <1>1 DEF Inv, TasksInv, Conversation
  <1>2. CASE Announce
    BY <1>1, <1>2 DEF Announce, tasks, Inv, TasksInv
  <1>3. ASSUME NEW ok, Start(ok) PROVE TasksInv'
    <2>1. /\ \A c \in Clients : pc[c] = "free" /\ told[c] = << >>
          /\ UNCHANGED <<pc, told>> /\ phase' = "running"
      BY <1>3 DEF Start, tasks, Inv, TasksInv
    <2> QED BY <2>1 DEF TasksInv, Conversation, Said
  <1>4. ASSUME NEW ok, StartFails(ok) PROVE TasksInv'
    BY <1>1, <1>4 DEF StartFails, tasks, Inv, TasksInv
  <1>5. ASSUME NEW a \in DOMAIN loops, NEW c \in Clients, Accept(a, c) PROVE TasksInv'
    BY <1>5, AcceptTasks
  <1>6. ASSUME NEW c \in Clients, Task(c) PROVE TasksInv'
    <2>1. CASE ClientGone(c) \/ SessionEnds(c)
      BY <2>1, EndsTasks DEF ClientGone, SessionEnds, server
    <2>2. CASE LookupStarts(c) \/ LookupEnds(c)
      <3>1. UNCHANGED <<phase, pc, told, login, auth>>
        BY <2>2 DEF LookupStarts, LookupEnds, server
      <3> QED BY <3>1 DEF Inv, TasksInv, Conversation
    <2> QED BY <1>6, <2>1, <2>2, GreetTasks, AuthenticateTasks, RequestTasks DEF Task
  <1>7. ASSUME NEW c \in Clients, CancelTask(c) PROVE TasksInv'
    BY <1>7, EndsTasks DEF CancelTask, server
  <1>8. ASSUME UNCHANGED <<phase, auth, tasks>> PROVE TasksInv'
    BY <1>8 DEF Inv, TasksInv, Conversation, tasks
  <1>9. ASSUME NEW a \in DOMAIN loops, AcceptFails(a) \/ CancelLoop(a) PROVE TasksInv'
    BY <1>8, <1>9 DEF AcceptFails, CancelLoop, server
  <1>10. ASSUME NEW ok, HealthStarts(ok) PROVE TasksInv'
    BY <1>8, <1>10 DEF HealthStarts, server
  <1>11. CASE \/ HealthAccepts \/ HealthWrites \/ HealthAcceptFails \/ HealthWakes
              \/ ProbeArrives \/ CancelHealth
    BY <1>8, <1>11
       DEF HealthAccepts, HealthWrites, HealthAcceptFails, HealthWakes, ProbeArrives,
           CancelHealth, server
  <1>12. CASE SignalArrives
    BY <1>8, <1>12 DEF SignalArrives
  <1>13. CASE GraceOver \/ ServerReturns
    BY <1>1, <1>13 DEF GraceOver, ServerReturns, tasks
  <1>14. CASE Exit
    BY <1>1, <1>14 DEF Exit, tasks
  <1>15. CASE UNCHANGED vars
    BY <1>8, <1>15 DEF vars, server
  <1> QED
    BY <1>2, <1>3, <1>4, <1>5, <1>6, <1>7, <1>9, <1>10, <1>11, <1>12, <1>13, <1>14, <1>15
       DEF Next, Cancel

LEMMA NextServer == Inv /\ [Next]_vars => ServerInv'
  <1> SUFFICES ASSUME Inv, [Next]_vars PROVE ServerInv'
    OBVIOUS
  <1>1. ASSUME UNCHANGED <<cfg, phase, auth, links, loops>> PROVE ServerInv'
    BY <1>1 DEF Inv, ServerInv
  <1>2. CASE Announce
    BY <1>2 DEF Announce, Inv, ServerInv
  <1>3. ASSUME NEW ok, Start(ok) PROVE ServerInv'
    <2>1. bind_host(cfg.host, ok) = ToSet(specs(cfg.host))
      BY <1>3 DEF Start, bind_host
    <2>2. /\ loops' = [a \in ToSet(specs(cfg.host)) |-> "accepting"]
          /\ DOMAIN loops' = ToSet(specs(cfg.host)) /\ DOMAIN loops' # {}
      BY <1>3, <2>1 DEF Start
    <2> QED BY <1>3, <2>2 DEF Start, Inv, ServerInv
  <1>4. ASSUME NEW ok, StartFails(ok) PROVE ServerInv'
    BY <1>4 DEF StartFails, Inv, ServerInv
  <1>5. ASSUME NEW a \in DOMAIN loops, AcceptFails(a) \/ CancelLoop(a) PROVE ServerInv'
    <2>1. /\ DOMAIN loops' = DOMAIN loops
          /\ loops' \in [DOMAIN loops -> {"accepting", "failed", "cancelled"}]
      BY <1>5 DEF AcceptFails, CancelLoop, Inv, ServerInv
    <2>2. phase \notin {"init", "start", "exited"}
      BY NoLoops DEF Inv, ServerInv
    <2> QED BY <1>5, <2>1, <2>2 DEF AcceptFails, CancelLoop, server, Inv, ServerInv
  <1>6. CASE GraceOver \/ ServerReturns
    BY <1>6 DEF GraceOver, ServerReturns, Inv, ServerInv
  <1>7. CASE Exit
    BY <1>7, NoLoops DEF Exit, Inv, ServerInv
  <1>8. ASSUME NEW a \in DOMAIN loops, NEW c \in Clients, Accept(a, c) PROVE ServerInv'
    BY <1>1, <1>8 DEF Accept, server
  <1>9. ASSUME NEW c \in Clients, Task(c) \/ CancelTask(c) PROVE ServerInv'
    <2>1. UNCHANGED <<server, loops>>
      BY <1>9 DEF Task, Greet, Authenticate, HandleRequest, ClientGone, LookupStarts,
                  LookupEnds, SessionEnds, CancelTask
    <2> QED BY <1>1, <2>1 DEF server
  <1>10. ASSUME NEW ok, HealthStarts(ok) PROVE ServerInv'
    BY <1>1, <1>10 DEF HealthStarts, server
  <1>11. CASE \/ HealthAccepts \/ HealthWrites \/ HealthAcceptFails \/ HealthWakes
              \/ ProbeArrives \/ CancelHealth
    BY <1>1, <1>11
       DEF HealthAccepts, HealthWrites, HealthAcceptFails, HealthWakes, ProbeArrives,
           CancelHealth, server
  <1>12. CASE SignalArrives
    BY <1>1, <1>12 DEF SignalArrives
  <1>13. CASE UNCHANGED vars
    BY <1>1, <1>13 DEF vars, server
  <1> QED
    BY <1>2, <1>3, <1>4, <1>5, <1>6, <1>7, <1>8, <1>9, <1>10, <1>11, <1>12, <1>13
       DEF Next, Cancel

LEMMA NextTypes == Inv /\ [Next]_vars => TypeOK'
  <1> SUFFICES ASSUME Inv, [Next]_vars PROVE TypeOK'
    OBVIOUS
  <1> USE DEF Inv
  <1> DEFINE ServerTypes == /\ cfg \in Settings
                            /\ phase \in {"init", "start", "running", "dropping", "exited"}
                            /\ auth \subseteq STRING \X STRING /\ links \subseteq Addr
                            /\ signal \in {"none", "grace", "over"}
             LoopTypes == /\ DOMAIN loops \subseteq Addr
                          /\ \A a \in DOMAIN loops : loops[a] \in {"accepting", "failed", "cancelled"}
             EndpointTypes == /\ health \in {"none", "starting", "accepting", "writing", "sleeping",
                                            "off"}
                              /\ probe \in {"none", "waiting", "taken", "written", "lost"}
             TaskTypes == /\ pc \in [Clients -> {"free", "greeting", "login", "request", "session"}]
                          /\ login \in [Clients -> (STRING \X STRING) \cup {NoLogin}]
                          /\ told \in [Clients -> Seq(Told)]
                          /\ lookups \subseteq Clients
  <1>1. ServerTypes /\ LoopTypes /\ EndpointTypes /\ TaskTypes
    BY DEF TypeOK
  <1>2. ServerTypes' /\ LoopTypes' /\ EndpointTypes' /\ TaskTypes' => TypeOK'
    BY DEF TypeOK
  <1>3. UNCHANGED server => ServerTypes'
    BY <1>1 DEF server
  <1>4. UNCHANGED loops => LoopTypes'
    BY <1>1
  <1>5. UNCHANGED endpoint => EndpointTypes'
    BY <1>1 DEF endpoint
  <1>6. UNCHANGED tasks => TaskTypes'
    BY <1>1 DEF tasks
  \* What is told is among what may be said
  <1>7. ASSUME NEW c \in Clients, NEW x, told' = [told EXCEPT ![c] = x]
        PROVE  told' \in [Clients -> Seq(Told)]
    <2>1. TasksInv'
      BY NextTasks
    <2>2. told' = [d \in Clients |-> told'[d]]
      BY <1>1, <1>7
    <2>3. \A d \in Clients : told'[d] \in Seq(Told)
      BY <2>1, SaidTypes DEF TasksInv, Conversation
    <2> QED BY <2>2, <2>3
  <1>8. CASE Announce
    <2>1. links' \subseteq Addr
      BY <1>1, <1>8, LinkTypes, SettingTypes DEF Announce
    <2>2. ServerTypes'
      BY <1>1, <1>8, <2>1 DEF Announce
    <2> QED BY <1>2, <1>4, <1>5, <1>6, <1>8, <2>2 DEF Announce
  <1>9. ASSUME NEW ok, Start(ok) PROVE TypeOK'
    <2>1. auth' \subseteq STRING \X STRING
      BY <1>1, <1>9, UserTypes, SettingTypes DEF Start
    <2>2. bind_host(cfg.host, ok) \subseteq Addr
      BY <1>1, SpecTypes, SettingTypes DEF bind_host
    <2>3. LoopTypes'
      BY <1>9, <2>2 DEF Start
    <2>4. ServerTypes'
      BY <1>1, <1>9, <2>1 DEF Start
    <2>5. EndpointTypes'
      BY <1>1, <1>9 DEF Start
    <2> QED BY <1>2, <1>6, <1>9, <2>3, <2>4, <2>5 DEF Start
  <1>10. ASSUME NEW ok, StartFails(ok) PROVE TypeOK'
    <2>1. ServerTypes'
      BY <1>1, <1>10 DEF StartFails
    <2> QED BY <1>2, <1>4, <1>5, <1>6, <1>10, <2>1 DEF StartFails
  <1>11. ASSUME NEW a \in DOMAIN loops, NEW c \in Clients, Accept(a, c) PROVE TypeOK'
    <2>1. told' \in [Clients -> Seq(Told)]
      BY <1>7, <1>11 DEF Accept
    <2>2. TaskTypes'
      BY <1>1, <1>11, <2>1 DEF Accept
    <2> QED BY <1>2, <1>3, <1>4, <1>5, <1>11, <2>2 DEF Accept
  <1>12. ASSUME NEW a \in DOMAIN loops, AcceptFails(a) \/ CancelLoop(a) PROVE TypeOK'
    <2>1. LoopTypes'
      BY <1>1, <1>12 DEF AcceptFails, CancelLoop, ServerInv
    <2> QED BY <1>2, <1>3, <1>5, <1>6, <1>12, <2>1 DEF AcceptFails, CancelLoop
  <1>13. ASSUME NEW c \in Clients, Task(c) \/ CancelTask(c) PROVE TypeOK'
    <2>1. UNCHANGED <<server, loops, endpoint>>
      BY <1>13 DEF Task, Greet, Authenticate, HandleRequest, ClientGone, LookupStarts,
                   LookupEnds, SessionEnds, CancelTask
    <2>2. TaskTypes'
      <3>1. ASSUME NEW g \in Greetings, Greet(c, g) PROVE TaskTypes'
        <4>1. told' \in [Clients -> Seq(Told)]
          BY <1>7, <3>1 DEF Greet, Answer
        <4> QED BY <1>1, <3>1, <4>1 DEF Greet, Answer
      <3>2. ASSUME NEW m \in Logins, Authenticate(c, m) PROVE TaskTypes'
        <4>1. told' \in [Clients -> Seq(Told)]
          BY <1>7, <3>2 DEF Authenticate, Answer
        <4>2. <<m.user, m.pass>> \in STRING \X STRING
          BY ProxyAssumption DEF Credentials
        <4> QED BY <1>1, <3>2, <4>1, <4>2 DEF Authenticate, Answer
      <3>3. ASSUME NEW r \in Requests, HandleRequest(c, r) PROVE TaskTypes'
        <4>1. told' \in [Clients -> Seq(Told)]
          BY <1>7, <3>3 DEF HandleRequest, Answer
        <4> QED BY <1>1, <3>3, <4>1 DEF HandleRequest, Answer
      <3>4. CASE ClientGone(c) \/ SessionEnds(c) \/ CancelTask(c)
        BY <1>1, <3>4 DEF ClientGone, SessionEnds, CancelTask
      <3>5. CASE LookupStarts(c) \/ LookupEnds(c)
        BY <1>1, <3>5 DEF LookupStarts, LookupEnds
      <3> QED BY <1>13, <3>1, <3>2, <3>3, <3>4, <3>5 DEF Task
    <2> QED BY <1>2, <1>3, <1>4, <1>5, <2>1, <2>2
  <1>14. ASSUME NEW ok, HealthStarts(ok) PROVE TypeOK'
    <2>1. EndpointTypes'
      BY <1>1, <1>14 DEF HealthStarts
    <2> QED BY <1>2, <1>3, <1>4, <1>6, <1>14, <2>1 DEF HealthStarts
  <1>15. CASE \/ HealthAccepts \/ HealthWrites \/ HealthAcceptFails \/ HealthWakes
              \/ ProbeArrives \/ CancelHealth
    <2> USE DEF HealthAccepts, HealthWrites, HealthAcceptFails, HealthWakes, ProbeArrives,
                CancelHealth
    <2>1. EndpointTypes' /\ UNCHANGED <<server, loops, tasks>>
      BY <1>1, <1>15
    <2> QED BY <1>2, <1>3, <1>4, <1>6, <2>1
  <1>16. CASE SignalArrives \/ GraceOver \/ ServerReturns
    <2>1. ServerTypes' /\ UNCHANGED <<loops, endpoint, tasks>>
      BY <1>1, <1>16 DEF SignalArrives, GraceOver, ServerReturns
    <2> QED BY <1>2, <1>4, <1>5, <1>6, <2>1
  <1>17. CASE Exit
    <2>1. ServerTypes' /\ LoopTypes' /\ UNCHANGED <<endpoint, tasks>>
      BY <1>1, <1>17, NoLoops DEF Exit
    <2> QED BY <1>2, <1>5, <1>6, <2>1
  <1>18. CASE UNCHANGED vars
    BY <1>2, <1>3, <1>4, <1>5, <1>6, <1>18 DEF vars
  <1> QED
    BY <1>8, <1>9, <1>10, <1>11, <1>12, <1>13, <1>14, <1>15, <1>16, <1>17, <1>18
       DEF Next, Cancel

-----------------------------------------------------------------------------
(* The theorems *)

LEMMA ProxyInvariant == Spec => []Inv
  <1>1. Inv /\ [Next]_vars => Inv'
    BY NextTypes, NextServer, NextTasks DEF Inv
  <1> QED BY <1>1, InitInv, PTL DEF Spec

\* Every state of the process has its types, whatever clients send.
THEOREM ProxyTypes == Spec => []TypeOK
  BY ProxyInvariant, PTL DEF Inv

\* Where SOCKS_USERS names an account, no client gets a session without the user
\* and the password of one account; where an entry is malformed, nobody gets one.
THEOREM OnlyAuthorizedSessions == Spec => []SessionsAuthorized
  <1>1. ASSUME Inv PROVE SessionsAuthorized
    <2> SUFFICES ASSUME NEW c \in Clients, pc[c] = "session"
                 PROVE  /\ ~invalid(cfg.users)
                        /\ users_of(cfg.users) # {} => login[c] \in users_of(cfg.users)
      BY DEF SessionsAuthorized
    <2>1. phase \in {"running", "dropping"}
      BY <1>1, TasksRunLate
    <2>2. auth = users_of(cfg.users) /\ ~invalid(cfg.users)
      BY <1>1, <2>1 DEF Inv, ServerInv
    <2> QED BY <1>1, <2>2 DEF Inv, TasksInv, Conversation
  <1> QED BY <1>1, ProxyInvariant, PTL

\* A client is told the beginning of a dialogue that SOCKS5 allows and that fits
\* the configuration, and nothing after a rejection or a reply.
THEOREM DialoguesLegal == Spec => []DialogueLegal
  <1>1. ASSUME Inv PROVE DialogueLegal
    <2> DEFINE Legal == IF auth = {} THEN {<<"no_method">>, <<"no_auth", "granted">>,
                                          <<"no_auth", "refused">>}
                        ELSE {<<"no_method">>, <<"password", "rejected">>,
                              <<"password", "accepted", "granted">>,
                              <<"password", "accepted", "refused">>}
    <2> SUFFICES ASSUME NEW c \in Clients PROVE \E d \in Legal : IsPrefix(told[c], d)
      BY DEF DialogueLegal
    <2>1. told[c] \in Said(auth)
      BY <1>1 DEF Inv, TasksInv, Conversation
    <2>2. ASSUME NEW x PROVE IsPrefix(<< >>, <<x>>) /\ IsPrefix(<<x>>, <<x>>)
      BY DEF IsPrefix
    <2>3. ASSUME NEW x, NEW y PROVE IsPrefix(<<x>>, <<x, y>>) /\ IsPrefix(<<x, y>>, <<x, y>>)
      BY DEF IsPrefix
    <2>4. ASSUME NEW x, NEW y, NEW z
          PROVE  /\ IsPrefix(<<x>>, <<x, y, z>>) /\ IsPrefix(<<x, y>>, <<x, y, z>>)
                 /\ IsPrefix(<<x, y, z>>, <<x, y, z>>)
      BY DEF IsPrefix
    <2>5. CASE auth = {}
      BY <2>1, <2>2, <2>3, <2>5, Zenon DEF Said
    <2>6. CASE auth # {}
      BY <2>1, <2>2, <2>3, <2>4, <2>6, Zenon DEF Said
    <2> QED BY <2>5, <2>6
  <1> QED BY <1>1, ProxyInvariant, PTL

\* Until a listener fails, every link in the log leads to one that accepts.
THEOREM LinksLead == Spec => []LinksServed
  <1>1. ASSUME Inv PROVE LinksServed
    <2> SUFFICES ASSUME phase = "running", \A a \in DOMAIN loops : loops[a] # "failed",
                        NEW l \in links
                 PROVE  \E a \in DOMAIN loops :
                            /\ loops[a] = "accepting"
                            /\ a = l \/ (a.scope = "unspecified" /\ a.family = l.family)
      BY DEF LinksServed
    <2>1. /\ links = link_addrs(cfg.host, cfg.ifaces)
          /\ DOMAIN loops = ToSet(specs(cfg.host)) /\ cfg \in Settings
      BY <1>1 DEF Inv, ServerInv, TypeOK
    <2>2. cfg.host \in Host /\ cfg.ifaces \in Ifaces
      BY <2>1, SettingTypes
    <2>3. PICK a \in DOMAIN loops : a = l \/ (a.scope = "unspecified" /\ a.family = l.family)
      BY <2>1, <2>2, LinksAreBound
    <2>4. loops[a] = "accepting"
      BY <1>1 DEF Inv, ServerInv
    <2> QED BY <2>3, <2>4
  <1> QED BY <1>1, ProxyInvariant, PTL

=============================================================================
