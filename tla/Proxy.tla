-------------------------------- MODULE Proxy --------------------------------
(***************************************************************************)
(* The process: main.rs, run_server and accept_loop (runtime/server.rs),   *)
(* the shutdown, the health endpoint (modules/health.rs) and, for every    *)
(* connection, handle_socks5_handshake up to the session, whose inside is  *)
(* the matter of Routing and Relay.  Tasks run on a multi-threaded runtime *)
(* and interleave at every await.                                          *)
(*                                                                         *)
(* Whatever a connection is doing, its task ends without another word when *)
(* the client closes or resets it (ClientGone), and it waits without limit *)
(* for a client that is silent.  A session looks up names on the runtime's *)
(* blocking threads, which cannot be cancelled.                            *)
(***************************************************************************)
EXTENDS Socks, Listen

CONSTANTS Clients,      \* slots for connections
          Settings,     \* configurations and environments to start in
          Greetings, Logins, Requests    \* what clients send

Setting == [host : Host, health : Host, users : Seq(Entry), ifaces : Ifaces]

ASSUME ProxyAssumption ==
    /\ \A s \in Settings : /\ s.host \in Host /\ s.health \in Host
                           /\ s.users \in Seq(Entry) /\ s.ifaces \in Ifaces
    /\ Greetings \subseteq Greeting /\ Requests \subseteq Request
    /\ \A m \in Logins : m \in Credentials

VARIABLES cfg,      \* the setting chosen
          phase,    \* where main stands
          auth,     \* socks_auth of the RoutedConfig
          links,    \* the addresses announced in the log
          loops,    \* the accept loop of every listener
          health,   \* serve_health
          probe,    \* a request to the health endpoint
          signal,   \* SIGTERM or SIGINT
          pc,       \* the tasks: which message of the client is awaited
          login,    \* the credentials the client has sent
          told,     \* what it was told
          lookups   \* name lookups on blocking threads

server == <<cfg, phase, auth, links, signal>>
endpoint == <<health, probe>>
tasks == <<pc, login, told, lookups>>
vars == <<server, loops, endpoint, tasks>>

NoLogin == <<"", "">>

TypeOK ==
    /\ cfg \in Settings
    /\ phase \in {"init", "start", "running", "dropping", "exited"}
    /\ auth \subseteq STRING \X STRING /\ links \subseteq Addr
    /\ DOMAIN loops \subseteq Addr
    /\ \A a \in DOMAIN loops : loops[a] \in {"accepting", "failed", "cancelled"}
    /\ health \in {"none", "starting", "accepting", "writing", "sleeping", "off"}
    /\ probe \in {"none", "waiting", "taken", "written", "lost"}
    /\ signal \in {"none", "grace", "over"}
    /\ pc \in [Clients -> {"free", "greeting", "login", "request", "session"}]
    /\ login \in [Clients -> (STRING \X STRING) \cup {NoLogin}]
    /\ told \in [Clients -> Seq(Told)]
    /\ lookups \subseteq Clients

Init == /\ cfg \in Settings
        /\ phase = "init" /\ auth = {} /\ links = {} /\ loops = << >>
        /\ health = "none" /\ probe = "none" /\ signal = "none"
        /\ pc = [c \in Clients |-> "free"] /\ login = [c \in Clients |-> NoLogin]
        /\ told = [c \in Clients |-> << >>] /\ lookups = {}

-----------------------------------------------------------------------------
(* main and run_server up to the first await: nothing else runs yet *)

Announce == /\ phase = "init"
            /\ links' = link_addrs(cfg.host, cfg.ifaces)
            /\ phase' = "start"
            /\ UNCHANGED <<cfg, auth, signal, loops, endpoint, tasks>>

\* RoutedConfig::try_from, then bind_host; ok as in bind_host
Start(ok) == /\ phase = "start"
             /\ ~invalid(cfg.users) /\ bind_host(cfg.host, ok) # {}
             /\ auth' = users_of(cfg.users)
             /\ loops' = [a \in bind_host(cfg.host, ok) |-> "accepting"]
             /\ health' = "starting" /\ phase' = "running"
             /\ UNCHANGED <<cfg, links, signal, probe, tasks>>

StartFails(ok) == /\ phase = "start"
                  /\ invalid(cfg.users) \/ bind_host(cfg.host, ok) = {}
                  /\ phase' = "exited"
                  /\ UNCHANGED <<cfg, auth, links, signal, loops, endpoint, tasks>>

-----------------------------------------------------------------------------
(* accept_loop *)

Accept(a, c) == /\ a \in DOMAIN loops /\ loops[a] = "accepting" /\ pc[c] = "free"
                /\ pc' = [pc EXCEPT ![c] = "greeting"]
                /\ login' = [login EXCEPT ![c] = NoLogin]
                /\ told' = [told EXCEPT ![c] = << >>]
                /\ UNCHANGED <<server, loops, endpoint, lookups>>

\* Out of file descriptors, or the connection was aborted before it was taken
AcceptFails(a) == /\ a \in DOMAIN loops /\ loops[a] = "accepting"
                  /\ loops' = [loops EXCEPT ![a] = "failed"]
                  /\ UNCHANGED <<server, endpoint, tasks>>

-----------------------------------------------------------------------------
(* handle_socks5_handshake *)

\* The client is sent the answer; good ones lead on, others end the task
Answer(c, answer, good, next) ==
    /\ told' = [told EXCEPT ![c] = @ \o answer]
    /\ pc' = [pc EXCEPT ![c] = IF answer = <<good>> THEN next ELSE "free"]

Greet(c, g) == /\ pc[c] = "greeting"
               /\ Answer(c, answer_greeting(auth, g), selected_method(auth),
                         IF auth # {} THEN "login" ELSE "request")
               /\ UNCHANGED <<server, loops, endpoint, login, lookups>>

\* Mutation of Authenticate: the early return after a rejection is missing
Authenticate_goes_on(c, m) ==
    /\ pc[c] = "login"
    /\ login' = [login EXCEPT ![c] = <<m.user, m.pass>>]
    /\ told' = [told EXCEPT ![c] = @ \o authenticate_user(auth, m)]
    /\ pc' = [pc EXCEPT ![c] = "request"]
    /\ UNCHANGED <<server, loops, endpoint, lookups>>

Authenticate(c, m) == /\ pc[c] = "login"
                      /\ login' = [login EXCEPT ![c] = <<m.user, m.pass>>]
                      /\ Answer(c, authenticate_user(auth, m), "accepted", "request")
                      /\ UNCHANGED <<server, loops, endpoint, lookups>>

\* The reply says success although nothing has been connected yet
HandleRequest(c, r) == /\ pc[c] = "request"
                       /\ Answer(c, answer_request(r), "granted", "session")
                       /\ UNCHANGED <<server, loops, endpoint, login, lookups>>

\* A read or a write of the handshake fails
ClientGone(c) == /\ pc[c] \in {"greeting", "login", "request"}
                 /\ pc' = [pc EXCEPT ![c] = "free"]
                 /\ UNCHANGED <<server, loops, endpoint, login, told, lookups>>

-----------------------------------------------------------------------------
(* The session, as far as the process is concerned *)

LookupStarts(c) == /\ pc[c] = "session" /\ c \notin lookups
                   /\ lookups' = lookups \cup {c}
                   /\ UNCHANGED <<server, loops, endpoint, pc, login, told>>

LookupEnds(c) == /\ c \in lookups
                 /\ lookups' = lookups \ {c}
                 /\ UNCHANGED <<server, loops, endpoint, pc, login, told>>

\* The upstream could not be reached, or the relay is over: the client is told
\* nothing more
SessionEnds(c) == /\ pc[c] = "session" /\ c \notin lookups
                  /\ pc' = [pc EXCEPT ![c] = "free"]
                  /\ UNCHANGED <<server, loops, endpoint, login, told, lookups>>

-----------------------------------------------------------------------------
(* serve_health; its listeners do not depend on each other, and one stands for
   each of them *)

HealthStarts(ok) == /\ health = "starting"
                    /\ health' = IF bind_host(cfg.health, ok) = {} THEN "off"
                                                                   ELSE "accepting"
                    /\ UNCHANGED <<server, loops, probe, tasks>>

HealthAccepts == /\ health = "accepting" /\ probe = "waiting"
                 /\ health' = "writing" /\ probe' = "taken"
                 /\ UNCHANGED <<server, loops, tasks>>

\* Whether the write succeeds or fails is ignored; the connection is then closed with
\* the request unread, so that the client may see a reset instead of the response
HealthWrites == /\ health = "writing"
                /\ health' = "accepting" /\ probe' \in {"written", "lost"}
                /\ UNCHANGED <<server, loops, tasks>>

\* Mutation of HealthAcceptFails: the loop ends as accept_loop does
HealthAcceptFails_returns == /\ health = "accepting" /\ health' = "off"
                             /\ UNCHANGED <<server, loops, probe, tasks>>

HealthAcceptFails == /\ health = "accepting" /\ health' = "sleeping"
                     /\ UNCHANGED <<server, loops, probe, tasks>>

HealthWakes == /\ health = "sleeping" /\ health' = "accepting"
               /\ UNCHANGED <<server, loops, probe, tasks>>

\* The next request comes when the last one is over; the listener's queue takes it
\* whatever the task is doing
ProbeArrives == /\ health \in {"accepting", "sleeping"} /\ probe \notin {"waiting", "taken"}
                /\ probe' = "waiting"
                /\ UNCHANGED <<server, loops, health, tasks>>

-----------------------------------------------------------------------------
(* The end *)

SignalArrives == /\ phase = "running" /\ signal = "none" /\ signal' = "grace"
                 /\ UNCHANGED <<cfg, phase, auth, links, loops, endpoint, tasks>>

\* 200 ms later wait_for_shutdown_signal returns, and so does main's select
GraceOver == /\ phase = "running" /\ signal = "grace"
             /\ signal' = "over" /\ phase' = "dropping"
             /\ UNCHANGED <<cfg, auth, links, loops, endpoint, tasks>>

\* Mutation of ServerReturns: all accept loops are waited for
ServerReturns_last == /\ phase = "running"
                      /\ \A a \in DOMAIN loops : loops[a] = "failed"
                      /\ phase' = "dropping"
                      /\ UNCHANGED <<cfg, auth, links, signal, loops, endpoint, tasks>>

\* The first accept loop to end ends run_server
ServerReturns == /\ phase = "running"
                 /\ \E a \in DOMAIN loops : loops[a] = "failed"
                 /\ phase' = "dropping"
                 /\ UNCHANGED <<cfg, auth, links, signal, loops, endpoint, tasks>>

\* The runtime is dropped: each task is cancelled at its next await and may go on
\* until then; lookups have to be waited for
CancelLoop(a) == /\ phase = "dropping" /\ a \in DOMAIN loops /\ loops[a] = "accepting"
                 /\ loops' = [loops EXCEPT ![a] = "cancelled"]
                 /\ UNCHANGED <<server, endpoint, tasks>>

CancelTask(c) == /\ phase = "dropping" /\ pc[c] # "free"
                 /\ pc' = [pc EXCEPT ![c] = "free"]
                 /\ UNCHANGED <<server, loops, endpoint, login, told, lookups>>

CancelHealth == /\ phase = "dropping" /\ health # "off" /\ health' = "off"
                /\ UNCHANGED <<server, loops, probe, tasks>>

Exit == /\ phase = "dropping" /\ health = "off" /\ lookups = {}
        /\ \A a \in DOMAIN loops : loops[a] # "accepting"
        /\ \A c \in Clients : pc[c] = "free"
        /\ phase' = "exited" /\ loops' = << >>
        /\ UNCHANGED <<cfg, auth, links, signal, endpoint, tasks>>

-----------------------------------------------------------------------------
Task(c) == \/ \E g \in Greetings : Greet(c, g)
           \/ \E m \in Logins : Authenticate(c, m)
           \/ \E r \in Requests : HandleRequest(c, r)
           \/ ClientGone(c)
           \/ LookupStarts(c) \/ LookupEnds(c) \/ SessionEnds(c)

Cancel == \/ \E a \in DOMAIN loops : CancelLoop(a)
          \/ \E c \in Clients : CancelTask(c)
          \/ CancelHealth

Next == \/ Announce
        \/ \E ok \in SUBSET ToSet(specs(cfg.host)) : Start(ok) \/ StartFails(ok)
        \/ \E a \in DOMAIN loops : AcceptFails(a) \/ \E c \in Clients : Accept(a, c)
        \/ \E c \in Clients : Task(c)
        \/ \E ok \in SUBSET ToSet(specs(cfg.health)) : HealthStarts(ok)
        \/ HealthAccepts \/ HealthWrites \/ HealthAcceptFails \/ HealthWakes
        \/ ProbeArrives
        \/ SignalArrives \/ GraceOver \/ ServerReturns
        \/ Cancel \/ Exit

\* main is polled when it can go on; the timers of the shutdown and of the health
\* endpoint fire; the runtime cancels every task; a lookup returns.  For the
\* health endpoint: accept does not fail for ever, and a response, which is shorter
\* than an empty send buffer, is written or fails.
Fairness == /\ WF_vars(GraceOver) /\ WF_vars(ServerReturns) /\ WF_vars(Exit)
            /\ WF_vars(\E a \in DOMAIN loops : CancelLoop(a))
            /\ \A c \in Clients : WF_vars(CancelTask(c)) /\ WF_vars(LookupEnds(c))
            /\ WF_vars(CancelHealth)
            /\ WF_vars(HealthWakes) /\ WF_vars(HealthWrites) /\ SF_vars(HealthAccepts)

Spec == Init /\ [][Next]_vars /\ Fairness

-----------------------------------------------------------------------------
(* What the process promises *)

\* Where SOCKS_USERS names an account, no session exists whose client did not
\* send the user and the password of one and the same account; where an entry is
\* malformed, none exists at all.
SessionsAuthorized ==
    \A c \in Clients : pc[c] = "session" =>
        /\ ~invalid(cfg.users)
        /\ users_of(cfg.users) # {} => login[c] \in users_of(cfg.users)

\* What a client is told is always the beginning of one of the dialogues SOCKS5
\* allows: the method of the configuration, then the result of a login if it asks
\* for one, then one reply.  Nothing follows a rejection or a reply, not even when
\* the upstream of a granted request cannot be reached.
DialogueLegal ==
    \A c \in Clients :
        \E d \in IF auth = {} THEN {<<"no_method">>, <<"no_auth", "granted">>,
                                   <<"no_auth", "refused">>}
                 ELSE {<<"no_method">>, <<"password", "rejected">>,
                       <<"password", "accepted", "granted">>,
                       <<"password", "accepted", "refused">>} :
            IsPrefix(told[c], d)

\* Every link announced in the log, before anything is bound, leads to a listener that
\* accepts: on its own address or on the wildcard of its family.  So it is until a
\* listener fails, which ends the process (StopsWhenTold).
LinksServed ==
    phase = "running" /\ (\A a \in DOMAIN loops : loops[a] # "failed") =>
        \A l \in links : \E a \in DOMAIN loops :
            /\ loops[a] = "accepting"
            /\ a = l \/ (a.scope = "unspecified" /\ a.family = l.family)

\* A signal, or the failure of a single accept on one of the listeners, ends the
\* process with all its sessions, in whatever state they are.
StopsWhenTold ==
    signal = "grace" \/ (\E a \in DOMAIN loops : loops[a] = "failed") ~> phase = "exited"

\* The health endpoint, once bound, takes every request from its queue and writes the
\* response, unless the client's connection is lost, while the process lives and even
\* if its accept fails in between.
HealthRecovers ==
    probe = "waiting" ~> probe \in {"written", "lost"} \/ phase # "running"
=============================================================================
