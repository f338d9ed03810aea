-------------------------------- MODULE Socks --------------------------------
(***************************************************************************)
(* modules/socks.rs: the accounts, and how the proxy answers each message  *)
(* of a SOCKS5 client.  Users and passwords are compared only.  An entry   *)
(* of SOCKS_USERS is what splitting it at its first colon gives; an empty  *)
(* entry has neither.  A message is what the proxy distinguishes in it.    *)
(***************************************************************************)
EXTENDS Sequences, SequencesExt

Entry == [user : STRING, colon : BOOLEAN, pass : STRING]
Blank == [user |-> "", colon |-> FALSE, pass |-> ""]

\* parse_socks_auth: the pairs of user and password; none means None, no
\* authentication
users_of(entries) == {<<entries[i].user, entries[i].pass>> :
                         i \in {j \in DOMAIN entries : entries[j] # Blank}}

invalid(entries) == \E i \in DOMAIN entries :
    /\ entries[i] # Blank
    /\ ~entries[i].colon \/ entries[i].user = "" \/ entries[i].pass = ""

\* What the client is told: the method, the result of the authentication, the
\* reply to its request
Told == {"no_auth", "password", "no_method", "accepted", "rejected", "granted", "refused"}

selected_method(auth) == IF auth # {} THEN "password" ELSE "no_auth"

\* The answer to a greeting: its version and the methods offered
Greeting == [version : {4, 5}, methods : SUBSET {"no_auth", "password"}]

answer_greeting(auth, g) ==
    IF g.version # 5 THEN << >>
    ELSE IF selected_method(auth) \notin g.methods THEN <<"no_method">>
    ELSE <<selected_method(auth)>>

\* Credentials; a field that is not UTF-8 is a parse error
Credentials == [version : {1, 5}, utf8 : BOOLEAN, user : STRING, pass : STRING]

\* Mutation of accepted: the password of any account will do
accepted_any_password(auth, m) ==
    (\E a \in auth : a[1] = m.user) /\ (\E a \in auth : a[2] = m.pass)

accepted(auth, m) == <<m.user, m.pass>> \in auth

authenticate_user(auth, m) ==
    IF m.version # 1 THEN <<"rejected">>
    ELSE IF ~m.utf8 THEN << >>
    ELSE IF accepted(auth, m) THEN <<"accepted">> ELSE <<"rejected">>

\* A request: whether its first three bytes are those of CONNECT, and its
\* address; "other" is an unknown type, "bad" a name that is not UTF-8
Request == [connect : BOOLEAN, atyp : {"ip", "name", "bad", "other"}]

answer_request(r) ==
    IF ~r.connect THEN <<"refused">>
    ELSE IF r.atyp \in {"bad", "other"} THEN << >>
    ELSE <<"granted">>
=============================================================================
