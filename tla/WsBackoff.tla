----------------------------- MODULE WsBackoff ------------------------------
(***************************************************************************)
(* The table of WebSocket route states (modules/routing/backoff.rs): for   *)
(* every (dc, media) key, whether a probe is running, the route cools down *)
(* after a failure, or HTTP 404 has disabled it.  The operators are the    *)
(* methods of WsBackoff as functions from the table to the table; each is  *)
(* one critical section of the WS_BACKOFF mutex.  A key that is not in the *)
(* HashMap has the state Absent.                                           *)
(***************************************************************************)
EXTENDS Integers

CONSTANTS WS_FAILURE_COOLDOWN,   \* how long a failed route is left alone
          WS_ATTEMPT_WINDOW      \* how long a running probe is respected

ASSUME DurationsAssumption == /\ WS_FAILURE_COOLDOWN \in Nat \ {0}
                              /\ WS_ATTEMPT_WINDOW \in Nat \ {0}

WsKey == (1..5) \X BOOLEAN

Absent == [kind |-> "absent", until |-> 0]
Disabled404 == [kind |-> "disabled404", until |-> 0]
Probing(until) == [kind |-> "probing", until |-> until]
Cooldown(until) == [kind |-> "cooldown", until |-> until]

WsState == {Absent, Disabled404}
           \cup [kind : {"probing", "cooldown"}, until : Nat]

Timed(s) == s.kind \in {"probing", "cooldown"}

\* Mutations of retain: the comparison turned round; a match arm that treats
\* Disabled404 as expired
retain_inverted(st, now) ==
    [k \in WsKey |-> IF Timed(st[k]) /\ st[k].until > now THEN Absent ELSE st[k]]

retain_forgets_404(st, now) ==
    [k \in WsKey |-> IF st[k].until > now THEN st[k] ELSE Absent]

\* HashMap::retain: forget every probe and cooldown whose deadline has passed
retain(st, now) ==
    [k \in WsKey |-> IF Timed(st[k]) /\ ~(st[k].until > now) THEN Absent ELSE st[k]]

\* What begin_probe answers, looking at the table after retain
WsDecision(st, key, now) ==
    CASE retain(st, now)[key].kind = "absent"      -> "ProbeNow"
      [] retain(st, now)[key].kind = "probing"     -> "ProbeInFlight"
      [] retain(st, now)[key].kind = "cooldown"    -> "Cooldown"
      [] retain(st, now)[key].kind = "disabled404" -> "Disabled404"

\* Mutations of begin_probe: a window of length zero; a window in the past
begin_probe_no_window(st, key, now) ==
    IF retain(st, now)[key] = Absent
    THEN [retain(st, now) EXCEPT ![key] = Probing(now)]
    ELSE retain(st, now)

begin_probe_backdated(st, key, now) ==
    IF retain(st, now)[key] = Absent
    THEN [retain(st, now) EXCEPT ![key] = Probing(now - WS_ATTEMPT_WINDOW)]
    ELSE retain(st, now)

\* The table begin_probe leaves behind
begin_probe(st, key, now) ==
    IF retain(st, now)[key] = Absent
    THEN [retain(st, now) EXCEPT ![key] = Probing(now + WS_ATTEMPT_WINDOW)]
    ELSE retain(st, now)

record_failure(st, key, now) ==
    [st EXCEPT ![key] = Cooldown(now + WS_FAILURE_COOLDOWN)]

disable_404(st, key) == [st EXCEPT ![key] = Disabled404]

clear(st, key) == [st EXCEPT ![key] = Absent]
=============================================================================
