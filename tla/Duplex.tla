------------------------------- MODULE Duplex -------------------------------
(***************************************************************************)
(* What a relayed session promises to its two peers: two independent FIFO  *)
(* directions.  What is delivered is always a prefix of what was sent; a   *)
(* direction is closed gracefully only after its source has finished and   *)
(* everything it sent was delivered; otherwise it is cut, and nothing is   *)
(* delivered any more.                                                     *)
(***************************************************************************)
EXTENDS Sequences, SequencesExt

CONSTANTS Dirs,    \* the directions of the session
          Units    \* what is sent

VARIABLES sent,    \* what the source of each direction has sent
          fin,     \* whether the source has finished
          got,     \* what was handed over to the other peer
          ends     \* how each direction ended, if it has

vars == <<sent, fin, got, ends>>

Init == /\ sent \in [Dirs -> Seq(Units)]
        /\ fin = [d \in Dirs |-> FALSE]
        /\ got = [d \in Dirs |-> << >>]
        /\ ends = [d \in Dirs |-> "open"]

Send(d, u) == /\ ~fin[d]
              /\ sent' = [sent EXCEPT ![d] = Append(@, u)]
              /\ UNCHANGED <<fin, got, ends>>

Finish(d) == /\ fin' = [fin EXCEPT ![d] = TRUE]
             /\ UNCHANGED <<sent, got, ends>>

\* Hand over the next n units
Deliver(d, n) == /\ ends[d] = "open"
                 /\ got' = [got EXCEPT ![d] = SubSeq(sent[d], 1, Len(@) + n)]
                 /\ UNCHANGED <<sent, fin, ends>>

Close(d) == /\ ends[d] = "open" /\ fin[d] /\ got[d] = sent[d]
            /\ ends' = [ends EXCEPT ![d] = "closed"]
            /\ UNCHANGED <<sent, fin, got>>

\* One or both directions break off
Cut(D) == /\ \A d \in D : ends[d] = "open"
          /\ ends' = [d \in Dirs |-> IF d \in D THEN "cut" ELSE ends[d]]
          /\ UNCHANGED <<sent, fin, got>>

Next == \/ \E D \in SUBSET Dirs : Cut(D)
        \/ \E d \in Dirs : \/ \E u \in Units : Send(d, u)
                           \/ Finish(d) \/ Close(d)
                           \/ \E n \in 1..(Len(sent[d]) - Len(got[d])) : Deliver(d, n)

Spec == Init /\ [][Next]_vars
=============================================================================
