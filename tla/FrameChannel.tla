---------------------------- MODULE FrameChannel ----------------------------
(***************************************************************************)
(* What the read half of an upgraded connection promises to its caller,    *)
(* and what Relay builds on: no bytes, only whole frames.  Frames are read *)
(* one by one, in the order in which they were sent, and nothing is read   *)
(* behind one that ends the stream.  The reader is told of an end only     *)
(* when it has read every frame, and of a failure only if the stream has   *)
(* ended otherwise than between two frames.                                *)
(***************************************************************************)
EXTENDS Naturals, Sequences

CONSTANTS Kinds,        \* the kinds of frames
          Terminators   \* those behind which nothing is read

VARIABLES sent,    \* the frames that have arrived as a whole
          stop,    \* how the stream ended: "fin" between two frames, or "reset"
          read,    \* how many frames the reader has been given
          reader   \* "none" before the upgrade, "open", "ended" or "failed"

vars == <<sent, stop, read, reader>>

Init == sent = << >> /\ stop = "open" /\ read = 0 /\ reader = "none"

Send(k) == /\ stop = "open"
           /\ sent' = Append(sent, k)
           /\ UNCHANGED <<stop, read, reader>>

Stop == /\ stop = "open" /\ stop' \in {"fin", "reset"}
        /\ UNCHANGED <<sent, read, reader>>

Open == /\ reader = "none" /\ reader' = "open"
        /\ UNCHANGED <<sent, stop, read>>

Receive == /\ reader = "open" /\ read < Len(sent)
           /\ read' = read + 1
           /\ reader' = IF sent[read + 1] \in Terminators THEN "ended" ELSE "open"
           /\ UNCHANGED <<sent, stop>>

End == /\ reader = "open" /\ stop = "fin" /\ read = Len(sent)
       /\ reader' = "ended"
       /\ UNCHANGED <<sent, stop, read>>

Fail == /\ reader = "open" /\ stop = "reset"
        /\ reader' = "failed"
        /\ UNCHANGED <<sent, stop, read>>

Next == (\E k \in Kinds : Send(k)) \/ Stop \/ Open \/ Receive \/ End \/ Fail

Spec == Init /\ [][Next]_vars
=============================================================================
