----------------------------- MODULE MCSplitter -----------------------------
(* Streams for Splitter: short sequences of encoded messages. *)
EXTENDS Splitter, SequencesExt

CONSTANTS MaxMessages,  \* bound: messages of a stream
          Fills         \* the byte a payload consists of

\* A one-word message with the short header or the extended one
Encoded(ext, fill) ==
    (IF ext THEN <<127, 1, 0, 0>> ELSE <<1>>) \o [i \in 1..4 |-> fill]

Concat(ms) == [plain |-> FlattenSeq(ms),
               ends |-> {Len(FlattenSeq(SubSeq(ms, 1, i))) : i \in DOMAIN ms}]

MCStreams ==
    {Concat(ms) : ms \in BoundedSeq({Encoded(e, f) : e \in BOOLEAN, f \in Fills},
                                    MaxMessages)}
=============================================================================
