---------------------------- MODULE MCWriteRunner ----------------------------
(* Instances of WriteRunner for TLC. *)
EXTENDS WriteRunner, TLC

CONSTANTS h1, h2

TwoHandles == {h1, h2}

\* Four directives: two fill the channel, one is in hand and one waits for room.
UnevenSends == (h1 :> 3) @@ (h2 :> 1)
OneEach == [h \in TwoHandles |-> 1]

\* A notification is a burst of one frame.
MostKinds == {"burst", "request", "flush", "closeAfterFlush", "closeNow"}
=============================================================================
