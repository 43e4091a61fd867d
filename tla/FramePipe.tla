----------------------------- MODULE FramePipe ------------------------------
(***************************************************************************)
(* What the in-memory transport promises, without the counter, the wakers  *)
(* or the order in which the code looks at them: a bounded queue of        *)
(* numbered frames between a sender and a reader.  Each end may go at any  *)
(* time.  The reader is told the end of the stream only when the sender    *)
(* has gone, and not before it has every frame that was in the pipe when   *)
(* it asked; the sender is refused only when the reader has gone, and from *)
(* then on.                                                                *)
(***************************************************************************)
EXTENDS Naturals, Sequences

CONSTANT Capacity

VARIABLES
    inside,     \* the frames in the pipe, in order
    handed,     \* the frames handed to the reader, in order
    asked,      \* how many frames had been sent when the reader last asked
    sender,     \* "open", "gone"
    reader,     \* "reading", "ended", "gone"
    refused     \* the sender was told that the reader has gone

fvars == <<inside, handed, asked, sender, reader, refused>>

Sent == Len(handed) + Len(inside)

Init ==
    /\ inside = << >> /\ handed = << >> /\ asked = 0
    /\ sender = "open" /\ reader = "reading" /\ refused = FALSE

Put ==
    /\ sender = "open" /\ ~refused
    /\ Len(inside) < Capacity
    /\ inside' = Append(inside, Sent + 1)
    /\ UNCHANGED <<handed, asked, sender, reader, refused>>

Refuse ==
    /\ sender = "open" /\ reader = "gone"
    /\ refused' = TRUE
    /\ UNCHANGED <<inside, handed, asked, sender, reader>>

LeaveSender ==
    /\ sender = "open"
    /\ sender' = "gone"
    /\ UNCHANGED <<inside, handed, asked, reader, refused>>

Ask ==
    /\ reader = "reading"
    /\ asked' = Sent
    /\ UNCHANGED <<inside, handed, sender, reader, refused>>

Get ==
    /\ reader = "reading" /\ inside # << >>
    /\ handed' = Append(handed, Head(inside))
    /\ inside' = Tail(inside)
    /\ UNCHANGED <<asked, sender, reader, refused>>

End ==
    /\ reader = "reading" /\ sender = "gone"
    /\ Len(handed) >= asked
    /\ reader' = "ended"
    /\ UNCHANGED <<inside, handed, asked, sender, refused>>

LeaveReader ==
    /\ reader # "gone"
    /\ reader' = "gone"
    /\ UNCHANGED <<inside, handed, asked, sender, refused>>

Next == Put \/ Refuse \/ LeaveSender \/ Ask \/ Get \/ End \/ LeaveReader

Spec == Init /\ [][Next]_fvars
=============================================================================
