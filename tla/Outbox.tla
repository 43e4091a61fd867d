------------------------------- MODULE Outbox -------------------------------
(***************************************************************************)
(* What the write half promises, without the channel, its capacity or the  *)
(* steps of a shutdown: frames go out once each and in the order they were *)
(* accepted; one is passed over only after every handle is gone; a runner  *)
(* that ends gracefully has refused new frames and leaves none behind.     *)
(***************************************************************************)
EXTENDS Naturals, Sequences

CONSTANT Frames

VARIABLES log,      \* the frames accepted, in order
          taken,    \* how many of them have been dealt with
          out,      \* the frames written
          open,     \* frames are accepted
          orphaned, \* all handles are gone
          end       \* "running", "drained", "cut"

ovars == <<log, taken, out, open, orphaned, end>>

Init ==
    /\ log = << >> /\ taken = 0 /\ out = << >>
    /\ open = TRUE /\ orphaned = FALSE /\ end = "running"

\* The frames of one message are accepted together.
Accept ==
    /\ open
    /\ \E fs \in UNION {[1 .. n -> Frames] : n \in 1 .. 2} : log' = log \o fs
    /\ UNCHANGED <<taken, out, open, orphaned, end>>

Deliver ==
    /\ end = "running"
    /\ taken < Len(log)
    /\ out' = Append(out, log[taken + 1])
    /\ taken' = taken + 1
    /\ UNCHANGED <<log, open, orphaned, end>>

Skip ==
    /\ end = "running"
    /\ orphaned
    /\ taken < Len(log)
    /\ taken' = taken + 1
    /\ UNCHANGED <<log, out, open, orphaned, end>>

Close == open /\ open' = FALSE /\ UNCHANGED <<log, taken, out, orphaned, end>>

\* The last handle goes, and with it the way to send.
Orphan ==
    /\ ~orphaned
    /\ orphaned' = TRUE
    /\ open' = FALSE
    /\ UNCHANGED <<log, taken, out, end>>

Drain ==
    /\ end = "running"
    /\ ~open
    /\ taken = Len(log)
    /\ end' = "drained"
    /\ UNCHANGED <<log, taken, out, open, orphaned>>

\* An error, or a discarding shutdown, which also closes.
Cut ==
    /\ end = "running"
    /\ end' = "cut"
    /\ open' \in {open, FALSE}
    /\ UNCHANGED <<log, taken, out, orphaned>>

Next == Accept \/ Deliver \/ Skip \/ Close \/ Orphan \/ Drain \/ Cut

Spec == Init /\ [][Next]_ovars
=============================================================================
