------------------------------ MODULE Lifetime ------------------------------
(***************************************************************************)
(* What a connection promises about its life, without reference counts,    *)
(* wakers or the order of polls.  The core is alive as long as a handle or *)
(* the Receiver holds it, may outlive the last of them for the moment a    *)
(* runner has it in hand, and never comes back.  The reader says that all  *)
(* handles were dropped only when the core has gone.  The writer leaves a  *)
(* living core only sealed, its channel closed and its requests expired,   *)
(* unless it is aborted.                                                   *)
(***************************************************************************)
CONSTANT Owners

VARIABLES
    holders,    \* who holds the core: owners of handles, the Receiver
    alive,      \* the core exists
    open,       \* the channel takes directives
    expired,    \* the pending requests have expired
    reader,     \* "value" (a Receiver), "dropping", "running", "ended"
    why,        \* what the reader returned
    writer      \* "running", "ended", "aborted"

lvars == <<holders, alive, open, expired, reader, why, writer>>

Init ==
    /\ \E O \in SUBSET Owners : holders = {"receiver"} \cup O
    /\ alive = TRUE /\ open = TRUE /\ expired = FALSE
    /\ reader = "value" /\ why = "none" /\ writer = "running"

Share(o) ==
    /\ alive
    /\ holders' = holders \cup {o}
    /\ UNCHANGED <<alive, open, expired, reader, why, writer>>

\* The core goes with its last holder, if no runner has it in hand.
GiveUp(h) ==
    /\ h \in holders
    /\ holders' = holders \ {h}
    /\ alive' = TRUE \/ (alive' = FALSE /\ holders' = {})

Leave(o) == GiveUp(o) /\ UNCHANGED <<open, expired, reader, why, writer>>

\* A runner lets go of a core that nobody else holds.
Collect ==
    /\ alive /\ holders = {}
    /\ alive' = FALSE
    /\ UNCHANGED <<holders, open, expired, reader, why, writer>>

Close == open' = FALSE /\ UNCHANGED <<holders, alive, expired, reader, why, writer>>

\* The Receiver is dropped: the requests expire, then the reference goes.
DropReceiver ==
    /\ reader = "value"
    /\ reader' = "dropping" /\ expired' = TRUE
    /\ UNCHANGED <<holders, alive, open, why, writer>>

ReceiverGone ==
    /\ reader = "dropping" /\ reader' = "ended"
    /\ GiveUp("receiver")
    /\ UNCHANGED <<open, expired, why, writer>>

\* The Receiver becomes a task, which holds nothing.
Run ==
    /\ reader = "value" /\ reader' = "running"
    /\ GiveUp("receiver")
    /\ UNCHANGED <<open, expired, why, writer>>

\* The reader comes to the end of the stream, or is aborted ...
ReaderEnds ==
    /\ reader = "running" /\ reader' = "ended"
    /\ why' \in {why, "Eof"}
    /\ UNCHANGED <<holders, alive, open, expired, writer>>

\* ... or has lost the core.
ReaderOrphaned ==
    /\ reader = "running" /\ reader' = "ended"
    /\ ~alive
    /\ why' = "AllHandleDropped"
    /\ UNCHANGED <<holders, alive, open, expired, writer>>

\* The writer expires the requests, behind the closed channel.
Seal ==
    /\ writer = "running" /\ ~open
    /\ expired' = TRUE
    /\ UNCHANGED <<holders, alive, open, reader, why, writer>>

WriterEnds ==
    /\ writer = "running" /\ writer' = "ended"
    /\ alive => ~open /\ expired
    /\ open' = FALSE
    /\ UNCHANGED <<holders, alive, expired, reader, why>>

WriterAborted ==
    /\ writer = "running" /\ writer' = "aborted"
    /\ open' = FALSE
    /\ UNCHANGED <<holders, alive, expired, reader, why>>

Next ==
    \/ \E o \in Owners : Share(o) \/ Leave(o)
    \/ Collect \/ Close \/ Seal
    \/ DropReceiver \/ ReceiverGone \/ Run \/ ReaderEnds \/ ReaderOrphaned
    \/ WriterEnds \/ WriterAborted

Spec == Init /\ [][Next]_lvars
=============================================================================
