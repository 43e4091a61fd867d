--------------------------- MODULE RequestPromise ---------------------------
(***************************************************************************)
(* What the request half of the library promises a caller, without ids,    *)
(* locks, wakers or threads.  A request is registered while the table has  *)
(* not expired, and is settled once: by an answer, by Closed, or by its    *)
(* owner giving it up.  The answer is to its own frame, unless another     *)
(* request had the same id: one that is settled, or one that was encoded   *)
(* more than once.  Closed is said of a request whose frame could not be   *)
(* written, and of all when the table has expired.  An owner that asks     *)
(* without waiting can be told Closed after the expiry, keep the handle,   *)
(* and still get an answer that was on its way.  After a failed write      *)
(* nothing more is written.                                                *)
(***************************************************************************)
CONSTANTS Calls, NoCall

VARIABLES
    status,     \* what became of each request
    source,     \* the request whose frame the answer handed over answers
    written,    \* the requests whose frames were written, each once
    failed,     \* the requests whose write failed
    retried,    \* the requests that drew more than one id
    expired     \* the table has expired

pvars == <<status, source, written, failed, retried, expired>>

Unsettled == {"pending", "told"}
Settled == {"answered", "closed", "withdrawn"}

Init ==
    /\ status = [c \in Calls |-> "new"]
    /\ source = [c \in Calls |-> NoCall]
    /\ written = {} /\ failed = {} /\ retried = {}
    /\ expired = FALSE

Move(c, from, to) == status[c] \in from /\ status' = [status EXCEPT ![c] = to]

\* The first id of a request was in use.
Retry(c) ==
    /\ status[c] = "new"
    /\ retried' = retried \cup {c}
    /\ UNCHANGED <<status, source, written, failed, expired>>

\* A request is refused before it was registered.
Refuse(c) ==
    /\ Move(c, {"new"}, "refused")
    /\ UNCHANGED <<source, written, failed, retried, expired>>

\* A request is registered; nothing registers in an expired table.
Issue(c) ==
    /\ ~expired
    /\ Move(c, {"new"}, "pending")
    /\ UNCHANGED <<source, written, failed, retried, expired>>

\* The frame is written, though its owner may have given the request up.
Write(c) ==
    /\ status[c] \in Unsettled \cup Settled
    /\ c \notin written /\ failed = {}
    /\ written' = written \cup {c}
    /\ UNCHANGED <<status, source, failed, retried, expired>>

\* The answer to the frame of d is handed to the owner of c.
Answer(c, d) ==
    /\ d \in written
    /\ d = c \/ d \in retried \/ status[d] \in Settled
    /\ Move(c, Unsettled, "answered")
    /\ source' = [source EXCEPT ![c] = d]
    /\ UNCHANGED <<written, failed, retried, expired>>

\* The owner is told Closed.
Close(c) ==
    /\ expired \/ c \in failed
    /\ Move(c, Unsettled, "closed")
    /\ UNCHANGED <<source, written, failed, retried, expired>>

\* The owner asks, is told Closed, and keeps the handle.
Tell(c) ==
    /\ expired
    /\ Move(c, {"pending"}, "told")
    /\ UNCHANGED <<source, written, failed, retried, expired>>

\* The owner drops the handle, or the request never entered the channel.
Withdraw(c) ==
    /\ Move(c, Unsettled, "withdrawn")
    /\ UNCHANGED <<source, written, failed, retried, expired>>

\* A write fails, once at most, and not that of a written frame.
Fail(c) ==
    /\ status[c] \in Unsettled \cup Settled
    /\ c \notin written /\ failed = {}
    /\ failed' = {c}
    /\ UNCHANGED <<status, source, written, retried, expired>>

Expire ==
    /\ ~expired /\ expired' = TRUE
    /\ UNCHANGED <<status, source, written, failed, retried>>

Next ==
    \/ \E c \in Calls : \/ Retry(c) \/ Refuse(c) \/ Issue(c) \/ Write(c)
                        \/ Close(c) \/ Tell(c) \/ Withdraw(c) \/ Fail(c)
                        \/ \E d \in Calls : Answer(c, d)
    \/ Expire

Spec == Init /\ [][Next]_pvars
=============================================================================
