----------------------------- MODULE AnswerOnce -----------------------------
(***************************************************************************)
(* What the receiving side promises the peer about each of its requests,   *)
(* without inbounds, queues or threads: whoever gets hold of the right to  *)
(* answer has it alone; at most one answer goes out; and a request is      *)
(* given up without one only by an attempt that failed, by drop_request,   *)
(* or because its method cannot be read.                                   *)
(***************************************************************************)
EXTENDS Naturals, Sequences

CONSTANTS Requests,
          Answers   \* what may be sent: records with the request as field req

VARIABLES status,   \* "unread", "open", "answering", "answered", "lost", "dropped"
          log       \* the answers accepted for sending, in order

Move(r, from, to) ==
    /\ status[r] = from
    /\ status' = [status EXCEPT ![r] = to]

Init ==
    /\ status = [r \in Requests |-> "unread"]
    /\ log = << >>

Read(r) ==
    /\ Move(r, "unread", "open") \/ Move(r, "unread", "lost")
    /\ UNCHANGED log

\* The right to answer is taken, for an answer that can be encoded or not.
Claim(r) ==
    /\ Move(r, "open", "answering") \/ Move(r, "open", "lost")
    /\ UNCHANGED log

Answer(r) ==
    /\ Move(r, "answering", "answered")
    /\ \E a \in Answers : a.req = r /\ log' = Append(log, a)

Lose(r) == Move(r, "answering", "lost") /\ UNCHANGED log

Drop(r) == Move(r, "open", "dropped") /\ UNCHANGED log

Next == \E r \in Requests : Read(r) \/ Claim(r) \/ Answer(r) \/ Lose(r) \/ Drop(r)

Spec == Init /\ [][Next]_<<status, log>>
=============================================================================
