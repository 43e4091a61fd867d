----------------------------- MODULE WriteRunner -----------------------------
(***************************************************************************)
(* The write half of a connection: the handles that queue WriterDirectives *)
(* in the bounded channel (rpc/sender.rs) and the task that executes them  *)
(* on the transport (write_runner of rpc/core.rs).                         *)
(*                                                                         *)
(* A frame is named by the handle that queued it, the number of its        *)
(* message and its place in a burst; what the bytes are does not matter.   *)
(* The channel is async_channel: first in first out, `close` refuses new   *)
(* messages and keeps those already in it.  What expiry and a failed       *)
(* request do to the pending calls is the business of RequestContext.  The *)
(* future of the runner may be dropped where it waits (Abort).             *)
(*                                                                         *)
(* The Receiver holds the core too, until into_weak_runner_task runs, and  *)
(* its drop expires the requests while the runner writes on.               *)
(***************************************************************************)
EXTENDS Naturals, Sequences, FiniteSets

CONSTANTS
    Handles,    \* the NotifySender/RequestSender handles, strong references
    Receiver,   \* the Receiver value, one more strong reference
    Capacity,   \* writer_channel_capacity
    MaxSends,   \* bound: how many directives each handle queues
    Kinds,      \* the WriterDirectives the handles use
    HasReqs     \* the core has a RequestContext

ASSUME HandlesAssumption == IsFiniteSet(Handles) /\ Handles # {}
ASSUME ReceiverAssumption == Receiver \notin Handles
ASSUME CapacityAssumption == Capacity \in Nat \ {0}
ASSUME MaxSendsAssumption == MaxSends \in [Handles -> Nat]
ASSUME HasReqsAssumption == HasReqs \in BOOLEAN /\ ("request" \in Kinds => HasReqs)
ASSUME KindsAssumption ==
    Kinds \subseteq {"notify", "burst", "request", "flush", "closeAfterFlush", "closeNow"}

VARIABLES
    chan,       \* the directive channel
    closed,     \* the channel refuses new messages
    alive,      \* who holds the core: handles not dropped, the Receiver
    hpc,        \* where each handle is: "idle", "sending", "closing"
    msg,        \* the directive a handle is sending
    sends,      \* how many directives a handle has begun to send
    wpc,        \* where the runner is
    cur,        \* the directive the runner has in hand
    part,       \* which frame of it is next
    exit,       \* exit_type, or the error, the runner ends with
    wire,       \* the frames written to the transport, in order
    transport,  \* "open", or "closed" once writer.close() was called
    expired,    \* mark_expired was called
    accepted,   \* history: the frames of all messages taken by the channel
    lost,       \* history: how many frames failed and were passed over
    shutdown    \* history: a shutdown_writer has returned

handleVars == <<alive, hpc, msg, sends>>
runnerVars == <<wpc, cur, part, exit, wire, transport, expired, lost>>
vars == <<chan, closed, handleVars, runnerVars, accepted, shutdown>>

CloseKinds == {"closeAfterFlush", "closeNow"}

\* The frames of a directive: burst_into_directive makes WriteMsgBurst of two
\* packets or more, and two stand for all.  `at` is history: how many frames the
\* channel had taken before these.
FrameCount(kind) ==
    CASE kind \in {"notify", "request"} -> 1
      [] kind = "burst" -> 2
      [] OTHER -> 0

Directive(h, kind) ==
    [kind |-> kind, frames |-> [k \in 1 .. FrameCount(kind) |-> <<h, sends[h], k>>], at |-> 0]

Frames == UNION {{h} \X (0 .. MaxSends[h]) \X (1 .. 2) : h \in Handles}
Nothing == [kind |-> "nothing", frames |-> << >>, at |-> 0]

CoreAlive == alive # {}

Init ==
    /\ chan = << >>
    /\ closed = FALSE
    /\ alive = Handles \cup {Receiver}
    /\ hpc = [h \in Handles |-> "idle"]
    /\ msg = [h \in Handles |-> Nothing]
    /\ sends = [h \in Handles |-> 0]
    /\ wpc = "recv"
    /\ cur = Nothing
    /\ part = 1
    /\ exit = "AllHandleDropped"
    /\ wire = << >>
    /\ transport = "open"
    /\ expired = FALSE
    /\ accepted = << >>
    /\ lost = 0
    /\ shutdown = FALSE

-----------------------------------------------------------------------------
(* Handles                                                                 *)

\* send_notify, burst, send_request, flush_writer or shutdown_writer (or the
\* try_ form of one) offers a directive to the channel.  An expired table lets
\* no request be encoded.
Send(h, kind) ==
    /\ h \in alive
    /\ kind = "request" => ~expired
    /\ hpc[h] = "idle"
    /\ sends[h] < MaxSends[h]
    /\ sends' = [sends EXCEPT ![h] = @ + 1]
    /\ msg' = [msg EXCEPT ![h] = Directive(h, kind)]
    /\ hpc' = [hpc EXCEPT ![h] = "sending"]
    /\ UNCHANGED <<chan, closed, alive, runnerVars, accepted, shutdown>>

\* Slip: the capacity is not looked at.
AcceptAlways(h) ==
    /\ hpc[h] = "sending" /\ ~closed
    /\ chan' = Append(chan, [msg[h] EXCEPT !.at = Len(accepted)])
    /\ accepted' = accepted \o msg[h].frames
    /\ hpc' = [hpc EXCEPT ![h] = IF msg[h].kind \in CloseKinds THEN "closing" ELSE "idle"]
    /\ msg' = [msg EXCEPT ![h] = Nothing]
    /\ UNCHANGED <<closed, alive, sends, runnerVars, shutdown>>

\* The channel takes it.  A shutdown closes the channel next, in a step of its
\* own: others may get messages in behind the close directive.
Accept(h) ==
    /\ hpc[h] = "sending"
    /\ ~closed
    /\ Len(chan) < Capacity
    /\ chan' = Append(chan, [msg[h] EXCEPT !.at = Len(accepted)])
    /\ accepted' = accepted \o msg[h].frames
    /\ hpc' = [hpc EXCEPT ![h] = IF msg[h].kind \in CloseKinds THEN "closing" ELSE "idle"]
    /\ msg' = [msg EXCEPT ![h] = Nothing]
    /\ UNCHANGED <<closed, alive, sends, runnerVars, shutdown>>

\* The channel is closed: ChannelClosed.
Refuse(h) ==
    /\ hpc[h] = "sending"
    /\ closed
    /\ hpc' = [hpc EXCEPT ![h] = "idle"]
    /\ msg' = [msg EXCEPT ![h] = Nothing]
    /\ UNCHANGED <<chan, closed, alive, sends, runnerVars, accepted, shutdown>>

\* The channel is full: ChannelAtCapacity for the try_ form, and the future of
\* the other form may be dropped.
GiveUp(h) ==
    /\ hpc[h] = "sending"
    /\ ~closed
    /\ Len(chan) >= Capacity
    /\ hpc' = [hpc EXCEPT ![h] = "idle"]
    /\ msg' = [msg EXCEPT ![h] = Nothing]
    /\ UNCHANGED <<chan, closed, alive, sends, runnerVars, accepted, shutdown>>

\* Slip: closing is left to the runner.
CloseLater(h) ==
    /\ hpc[h] = "closing"
    /\ shutdown' = TRUE
    /\ hpc' = [hpc EXCEPT ![h] = "idle"]
    /\ UNCHANGED <<chan, closed, alive, msg, sends, runnerVars, accepted>>

\* The second half of shutdown_writer: tx_deferred.close().
CloseChannel(h) ==
    /\ hpc[h] = "closing"
    /\ closed' = TRUE
    /\ shutdown' = TRUE
    /\ hpc' = [hpc EXCEPT ![h] = "idle"]
    /\ UNCHANGED <<chan, alive, msg, sends, runnerVars, accepted>>

\* A handle is dropped; the last one takes the core with it, and the sending
\* end of the channel is part of the core.
DropHandle(h) ==
    /\ h \in alive
    /\ hpc[h] = "idle"
    /\ alive' = alive \ {h}
    /\ closed' = (closed \/ alive' = {})
    /\ UNCHANGED <<chan, hpc, msg, sends, runnerVars, accepted, shutdown>>

-----------------------------------------------------------------------------
(* The Receiver                                                            *)

ReleaseCore ==
    /\ Receiver \in alive
    /\ alive' = alive \ {Receiver}
    /\ closed' = (closed \/ alive' = {})
    /\ UNCHANGED <<chan, hpc, msg, sends, wpc, cur, part, exit, wire, transport, lost,
                   accepted, shutdown>>

\* Drop for Receiver calls mark_expired, whatever the write half is doing.
DropReceiver == ReleaseCore /\ expired' = (expired \/ HasReqs)

\* into_weak_runner_task takes the core out of it first, as the reader of every
\* client does, so nothing expires.
WeakenReceiver == ReleaseCore /\ UNCHANGED expired

-----------------------------------------------------------------------------
(* write_runner                                                            *)

\* The next directive is received, whether or not the channel is closed.
Recv(kinds, to) ==
    /\ wpc = "recv"
    /\ chan # << >>
    /\ Head(chan).kind \in kinds
    /\ cur' = IF to = "write" THEN Head(chan) ELSE Nothing
    /\ chan' = Tail(chan)
    /\ wpc' = to
    /\ UNCHANGED part

RecvMessage ==
    /\ Recv({"notify", "burst", "request"}, "write")
    /\ UNCHANGED <<closed, handleVars, exit, wire, transport, expired, lost, accepted, shutdown>>

RecvFlush ==
    /\ Recv({"flush"}, "flush")
    /\ UNCHANGED <<closed, handleVars, exit, wire, transport, expired, lost, accepted, shutdown>>

\* CloseImmediately: the channel is closed and the loop left; what is still in
\* the channel is neglected.
RecvCloseNow ==
    /\ Recv({"closeNow"}, "close")
    /\ closed' = TRUE
    /\ UNCHANGED <<handleVars, exit, wire, transport, expired, lost, accepted, shutdown>>

\* CloseAfterFlush: the channel is closed and the loop goes on.
RecvCloseAfterFlush ==
    /\ Recv({"closeAfterFlush"}, "recv")
    /\ closed' = TRUE
    /\ exit' = "ManualClose"
    /\ UNCHANGED <<handleVars, wire, transport, expired, lost, accepted, shutdown>>

\* Slip: the loop waits for the last handle.
EndWhenOrphaned ==
    /\ wpc = "recv" /\ chan = << >> /\ alive = {}
    /\ wpc' = "exit"
    /\ UNCHANGED <<chan, closed, handleVars, cur, part, exit, wire, transport, expired,
                   lost, accepted, shutdown>>

\* The channel is closed and empty: the loop ends.  The close after it is
\* guarded by an exit type the loop cannot end with.
RecvEnd ==
    /\ wpc = "recv"
    /\ chan = << >>
    /\ closed
    /\ wpc' = "exit"
    /\ UNCHANGED <<chan, closed, handleVars, cur, part, exit, wire, transport, expired,
                   lost, accepted, shutdown>>

\* After a frame: the next one of the burst, or the next directive.
NextPart ==
    \/ /\ part < Len(cur.frames)
       /\ part' = part + 1
       /\ UNCHANGED <<cur, wpc>>
    \/ /\ part = Len(cur.frames)
       /\ part' = 1 /\ cur' = Nothing /\ wpc' = "recv"

WriteFrame ==
    /\ wpc = "write"
    /\ wire' = Append(wire, cur.frames[part])
    /\ NextPart
    /\ UNCHANGED <<chan, closed, handleVars, exit, transport, expired, lost,
                   accepted, shutdown>>

\* A failed write ends the runner ...
WriteFails ==
    /\ wpc = "write"
    /\ cur.kind = "request" => CoreAlive
    /\ wpc' = "exit"
    /\ exit' = "WriteFailed"
    /\ UNCHANGED <<chan, closed, handleVars, cur, part, wire, transport, expired, lost,
                   accepted, shutdown>>

\* Slip: the writer goes on after any failed request.
SkipRequest ==
    /\ wpc = "write" /\ cur.kind = "request"
    /\ lost' = lost + 1
    /\ NextPart
    /\ UNCHANGED <<chan, closed, handleVars, exit, wire, transport, expired,
                   accepted, shutdown>>

\* ... unless it was a request and no handle is left: `continue`.
RequestDropped ==
    /\ wpc = "write"
    /\ cur.kind = "request" /\ ~CoreAlive
    /\ lost' = lost + 1
    /\ NextPart
    /\ UNCHANGED <<chan, closed, handleVars, exit, wire, transport, expired,
                   accepted, shutdown>>

Flush ==
    /\ wpc = "flush"
    /\ \/ wpc' = "recv" /\ UNCHANGED exit
       \/ wpc' = "exit" /\ exit' = "FlushFailed"
    /\ UNCHANGED <<chan, closed, handleVars, cur, part, wire, transport, expired, lost,
                   accepted, shutdown>>

CloseTransport ==
    /\ wpc = "close"
    /\ transport' = "closed"
    /\ wpc' = "exit"
    /\ exit' \in {"ManualCloseImmediate", "CloseFailed"}
    /\ UNCHANGED <<chan, closed, handleVars, cur, part, wire, expired, lost, accepted, shutdown>>

\* Slip: the channel is not closed.
MarkAtExit ==
    /\ wpc = "exit"
    /\ wpc' = IF HasReqs /\ CoreAlive THEN "mark" ELSE "done"
    /\ UNCHANGED <<chan, closed, handleVars, cur, part, exit, wire, transport, expired, lost,
                   accepted, shutdown>>

\* The end: when a handle is left and the core takes requests, the channel is
\* closed first and the requests expired after that.  The task drops its end
\* of the channel in any case.
CloseAtExit ==
    /\ wpc = "exit"
    /\ closed' = TRUE
    /\ wpc' = IF HasReqs /\ CoreAlive THEN "mark" ELSE "done"
    /\ UNCHANGED <<chan, handleVars, cur, part, exit, wire, transport, expired, lost,
                   accepted, shutdown>>

MarkExpired ==
    /\ wpc = "mark"
    /\ expired' = TRUE
    /\ wpc' = "done"
    /\ UNCHANGED <<chan, closed, handleVars, cur, part, exit, wire, transport, lost,
                   accepted, shutdown>>

\* Slip: the channel outlives the future.
AbortQuietly ==
    /\ wpc \in {"recv", "write", "flush", "close"}
    /\ wpc' = "aborted"
    /\ UNCHANGED <<chan, closed, handleVars, cur, part, exit, wire, transport, expired,
                   lost, accepted, shutdown>>

\* The task is aborted: its future is dropped at one of its awaits, and the
\* receiving end of the channel with it.  Nothing is expired.
Abort ==
    /\ wpc \in {"recv", "write", "flush", "close"}
    /\ wpc' = "aborted"
    /\ closed' = TRUE
    /\ UNCHANGED <<chan, handleVars, cur, part, exit, wire, transport, expired,
                   lost, accepted, shutdown>>

-----------------------------------------------------------------------------
Runner ==
    \/ RecvMessage \/ RecvFlush \/ RecvCloseNow \/ RecvCloseAfterFlush \/ RecvEnd
    \/ WriteFrame \/ WriteFails \/ RequestDropped \/ Flush \/ CloseTransport
    \/ CloseAtExit \/ MarkExpired

Handle(h) ==
    \/ \E kind \in Kinds : Send(h, kind)
    \/ Accept(h) \/ Refuse(h) \/ GiveUp(h) \/ CloseChannel(h) \/ DropHandle(h)

Next ==
    \/ Runner \/ Abort
    \/ DropReceiver \/ WeakenReceiver
    \/ \E h \in Handles : Handle(h)

Spec == Init /\ [][Next]_vars

\* The runner is a spawned task and the transport answers every write; a
\* waiting sender is resumed, and goes on when it is.  The channel serves its
\* waiters in turn, so one that finds room again and again gets it.  Nobody
\* has to send, give up, drop a handle or abort the task.
Fairness ==
    /\ WF_vars(Runner)
    /\ \A h \in Handles : SF_vars(Accept(h)) /\ WF_vars(Refuse(h)) /\ WF_vars(CloseChannel(h))

FairSpec == Spec /\ Fairness

-----------------------------------------------------------------------------
(* Properties                                                              *)

Exits == {"AllHandleDropped", "ManualClose", "ManualCloseImmediate",
          "WriteFailed", "FlushFailed", "CloseFailed"}

Graceful == exit \in {"ManualClose", "AllHandleDropped"}

\* Every variable stays in its range, and the channel within its capacity.
TypeOK ==
    /\ \A k \in 1 .. Len(chan) : chan[k].kind \in Kinds
    /\ Len(chan) <= Capacity
    /\ closed \in BOOLEAN
    /\ alive \subseteq Handles \cup {Receiver}
    /\ hpc \in [Handles -> {"idle", "sending", "closing"}]
    /\ DOMAIN msg = Handles
    /\ sends \in [Handles -> Nat] /\ \A h \in Handles : sends[h] <= MaxSends[h]
    /\ wpc \in {"recv", "write", "flush", "close", "exit", "mark", "done", "aborted"}
    /\ cur.kind \in Kinds \cup {"nothing"}
    /\ part \in 1 .. 2
    /\ exit \in Exits
    /\ wire \in Seq(Frames)
    /\ accepted \in Seq(Frames)
    /\ transport \in {"open", "closed"}
    /\ expired \in BOOLEAN
    /\ lost \in Nat
    /\ shutdown \in BOOLEAN

\* Once a shutdown_writer has returned, the channel takes nothing more,
\* whichever handle tries ("prevent further messages from being sent").
ShutdownIsFinal == [][shutdown => accepted' = accepted /\ Len(chan') <= Len(chan)]_vars

\* However the runner stops, the channel is closed.  When it has ended while
\* handles are left, the requests are expired as well: nobody can queue a
\* message, or wait for an answer to one, that no runner will ever see.  (An
\* aborted runner leaves the requests as they are.)
Stopped == wpc \in {"done", "aborted"}

ExitSeals ==
    /\ Stopped => closed
    /\ wpc = "done" /\ HasReqs /\ CoreAlive => expired

\* Requests expire in two ways: the Receiver is dropped, and then the writer may
\* write on and send the frames of calls that were told Closed; or the runner
\* has ended, and the channel is closed by then.  Behind a runner that is done,
\* no frame of any call is accepted or written any more.
ExpiryInOrder ==
    [][/\ expired' /\ ~expired => closed \/ (Receiver \in alive /\ Receiver \notin alive')
       /\ expired /\ wpc = "done" => UNCHANGED <<accepted, wire>>]_vars

\* A discarding shutdown ends the runner, and a flushing one drains it.
ShutdownCompletes == shutdown ~> Stopped

\* A sender waiting for room is let in or refused, also when the runner fails
\* or is aborted.
SendersReleased == \A h \in Handles : hpc[h] = "sending" ~> hpc[h] # "sending"

-----------------------------------------------------------------------------
(* The runner implements the outbox                                        *)

OutboxEnd ==
    IF ~Graceful \/ wpc \in {"close", "aborted"} THEN "cut"
    ELSE IF wpc \in {"exit", "mark", "done"} THEN "drained" ELSE "running"

Box == INSTANCE Outbox
         WITH log <- accepted, taken <- Len(wire) + lost, out <- wire,
              orphaned <- ~CoreAlive, open <- ~closed, end <- OutboxEnd

\* The frames that were accepted are on the wire in their order, each once; a
\* request whose write failed is passed over only when no handle is left; and
\* a runner that ends without an error, a discard or an abort has refused new
\* frames and leaves none behind, not even one that got in between a close
\* directive and the close of the channel.
OutboxKept == Box!Spec

-----------------------------------------------------------------------------
(* What the comments say and the code does not keep                        *)

\* shutdown_writer "will first flush all remaining data transfer request, then
\* will close the writer".
GracefulCloses == wpc = "done" /\ exit = "ManualClose" => transport = "closed"
=============================================================================
