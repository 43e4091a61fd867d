----------------------------- MODULE Connection -----------------------------
(***************************************************************************)
(* The lifetime of a connection: who holds a strong reference to the       *)
(* RpcCore (rpc/core.rs), what the last release does, and how the two      *)
(* runners, which hold weak references, notice it.                         *)
(*                                                                         *)
(* The reader starts as a Receiver, which holds the core.  The first poll  *)
(* of into_weak_runner_task gives that reference up; from then on the      *)
(* reader polls two futures in either order (futures::select!): the loop   *)
(* that reads frames, and the signal that all handles were dropped.  Both  *)
(* upgrade their weak reference for a moment, and so does the writer: each *)
(* of them may thereby come to be the one that drops the core.             *)
(*                                                                         *)
(* What a frame or a directive holds does not matter here; see the modules *)
(* RequestContext and WriteRunner.                                         *)
(***************************************************************************)
EXTENDS Naturals

CONSTANTS
    Owners,     \* the places that may hold a reference: senders, inbounds,
                \* owned ReceiveResponses
    MaxFrames,  \* bound: frames that arrive
    MaxSends    \* bound: directives sent

ASSUME OwnersAssumption == Owners \cap {"receiver", "loop", "signal", "writer"} = {}
ASSUME BoundsAssumption == MaxFrames \in Nat /\ MaxSends \in Nat

VARIABLES
    strong,     \* who holds a strong reference
    core,       \* "alive", "dropping" and "closing" while it is dropped, "gone"
    dropper,    \* whose thread is dropping it
    waker,      \* RpcCore.r_wake_on_drop holds the waker of the reader
    woken,      \* the reader's task was woken since its last poll began
    rpc,        \* where the reader is
    todo,       \* the branches of select! still to poll
    readExit,   \* what the reader returned
    frames,     \* frames that have arrived and were not read
    arrived,    \* frames that have ever arrived
    eof,        \* the peer has closed its end
    wpc,        \* where the writer is
    failed,     \* the write of the request in hand failed
    directives, \* directives in the channel
    sends,      \* directives ever sent
    closed,     \* the channel is closed
    expired     \* the table of pending requests has expired

coreVars   == <<strong, core, dropper>>
wakeVars   == <<waker, woken>>
readerVars == <<rpc, todo, readExit>>
streamVars == <<frames, arrived, eof>>
writerVars == <<wpc, failed>>
chanVars   == <<directives, sends, closed>>
vars == <<coreVars, wakeVars, readerVars, streamVars, writerVars, chanVars, expired>>

Init ==
    /\ \/ strong = {"receiver"}                            \* build_server
       \/ \E o \in Owners : strong = {"receiver", o}       \* build_client
    /\ core = "alive" /\ dropper = "none"
    /\ waker = FALSE /\ woken = FALSE
    /\ rpc = "receiver" /\ todo = {} /\ readExit = "none"
    /\ frames = 0 /\ arrived = 0 /\ eof = FALSE
    /\ wpc = "recv" /\ failed = FALSE
    /\ directives = 0 /\ sends = 0 /\ closed = FALSE
    /\ expired = FALSE

-----------------------------------------------------------------------------
(* Arc and Weak                                                            *)

Upgradable == strong # {}

Acquire(who) == strong' = strong \cup {who} /\ UNCHANGED <<core, dropper>>

\* The release of the last reference begins the drop, in the same thread.
Release(who, thread) ==
    /\ strong' = strong \ {who}
    /\ IF strong' = {}
       THEN core' = "dropping" /\ dropper' = thread
       ELSE UNCHANGED <<core, dropper>>

\* Slip: the drop of the core wakes nobody.
CoreDropsQuietly ==
    /\ core = "dropping"
    /\ core' = "closing"
    /\ UNCHANGED <<strong, dropper, wakeVars, readerVars, streamVars, writerVars, chanVars,
                   expired>>

\* Drop for RpcCore wakes the reader first ...
CoreWakes ==
    /\ core = "dropping"
    /\ core' = "closing"
    /\ woken' = (woken \/ waker)
    /\ waker' = FALSE
    /\ UNCHANGED <<strong, dropper, readerVars, streamVars, writerVars, chanVars, expired>>

\* ... and then its fields go, with them the sending end of the channel.
CoreCloses ==
    /\ core = "closing"
    /\ core' = "gone"
    /\ dropper' = "none"
    /\ closed' = TRUE
    /\ UNCHANGED <<strong, wakeVars, readerVars, streamVars, writerVars, directives, sends,
                   expired>>

-----------------------------------------------------------------------------
(* Handles, and the peer                                                   *)

\* A handle is cloned, made by create_notify_sender, or upgraded from a
\* WeakNotifySender.
NewHandle(o) ==
    /\ o \notin strong
    /\ Upgradable
    /\ Acquire(o)
    /\ UNCHANGED <<wakeVars, readerVars, streamVars, writerVars, chanVars, expired>>

DropHandle(o) ==
    /\ o \in strong
    /\ Release(o, "user")
    /\ UNCHANGED <<wakeVars, readerVars, streamVars, writerVars, chanVars, expired>>

\* A holder queues a directive.
Send(o) ==
    /\ o \in strong
    /\ ~closed
    /\ sends < MaxSends
    /\ directives' = directives + 1
    /\ sends' = sends + 1
    /\ UNCHANGED <<coreVars, wakeVars, readerVars, streamVars, writerVars, closed, expired>>

FrameArrives ==
    /\ ~eof
    /\ arrived < MaxFrames
    /\ arrived' = arrived + 1
    /\ frames' = frames + 1
    /\ UNCHANGED <<coreVars, wakeVars, readerVars, eof, writerVars, chanVars, expired>>

StreamEnds ==
    /\ ~eof
    /\ eof' = TRUE
    /\ UNCHANGED <<coreVars, wakeVars, readerVars, frames, arrived, writerVars, chanVars, expired>>

-----------------------------------------------------------------------------
(* The Receiver                                                            *)

\* recv: a response is handled inside; anything else is returned as an
\* Inbound, which holds the core.
Recv ==
    /\ rpc = "receiver"
    /\ frames > 0
    /\ frames' = frames - 1
    /\ \/ UNCHANGED coreVars
       \/ \E o \in Owners \ strong : Acquire(o)
    /\ UNCHANGED <<wakeVars, readerVars, arrived, eof, writerVars, chanVars, expired>>

\* Drop for Receiver: the requests expire before the reference goes.
DropReceiver ==
    /\ rpc = "receiver"
    /\ rpc' = "dropped"
    /\ expired' = TRUE
    /\ UNCHANGED <<coreVars, wakeVars, todo, readExit, streamVars, writerVars, chanVars>>

ReleaseReceiver ==
    /\ rpc = "dropped"
    /\ rpc' = "gone"
    /\ Release("receiver", "user")
    /\ UNCHANGED <<wakeVars, todo, readExit, streamVars, writerVars, chanVars, expired>>

Branches == {"loop", "signal"}

\* Slip: the reader downgrades a clone and keeps the original.
WeakenClone ==
    /\ rpc = "receiver"
    /\ rpc' = "poll"
    /\ todo' = Branches
    /\ UNCHANGED <<coreVars, wakeVars, readExit, streamVars, writerVars, chanVars, expired>>

\* The first poll of into_weak_runner_task: core.take().
Weaken ==
    /\ rpc = "receiver"
    /\ rpc' = "poll"
    /\ todo' = Branches
    /\ Release("receiver", "reader")
    /\ UNCHANGED <<wakeVars, readExit, streamVars, writerVars, chanVars, expired>>

-----------------------------------------------------------------------------
(* into_weak_runner_task                                                   *)

ReaderAt(from) == dropper # "reader" /\ rpc = from

\* The executor polls the task again.
Poll ==
    /\ ReaderAt("sleep")
    /\ rpc' = "poll"
    /\ todo' = Branches
    /\ woken' = FALSE
    /\ UNCHANGED <<coreVars, waker, readExit, streamVars, writerVars, chanVars, expired>>

PollBranch(b) ==
    /\ ReaderAt("poll")
    /\ b \in todo
    /\ todo' = todo \ {b}
    /\ rpc' = b
    /\ UNCHANGED <<coreVars, wakeVars, readExit, streamVars, writerVars, chanVars, expired>>

\* Both branches are pending.
PollPending ==
    /\ ReaderAt("poll")
    /\ todo = {}
    /\ rpc' = "sleep"
    /\ UNCHANGED <<coreVars, wakeVars, todo, readExit, streamVars, writerVars, chanVars, expired>>

\* Slip: the counter of frames is decremented without a look.
NextUnchecked ==
    /\ ReaderAt("loop")
    /\ frames' = frames - 1
    /\ rpc' = "frame"
    /\ UNCHANGED <<coreVars, wakeVars, todo, readExit, arrived, eof, writerVars, chanVars, expired>>

NextFrame ==
    /\ ReaderAt("loop")
    /\ frames > 0
    /\ frames' = frames - 1
    /\ rpc' = "frame"
    /\ UNCHANGED <<coreVars, wakeVars, todo, readExit, arrived, eof, writerVars, chanVars, expired>>

NextPending ==
    /\ ReaderAt("loop")
    /\ frames = 0
    /\ ~eof
    /\ rpc' = "poll"
    /\ UNCHANGED <<coreVars, wakeVars, todo, readExit, streamVars, writerVars, chanVars, expired>>

\* The end of the stream.  An I/O error of read.next() leaves by `?` from the
\* same place; the two results are not told apart here.
NextEnd ==
    /\ ReaderAt("loop")
    /\ frames = 0
    /\ eof
    /\ rpc' = "gone"
    /\ readExit' = "Eof"
    /\ UNCHANGED <<coreVars, wakeVars, todo, streamVars, writerVars, chanVars, expired>>

\* Either branch upgrades; when that fails the runner returns.
Upgrade(from, who, to) ==
    /\ ReaderAt(from)
    /\ Upgradable
    /\ Acquire(who)
    /\ rpc' = to
    /\ UNCHANGED <<wakeVars, todo, readExit, streamVars, writerVars, chanVars, expired>>

UpgradeFails(from) ==
    /\ ReaderAt(from)
    /\ ~Upgradable
    /\ rpc' = "gone"
    /\ readExit' = "AllHandleDropped"
    /\ UNCHANGED <<coreVars, wakeVars, todo, streamVars, writerVars, chanVars, expired>>

\* handle_inbound_once, and on_inbound, which may keep the Inbound it is given.
HandleInbound ==
    /\ ReaderAt("handle")
    /\ rpc' = "handled"
    /\ \/ UNCHANGED coreVars
       \/ \E o \in Owners \ strong : Acquire(o)
    /\ UNCHANGED <<wakeVars, todo, readExit, streamVars, writerVars, chanVars, expired>>

\* The upgraded reference goes out of scope.
LetGo(from, who, to) ==
    /\ ReaderAt(from)
    /\ Release(who, "reader")
    /\ rpc' = to
    /\ UNCHANGED <<wakeVars, todo, readExit, streamVars, writerVars, chanVars, expired>>

\* register_wake_on_drop, while the upgraded reference is held.
Register ==
    /\ ReaderAt("register")
    /\ waker' = TRUE
    /\ rpc' = "registered"
    /\ UNCHANGED <<coreVars, woken, todo, readExit, streamVars, writerVars, chanVars, expired>>

\* The task is aborted between two polls: its future is dropped, and with it
\* the weak reference and the stream.
AbortReader ==
    /\ ReaderAt("sleep")
    /\ rpc' = "gone"
    /\ UNCHANGED <<coreVars, wakeVars, todo, readExit, streamVars, writerVars, chanVars, expired>>

LoopStep ==
    \/ NextFrame \/ NextPending \/ NextEnd
    \/ Upgrade("frame", "loop", "handle") \/ UpgradeFails("frame")
    \/ HandleInbound \/ LetGo("handled", "loop", "loop")

SignalStep ==
    \/ Upgrade("signal", "signal", "register") \/ UpgradeFails("signal")
    \/ Register \/ LetGo("registered", "signal", "poll")

ReaderStep == (\E b \in Branches : PollBranch(b)) \/ PollPending \/ LoopStep \/ SignalStep

-----------------------------------------------------------------------------
(* write_runner                                                            *)

WriterAt(from) == dropper # "writer" /\ wpc = from

\* A WriteReqMsg is written, or its write fails.
WriteRequest ==
    /\ WriterAt("recv")
    /\ directives > 0
    /\ directives' = directives - 1
    /\ failed' \in BOOLEAN
    /\ wpc' = "written"
    /\ UNCHANGED <<coreVars, wakeVars, readerVars, streamVars, sends, closed, expired>>

\* Any other directive: the runner goes on or ends, and some close the channel.
WriteOther ==
    /\ WriterAt("recv")
    /\ directives > 0
    /\ directives' = directives - 1
    /\ closed' \in {closed, TRUE}
    /\ wpc' \in {"recv", "exit"}
    /\ UNCHANGED <<coreVars, wakeVars, readerVars, streamVars, failed, sends, expired>>

\* The context of the request is upgraded after the write; when that fails,
\* so is its error forgotten.
UpgradeContext ==
    /\ WriterAt("written")
    /\ IF Upgradable
       THEN Acquire("writer") /\ wpc' = "context"
       ELSE wpc' = "recv" /\ UNCHANGED coreVars
    /\ UNCHANGED <<wakeVars, readerVars, streamVars, failed, chanVars, expired>>

\* set_request_write_failed, if it failed, and the context goes out of scope.
ReleaseContext ==
    /\ WriterAt("context")
    /\ Release("writer", "writer")
    /\ wpc' = IF failed THEN "exit" ELSE "recv"
    /\ UNCHANGED <<wakeVars, readerVars, streamVars, failed, chanVars, expired>>

\* The channel is closed and drained.
RecvEnd ==
    /\ WriterAt("recv")
    /\ directives = 0
    /\ closed
    /\ wpc' = "exit"
    /\ UNCHANGED <<coreVars, wakeVars, readerVars, streamVars, failed, chanVars, expired>>

\* Slip: the requests are expired only when a handle is left.
SealForHandles ==
    /\ WriterAt("exit")
    /\ IF strong \cap Owners # {}
       THEN Acquire("writer") /\ wpc' = "close"
       ELSE wpc' = "drop" /\ UNCHANGED coreVars
    /\ UNCHANGED <<wakeVars, readerVars, streamVars, failed, chanVars, expired>>

\* The end: when the core is there, the channel is closed and the requests are
\* expired, under an upgraded reference; else the runner just returns.
SealOrLeave ==
    /\ WriterAt("exit")
    /\ IF Upgradable
       THEN Acquire("writer") /\ wpc' = "close"
       ELSE wpc' = "drop" /\ UNCHANGED coreVars
    /\ UNCHANGED <<wakeVars, readerVars, streamVars, failed, chanVars, expired>>

CloseChannel ==
    /\ WriterAt("close")
    /\ closed' = TRUE
    /\ wpc' = "mark"
    /\ UNCHANGED <<coreVars, wakeVars, readerVars, streamVars, failed, directives, sends, expired>>

MarkExpired ==
    /\ WriterAt("mark")
    /\ expired' = TRUE
    /\ wpc' = "marked"
    /\ UNCHANGED <<coreVars, wakeVars, readerVars, streamVars, failed, chanVars>>

ReleaseSeal ==
    /\ WriterAt("marked")
    /\ Release("writer", "writer")
    /\ wpc' = "drop"
    /\ UNCHANGED <<wakeVars, readerVars, streamVars, failed, chanVars, expired>>

\* The task ends and its end of the channel goes, which closes it.
WriterEnds ==
    /\ WriterAt("drop")
    /\ closed' = TRUE
    /\ wpc' = "gone"
    /\ UNCHANGED <<coreVars, wakeVars, readerVars, streamVars, failed, directives, sends, expired>>

\* The future of write_runner is dropped while it awaits a directive or the
\* transport: its end of the channel goes, and nobody expires the requests.
AbortWriter ==
    /\ WriterAt("recv")
    /\ closed' = TRUE
    /\ wpc' = "aborted"
    /\ UNCHANGED <<coreVars, wakeVars, readerVars, streamVars, failed, directives, sends, expired>>

WriterStep ==
    \/ WriteRequest \/ WriteOther \/ UpgradeContext \/ ReleaseContext \/ RecvEnd
    \/ SealOrLeave \/ CloseChannel \/ MarkExpired \/ ReleaseSeal \/ WriterEnds

-----------------------------------------------------------------------------
CoreStep == CoreWakes \/ CoreCloses

UserStep == \E o \in Owners : NewHandle(o) \/ DropHandle(o) \/ Send(o)

PeerStep == FrameArrives \/ StreamEnds

ReceiverStep == Recv \/ DropReceiver \/ ReleaseReceiver \/ Weaken

Next ==
    \/ UserStep \/ PeerStep \/ ReceiverStep \/ Poll \/ ReaderStep \/ WriterStep \/ CoreStep
    \/ AbortReader \/ AbortWriter

Spec == Init /\ [][Next]_vars

\* The executor polls the reader when the core or the transport woke it.
PollWoken == (woken \/ frames > 0 \/ eof) /\ Poll

\* Both runners are spawned tasks: one that can go on does, and a poll that has
\* begun runs to its end.  A drop that has begun runs to its end.  Nobody has to
\* drop a handle or the Receiver, send anything, abort a runner, or poll the
\* reader unasked.
Fairness ==
    /\ WF_vars(CoreStep) /\ WF_vars(ReaderStep) /\ WF_vars(PollWoken)
    /\ WF_vars(WriterStep) /\ WF_vars(ReleaseReceiver)

FairSpec == Spec /\ Fairness

-----------------------------------------------------------------------------
(* Properties                                                              *)

ReaderPCs == {"receiver", "dropped", "poll", "loop", "frame", "handle", "handled",
              "signal", "register", "registered", "sleep", "gone"}
WriterPCs == {"recv", "written", "context", "exit", "close", "mark", "marked", "drop", "gone",
              "aborted"}

\* Every variable stays in its range.
TypeOK ==
    /\ strong \subseteq Owners \cup {"receiver", "loop", "signal", "writer"}
    /\ core \in {"alive", "dropping", "closing", "gone"}
    /\ dropper \in {"none", "user", "reader", "writer"}
    /\ waker \in BOOLEAN /\ woken \in BOOLEAN
    /\ rpc \in ReaderPCs
    /\ todo \subseteq Branches
    /\ readExit \in {"none", "Eof", "AllHandleDropped"}
    /\ frames \in Nat /\ arrived \in Nat /\ eof \in BOOLEAN
    /\ wpc \in WriterPCs /\ failed \in BOOLEAN
    /\ directives \in Nat /\ sends \in Nat /\ closed \in BOOLEAN
    /\ expired \in BOOLEAN

\* The core is dropped when, and only when, the last reference has gone, and
\* once: a weak handle or a runner that comes late gets none.
DropIsFinal == [][core # "alive" => core' # "alive" /\ strong' = {}]_vars

\* A reader that sleeps after the last handle was dropped has been woken, or
\* is about to be: whether the drop came before its waker was registered,
\* while it held the reference itself, or after.
DropSignalled == rpc = "sleep" /\ core # "alive" => woken \/ core = "dropping"

\* Between two polls, and after its end, a runner holds no reference: it never
\* keeps the connection alive that it waits to see dropped.
RunnersLetGo ==
    /\ rpc \in {"poll", "sleep", "gone"} => strong \cap {"receiver", "loop", "signal"} = {}
    /\ wpc \in {"recv", "gone", "aborted"} => "writer" \notin strong

\* The reader says AllHandleDropped only when that is so, for good.
ExitIsTrue == readExit = "AllHandleDropped" => strong = {}

\* The writer does not leave a usable connection behind: when it has gone and
\* anybody holds the core, the channel is closed and the requests expired, also
\* when handles come and go while it looks.
WriterSeals == wpc = "gone" /\ strong # {} => closed /\ expired

Ended == rpc = "gone" /\ wpc \in {"gone", "aborted"}

\* Somebody will take a step that nobody outside has to ask for.
InMotion ==
    \/ core \in {"dropping", "closing"}
    \/ rpc \notin {"receiver", "sleep", "gone"}
    \/ rpc = "sleep" /\ (woken \/ frames > 0 \/ eof)
    \/ wpc \notin {"recv", "gone", "aborted"}
    \/ wpc = "recv" /\ (directives > 0 \/ closed)

\* A connection nobody holds any more comes to rest only when both runners
\* have ended: neither the reader's waker nor the writer's wait on the channel
\* can leave one behind.
RestMeansEnded ==
    rpc # "receiver" /\ strong \cap Owners = {} /\ ~InMotion => Ended

\* When the last handle is dropped both runners return, unless a weak handle is
\* upgraded, or an inbound kept, before the core is gone.
OrphanEnds ==
    rpc # "receiver" /\ strong \cap Owners = {}
        ~> Ended \/ strong \cap Owners # {}

-----------------------------------------------------------------------------
(* The connection implements the lifetime of Lifetime                      *)

Life == INSTANCE Lifetime
          WITH holders <- strong \cap (Owners \cup {"receiver"}),
               alive <- strong # {},
               open <- ~closed,
               reader <- CASE rpc = "receiver" -> "value"
                           [] rpc = "dropped" -> "dropping"
                           [] rpc = "gone" -> "ended"
                           [] OTHER -> "running",
               why <- readExit,
               writer <- CASE wpc = "gone" -> "ended"
                           [] wpc = "aborted" -> "aborted"
                           [] OTHER -> "running"

\* The core lives exactly as long as somebody has use for it: it goes with the
\* last holder, or soon after when a runner had it in hand, and never comes
\* back; requests expire only behind the Receiver or a closed channel; a
\* runner says it was orphaned, or leaves without sealing, only when that is so.
LifetimeKept == Life!Spec
=============================================================================
