---------------------------- MODULE InMemoryPipe ----------------------------
(***************************************************************************)
(* The in-memory transport (io.rs, mod in_memory): one InMemoryTx and one  *)
(* InMemoryRx around a lock-free queue, a counter of free places, a closed *)
(* flag and two AtomicWakers.  There is no mutex, so every access to one   *)
(* of them is a step of its own.                                           *)
(*                                                                         *)
(* Frames are numbered in the order they are sent.  A place in the queue   *)
(* and the counter change one after the other, hence the counter runs      *)
(* ahead of, or behind, the queue for a moment.  The accesses are taken to *)
(* be sequentially consistent: what one side must see after a wake-up it   *)
(* sees through the AtomicWaker, whose register and take synchronise.      *)
(***************************************************************************)
EXTENDS Naturals, Sequences

CONSTANTS
    Capacity,   \* the capacity given to in_memory
    MaxFrames   \* bound: frames sent

ASSUME PipeCapacityAssumption == Capacity \in Nat \ {0}
ASSUME MaxFramesAssumption == MaxFrames \in Nat

VARIABLES
    queue,      \* InMemoryInner.queue
    semaphore,  \* InMemoryInner.semaphore: free places
    closed,     \* InMemoryInner.closed
    wakers,     \* "tx": sig_ready_to_recv holds the waker of the sending task,
                \* "rx": sig_msg_sent holds that of the receiving task
    woken,      \* the tasks woken since their last poll
    tx, rx,     \* where the two tasks are
    pushed,     \* history: frames pushed into the queue
    refused,    \* history: a send was refused with BrokenPipe
    received,   \* history: frames handed to the reader, in order
    asked       \* history: how many frames had been pushed when the reader
                \* began its latest poll

txVars == <<tx, pushed, refused>>
rxVars == <<rx, received, asked>>
vars == <<queue, semaphore, closed, wakers, woken, txVars, rxVars>>

Init ==
    /\ queue = << >>
    /\ semaphore = Capacity
    /\ closed = FALSE
    /\ wakers = {}
    /\ woken = {}
    /\ tx = "idle" /\ rx = "idle"
    /\ pushed = 0 /\ refused = FALSE
    /\ received = << >> /\ asked = 0

\* take().wake() on the waker of one side.
Wake(side) ==
    /\ woken' = woken \cup ({side} \cap wakers)
    /\ wakers' = wakers \ {side}

-----------------------------------------------------------------------------
(* InMemoryTx                                                              *)

TxGoto(from, to) == tx = from /\ tx' = to

\* The task has a frame to send, or is polled again: poll_ready.
TxPoll ==
    /\ \/ tx = "idle" /\ pushed < MaxFrames
       \/ tx = "sleep"
    /\ tx' = "closed1"
    /\ woken' = woken \ {"tx"}
    /\ UNCHANGED <<queue, semaphore, closed, wakers, pushed, refused, rxVars>>

\* check_ready!, first line: BrokenPipe when the pipe is closed.
TxCheckClosed(from, to) ==
    /\ tx = from
    /\ tx' = IF closed THEN "idle" ELSE to
    /\ refused' = (refused \/ closed)
    /\ UNCHANGED <<queue, semaphore, closed, wakers, woken, pushed, rxVars>>

\* Slip: a boundary off by one.
TxCheckRoomLoose(from, to) ==
    /\ tx = from
    /\ tx' = IF semaphore >= 0 THEN "push" ELSE to
    /\ UNCHANGED <<queue, semaphore, closed, wakers, woken, pushed, refused, rxVars>>

\* check_ready!, second line: there is room.
TxCheckRoom(from, to) ==
    /\ tx = from
    /\ tx' = IF semaphore > 0 THEN "push" ELSE to
    /\ UNCHANGED <<queue, semaphore, closed, wakers, woken, pushed, refused, rxVars>>

TxRegister ==
    /\ TxGoto("register", "closed2")
    /\ wakers' = wakers \cup {"tx"}
    /\ UNCHANGED <<queue, semaphore, closed, woken, pushed, refused, rxVars>>

\* start_send: push; a full queue makes it spin.
TxPush ==
    /\ TxGoto("push", "sub")
    /\ Len(queue) < Capacity
    /\ queue' = Append(queue, pushed + 1)
    /\ pushed' = pushed + 1
    /\ UNCHANGED <<semaphore, closed, wakers, woken, refused, rxVars>>

TxSub ==
    /\ TxGoto("sub", "wake")
    /\ semaphore' = semaphore - 1
    /\ UNCHANGED <<queue, closed, wakers, woken, pushed, refused, rxVars>>

\* Slip: the frame is sent and the receiver not woken.
TxWakeNobody ==
    /\ TxGoto("wake", "idle")
    /\ UNCHANGED <<queue, semaphore, closed, wakers, woken, pushed, refused, rxVars>>

TxWake ==
    /\ TxGoto("wake", "idle")
    /\ Wake("rx")
    /\ UNCHANGED <<queue, semaphore, closed, pushed, refused, rxVars>>

\* poll_close or Drop, between two frames or while it waits for room.
TxClose ==
    /\ tx \in {"idle", "sleep"}
    /\ tx' = "closing"
    /\ closed' = TRUE
    /\ UNCHANGED <<queue, semaphore, wakers, woken, pushed, refused, rxVars>>

\* Slip: closing wakes nobody.
TxCloseQuietly ==
    /\ TxGoto("closing", "gone")
    /\ UNCHANGED <<queue, semaphore, closed, wakers, woken, pushed, refused, rxVars>>

TxCloseWake ==
    /\ TxGoto("closing", "gone")
    /\ Wake("rx")
    /\ UNCHANGED <<queue, semaphore, closed, pushed, refused, rxVars>>

TxStep ==
    \/ TxCheckClosed("closed1", "room1") \/ TxCheckRoom("room1", "register")
    \/ TxRegister
    \/ TxCheckClosed("closed2", "room2") \/ TxCheckRoom("room2", "sleep")
    \/ TxPush \/ TxSub \/ TxWake \/ TxCloseWake

-----------------------------------------------------------------------------
(* InMemoryRx                                                              *)

\* Slip: the closed flag is looked at before the queue.
RxPollClosedFirst ==
    /\ rx \in {"idle", "sleep"}
    /\ rx' = "closed1"
    /\ asked' = pushed
    /\ woken' = woken \ {"rx"}
    /\ UNCHANGED <<queue, semaphore, closed, wakers, received, txVars>>

\* The reader asks for a frame, or is polled again: poll_read_frame.
RxPoll ==
    /\ rx \in {"idle", "sleep"}
    /\ rx' = "pop1"
    /\ asked' = pushed
    /\ woken' = woken \ {"rx"}
    /\ UNCHANGED <<queue, semaphore, closed, wakers, received, txVars>>

\* try_recv!, first line: pop.
RxPop(from, to) ==
    /\ rx = from
    /\ IF queue # << >>
       THEN /\ received' = Append(received, Head(queue))
            /\ queue' = Tail(queue)
            /\ rx' = "add"
       ELSE /\ rx' = to
            /\ UNCHANGED <<queue, received>>
    /\ UNCHANGED <<semaphore, closed, wakers, woken, asked, txVars>>

\* Slip: the place is not given back.
RxAddNothing ==
    /\ rx = "add"
    /\ rx' = "wake"
    /\ UNCHANGED <<queue, semaphore, closed, wakers, woken, received, asked, txVars>>

RxAdd ==
    /\ rx = "add"
    /\ rx' = "wake"
    /\ semaphore' = semaphore + 1
    /\ UNCHANGED <<queue, closed, wakers, woken, received, asked, txVars>>

\* Slip: the place is given back and the sender not woken.
RxWakeNobody ==
    /\ rx = "wake"
    /\ rx' = "idle"
    /\ UNCHANGED <<queue, semaphore, closed, wakers, woken, received, asked, txVars>>

\* The sender is woken, and the frame returned.
RxWake ==
    /\ rx = "wake"
    /\ rx' = "idle"
    /\ Wake("tx")
    /\ UNCHANGED <<queue, semaphore, closed, received, asked, txVars>>

\* try_recv!, after an empty queue: Ok(None) when the pipe is closed, and the
\* reader stops.
RxCheckClosed(from, to) ==
    /\ rx = from
    /\ rx' = IF closed THEN "eof" ELSE to
    /\ UNCHANGED <<queue, semaphore, closed, wakers, woken, received, asked, txVars>>

\* Slip: no second look after the waker is registered.
RxRegisterAndSleep ==
    /\ rx = "register"
    /\ rx' = "sleep"
    /\ wakers' = wakers \cup {"rx"}
    /\ UNCHANGED <<queue, semaphore, closed, woken, received, asked, txVars>>

RxRegister ==
    /\ rx = "register"
    /\ rx' = "pop2"
    /\ wakers' = wakers \cup {"rx"}
    /\ UNCHANGED <<queue, semaphore, closed, woken, received, asked, txVars>>

\* Drop for InMemoryRx.
RxDrop ==
    /\ rx \in {"idle", "sleep", "eof"}
    /\ rx' = "dropping"
    /\ closed' = TRUE
    /\ UNCHANGED <<queue, semaphore, wakers, woken, received, asked, txVars>>

RxDropWake ==
    /\ rx = "dropping"
    /\ rx' = "gone"
    /\ Wake("tx")
    /\ UNCHANGED <<queue, semaphore, closed, received, asked, txVars>>

RxStep ==
    \/ RxPop("pop1", "closed1") \/ RxCheckClosed("closed1", "register")
    \/ RxRegister
    \/ RxPop("pop2", "closed2") \/ RxCheckClosed("closed2", "sleep")
    \/ RxAdd \/ RxWake \/ RxDropWake

-----------------------------------------------------------------------------
Next == TxPoll \/ TxStep \/ TxClose \/ RxPoll \/ RxStep \/ RxDrop

Spec == Init /\ [][Next]_vars

\* A poll runs to its end, a woken task is polled, and the reader asks for the
\* next frame as soon as it has one.  Nobody has to send, close or drop.
Fairness ==
    /\ WF_vars(TxStep) /\ WF_vars(tx = "sleep" /\ "tx" \in woken /\ TxPoll)
    /\ WF_vars(RxStep) /\ WF_vars((rx = "idle" \/ "rx" \in woken) /\ RxPoll)

FairSpec == Spec /\ Fairness

-----------------------------------------------------------------------------
(* Properties                                                              *)

\* Every variable stays in its range.
TypeOK ==
    /\ queue \in Seq(Nat)
    /\ semaphore \in Nat
    /\ closed \in BOOLEAN
    /\ wakers \subseteq {"tx", "rx"}
    /\ woken \subseteq {"tx", "rx"}
    /\ tx \in {"idle", "closed1", "room1", "register", "closed2", "room2", "sleep",
               "push", "sub", "wake", "closing", "gone"}
    /\ rx \in {"idle", "pop1", "closed1", "register", "pop2", "closed2", "sleep",
               "add", "wake", "eof", "dropping", "gone"}
    /\ pushed \in Nat /\ refused \in BOOLEAN
    /\ received \in Seq(Nat) /\ asked \in Nat

\* The counter of free places is exact, up to a frame that was pushed and not
\* yet subtracted and one that was popped and not yet added.  It never falls
\* below zero, where it would wrap around.
SemaphoreExact ==
    semaphore + Len(queue) + (IF rx = "add" THEN 1 ELSE 0)
        = Capacity + (IF tx = "sub" THEN 1 ELSE 0)

\* start_send never finds the queue full, so its loop never spins, although
\* it tests the counter and not the queue, and in an earlier call.
NeverSpins == tx = "push" => Len(queue) < Capacity

\* Frames come out in the order they went in, none twice and none left out.
InOrder == \A k \in 1 .. Len(received \o queue) : (received \o queue)[k] = k

\* Neither side sleeps on news: a sleeping receiver with a frame in the queue
\* or a closed pipe, and a sleeping sender with room or a closed pipe, was
\* woken or the other side is about to wake it.
NoLostWakeup ==
    /\ rx = "sleep" /\ (queue # << >> \/ closed) =>
          "rx" \in woken \/ tx \in {"sub", "wake", "closing"}
    /\ tx = "sleep" /\ (semaphore > 0 \/ closed) =>
          "tx" \in woken \/ rx \in {"wake", "dropping"}

\* Sender and reader never wait for each other: when both sleep, one of them
\* was woken and not polled yet.  This takes the counter and both wakers.
NeverBothAsleep == tx = "sleep" /\ rx = "sleep" => woken # {}

\* Frames that were in the pipe when the reader asked for one are not lost to
\* the end of the stream: next() looks into the queue first, and a frame it
\* then misses was pushed while it was looking.
EndMissesNothingOld == rx = "eof" => Len(received) >= asked

\* A frame in the pipe is received, unless the pipe is closed first.
FramesArrive == \A n \in 1 .. MaxFrames : pushed >= n ~> (Len(received) >= n \/ closed)

\* A sender that waits for room gets it, or learns that the reader has gone.
SenderReleased == tx = "sleep" ~> tx # "sleep"

\* When the sender has gone the reader comes to the end of the stream.
EndReached == tx = "gone" ~> rx \in {"eof", "gone"}

-----------------------------------------------------------------------------
(* The pipe implements the bounded queue of FramePipe                      *)

Frames == INSTANCE FramePipe
            WITH inside <- queue, handed <- received,
                 sender <- IF tx \in {"closing", "gone"} THEN "gone" ELSE "open",
                 reader <- CASE rx = "eof" -> "ended"
                             [] rx \in {"dropping", "gone"} -> "gone"
                             [] OTHER -> "reading"

\* Frames go through once and in order, never more than Capacity of them at a
\* time; nothing is put in after the sender has closed or was refused; only
\* the other end's going ends the stream or refuses a send, although both
\* ends share one closed flag.
FramesKept == Frames!Spec

-----------------------------------------------------------------------------
(* What the comments say and the code does not keep                        *)

\* next() "will return Ok(None) if it was gracefully closed", and it looks into
\* the queue before: the end of the stream comes after the last frame.
EofAfterLastFrame == rx = "eof" => queue = << >>
=============================================================================
