--------------------------- MODULE RequestContext ---------------------------
(***************************************************************************)
(* The table of pending requests of one connection (rpc/req_rep.rs) and    *)
(* everybody who touches it: the calls that register in it through         *)
(* RequestSender::encode_request and wait on a ReceiveResponse handle, the *)
(* reader that stores responses, and the writer that reports a failed      *)
(* write and expires the table when it stops.                              *)
(*                                                                         *)
(* Every process takes a step of its own wherever another thread can run   *)
(* in between: the wait_list mutex, the response mutex of one waiter, the  *)
(* AtomicWaker and the `expired` flag are acquired and released one after  *)
(* the other by the code, never together, except that mark_expired wakes   *)
(* the waiters while it holds the wait_list mutex.                         *)
(*                                                                         *)
(* A call is used once.  The core outlives the calls (a handle owns a      *)
(* reference to it), so the `upgrade` of the writer succeeds here; module  *)
(* Connection is about the lifetime of the core.  Payloads, methods and    *)
(* error codes are abstracted to the call whose frame was answered.        *)
(***************************************************************************)
EXTENDS Naturals, Sequences

CONSTANTS
    Calls,              \* the requests made over the life of the connection
    Ids,                \* the values RequestId::generate can return
    MaxRetry,           \* MAX_RETRY_HEURISTIC (4 in the code)
    ReceiverHoldsCore,  \* TRUE: server side, the reader is a Receiver value;
                        \* FALSE: client side, into_weak_runner_task took the
                        \* core out of it
    NoCall, NoId        \* not a call, not an identifier

ASSUME CallsAssumption == NoCall \notin Calls
ASSUME IdsAssumption == NoId \notin Ids
ASSUME MaxRetryAssumption == MaxRetry \in Nat \ {0}
ASSUME ReceiverAssumption == ReceiverHoldsCore \in BOOLEAN

VARIABLES
    expired,    \* RequestContext.expired
    waitList,   \* RequestContext.wait_list: id -> the call whose waiter it holds
    lockedBy,   \* who holds the wait_list mutex across steps (mark_expired)
    toWake,     \* the waiters mark_expired has still to wake
    response,   \* Waiter.response, one slot per call
    answer,     \* the call whose frame the Ready payload of the slot answers
    waker,      \* calls whose AtomicWaker holds a waker
    woken,      \* calls whose task was woken since it was last polled
    pc,         \* where the task of a call is
    id,         \* the id the call registered under
    frame,      \* the id the receiver of the encoded bytes reads from them
    tries,      \* how often encode_request has gone round its loop
    result,     \* what the owner of the call was told last
    got,        \* the call whose answer was handed to the owner
    queue,      \* the WriteReqMsg directives in the channel
    sent,       \* calls whose frame was written to the transport
    chanOpen,   \* the directive channel accepts messages
    wpc,        \* where the reader and the writer are
    target,     \* the waiter the reader or the writer looked up
    data        \* the call whose answer the reader is storing

callVars   == <<pc, id, frame, tries, result, got>>
slotVars   == <<response, answer>>
wakeVars   == <<waker, woken>>
tableVars  == <<expired, waitList, lockedBy, toWake>>
chanVars   == <<queue, sent, chanOpen>>
workerVars == <<wpc, target, data>>
vars == <<tableVars, slotVars, wakeVars, callVars, chanVars, workerVars>>

Workers == {"reader", "writer"}

\* Between registration and free_request_id.
Registered == {"send", "held", "parked", "poll", "pollExpired", "tryExpired", "unregister"}

\* The owner is not inside a method of the handle.
Owned == {"held", "parked"}

Init ==
    /\ expired = FALSE
    /\ waitList = [i \in Ids |-> NoCall]
    /\ lockedBy = "none"
    /\ toWake = {}
    /\ response = [c \in Calls |-> "None"]
    /\ answer = [c \in Calls |-> NoCall]
    /\ waker = {}
    /\ woken = {}
    /\ pc = [c \in Calls |-> "idle"]
    /\ id = [c \in Calls |-> NoId]
    /\ frame = [c \in Calls |-> NoId]
    /\ tries = [c \in Calls |-> 0]
    /\ result = [c \in Calls |-> "none"]
    /\ got = [c \in Calls |-> NoCall]
    /\ queue = << >>
    /\ sent = {}
    /\ chanOpen = TRUE
    /\ wpc = [w \in Workers |-> "run"]
    /\ target = [w \in Workers |-> NoCall]
    /\ data = NoCall

LockFree == lockedBy = "none"

\* AtomicWaker::wake: takes the registered waker, if any, and wakes its task.
Wake(c) ==
    /\ woken' = woken \cup ({c} \cap waker)
    /\ waker' = waker \ {c}

-----------------------------------------------------------------------------
(* encode_request and send_request                                         *)

\* encode_request returns None: the table expired before this attempt.
ReturnExpired(c) ==
    /\ pc[c] = "idle"
    /\ tries[c] < MaxRetry
    /\ expired
    /\ pc' = [pc EXCEPT ![c] = "done"]
    /\ result' = [result EXCEPT ![c] = "ReceiverExpired"]
    /\ UNCHANGED <<tableVars, slotVars, wakeVars, id, frame, tries, got,
                   chanVars, workerVars>>

\* Slip: the attempts are not counted.
EncodeForever(c, i) ==
    /\ pc[c] = "idle" /\ ~expired
    /\ pc' = [pc EXCEPT ![c] = "allocate"]
    /\ id' = [id EXCEPT ![c] = i]
    /\ frame' = [frame EXCEPT ![c] = i]
    /\ tries' = [tries EXCEPT ![c] = tries[c] + 1]
    /\ UNCHANGED <<tableVars, slotVars, wakeVars, result, got, chanVars, workerVars>>

\* One attempt: a candidate id is drawn and the frame encoded under it.  The
\* buffer is cleared before the loop only, so a second attempt appends to the
\* bytes of the first, and a decoder that reads one message meets the first id.
Encode(c, i) ==
    /\ pc[c] = "idle"
    /\ tries[c] < MaxRetry
    /\ ~expired
    /\ pc' = [pc EXCEPT ![c] = "allocate"]
    /\ id' = [id EXCEPT ![c] = i]
    /\ frame' = [frame EXCEPT ![c] = IF frame[c] = NoId THEN i ELSE frame[c]]
    /\ tries' = [tries EXCEPT ![c] = tries[c] + 1]
    /\ UNCHANGED <<tableVars, slotVars, wakeVars, result, got, chanVars, workerVars>>

\* The codec refuses the parameters, or all attempts collided.
EncodeFails(c) ==
    /\ pc[c] = "idle"
    /\ tries[c] < MaxRetry => ~expired
    /\ pc' = [pc EXCEPT ![c] = "done"]
    /\ result' = [result EXCEPT ![c] = "EncodeFailed"]
    /\ UNCHANGED <<tableVars, slotVars, wakeVars, id, frame, tries, got,
                   chanVars, workerVars>>

\* try_allocate_new_request inserts the waiter under the wait_list mutex.
Allocate(c) ==
    /\ pc[c] = "allocate"
    /\ LockFree
    /\ ~expired
    /\ waitList[id[c]] = NoCall
    /\ waitList' = [waitList EXCEPT ![id[c]] = c]
    /\ pc' = [pc EXCEPT ![c] = "send"]
    /\ UNCHANGED <<expired, lockedBy, toWake, slotVars, wakeVars, id, frame,
                   tries, result, got, chanVars, workerVars>>

\* try_allocate_new_request returns None; encode_request goes round again.
AllocateFails(c) ==
    /\ pc[c] = "allocate"
    /\ LockFree
    /\ expired \/ waitList[id[c]] # NoCall
    /\ pc' = [pc EXCEPT ![c] = "idle"]
    /\ UNCHANGED <<tableVars, slotVars, wakeVars, id, frame, tries, result,
                   got, chanVars, workerVars>>

\* The channel takes the WriteReqMsg; the caller has its ReceiveResponse.
Enqueue(c) ==
    /\ pc[c] = "send"
    /\ chanOpen
    /\ queue' = Append(queue, c)
    /\ pc' = [pc EXCEPT ![c] = "held"]
    /\ UNCHANGED <<tableVars, slotVars, wakeVars, id, frame, tries, result,
                   got, sent, chanOpen, workerVars>>

\* The channel is closed, or full (try_send_request), or the future of
\* send_request is dropped while it waits for room: `?` drops the handle.
SendFails(c) ==
    /\ pc[c] = "send"
    /\ pc' = [pc EXCEPT ![c] = "unregister"]
    /\ result' = [result EXCEPT ![c] = "SendFailed"]
    /\ UNCHANGED <<tableVars, slotVars, wakeVars, id, frame, tries, got,
                   chanVars, workerVars>>

-----------------------------------------------------------------------------
(* ReceiveResponse: poll, try_recv, drop                                   *)

\* Slip: a poll does not register the waker.
PollUnregistered(c) ==
    /\ pc[c] \in Owned
    /\ pc' = [pc EXCEPT ![c] = "poll"]
    /\ woken' = woken \ {c}
    /\ UNCHANGED <<tableVars, slotVars, waker, id, frame, tries, result, got,
                   chanVars, workerVars>>

\* The executor polls the handle (after a wake-up or on its own account):
\* the waker is registered before the slot is read.  A handle whose response was
\* taken has unregistered and is "done" here: a poll of it returns Empty, changes
\* nothing, and is no step.
PollStart(c) ==
    /\ pc[c] \in Owned
    /\ pc' = [pc EXCEPT ![c] = "poll"]
    /\ waker' = waker \cup {c}
    /\ woken' = woken \ {c}
    /\ UNCHANGED <<tableVars, slotVars, id, frame, tries, result, got,
                   chanVars, workerVars>>

\* Receive::poll finds no response yet.
FindNone(c, from, to) ==
    /\ pc[c] \in from
    /\ response[c] = "None"
    /\ pc' = [pc EXCEPT ![c] = to]
    /\ UNCHANGED <<tableVars, slotVars, wakeVars, id, frame, tries, result,
                   got, chanVars, workerVars>>

PollNone(c) == FindNone(c, {"poll"}, "pollExpired")
TryNone(c)  == FindNone(c, Owned, "tryExpired")

\* Slip: the handle that has taken its answer can be polled again.
TakeAndStay(c) ==
    /\ pc[c] \in {"poll"} \cup Owned
    /\ response[c] = "Ready"
    /\ response' = [response EXCEPT ![c] = "PendingRemove"]
    /\ got' = [got EXCEPT ![c] = answer[c]]
    /\ pc' = [pc EXCEPT ![c] = "held"]
    /\ UNCHANGED <<tableVars, answer, wakeVars, id, frame, tries, result,
                   chanVars, workerVars>>

\* Receive::poll takes the response, from `poll` or from `try_recv`.
TakeReady(c) ==
    /\ pc[c] \in {"poll"} \cup Owned
    /\ response[c] = "Ready"
    /\ response' = [response EXCEPT ![c] = "PendingRemove"]
    /\ got' = [got EXCEPT ![c] = answer[c]]
    /\ result' = [result EXCEPT ![c] = "Answered"]
    /\ pc' = [pc EXCEPT ![c] = "unregister"]
    /\ UNCHANGED <<tableVars, answer, wakeVars, id, frame, tries, chanVars, workerVars>>

\* The write failed: both `poll` and `try_recv` return Closed.
TakeFailed(c) ==
    /\ pc[c] \in {"poll"} \cup Owned
    /\ response[c] = "WriteFailed"
    /\ result' = [result EXCEPT ![c] = "Closed"]
    /\ pc' = [pc EXCEPT ![c] = "unregister"]
    /\ UNCHANGED <<tableVars, slotVars, wakeVars, id, frame, tries, got,
                   chanVars, workerVars>>

\* Slip: an empty slot is taken for a closed connection.
PollGivesUp(c) ==
    /\ pc[c] = "pollExpired"
    /\ result' = [result EXCEPT ![c] = "Closed"]
    /\ pc' = [pc EXCEPT ![c] = "unregister"]
    /\ UNCHANGED <<tableVars, slotVars, wakeVars, id, frame, tries, got,
                   chanVars, workerVars>>

\* `poll`, after an empty slot: the table has expired.
PollExpired(c) ==
    /\ pc[c] = "pollExpired"
    /\ expired
    /\ result' = [result EXCEPT ![c] = "Closed"]
    /\ pc' = [pc EXCEPT ![c] = "unregister"]
    /\ UNCHANGED <<tableVars, slotVars, wakeVars, id, frame, tries, got,
                   chanVars, workerVars>>

\* `poll`, after an empty slot: Poll::Pending; the task sleeps.
PollPending(c) ==
    /\ pc[c] = "pollExpired"
    /\ ~expired
    /\ pc' = [pc EXCEPT ![c] = "parked"]
    /\ UNCHANGED <<tableVars, slotVars, wakeVars, id, frame, tries, result,
                   got, chanVars, workerVars>>

\* `try_recv`, after an empty slot: Closed or Empty.  The handle stays
\* registered either way, so an answer stored meanwhile can still be taken.
TryReturn(c) ==
    /\ pc[c] = "tryExpired"
    /\ result' = [result EXCEPT ![c] = IF expired THEN "TriedClosed" ELSE @]
    /\ pc' = [pc EXCEPT ![c] = "held"]
    /\ UNCHANGED <<tableVars, slotVars, wakeVars, id, frame, tries,
                   got, chanVars, workerVars>>

\* The owner drops the handle without a result.
DropHandle(c) ==
    /\ pc[c] \in Owned
    /\ result' = [result EXCEPT ![c] = "Dropped"]
    /\ pc' = [pc EXCEPT ![c] = "unregister"]
    /\ UNCHANGED <<tableVars, slotVars, wakeVars, id, frame, tries, got,
                   chanVars, workerVars>>

\* Slip: the entry stays in the table.
UnregisterLeaks(c) ==
    /\ pc[c] = "unregister" /\ LockFree
    /\ waker' = waker \ {c}
    /\ pc' = [pc EXCEPT ![c] = "done"]
    /\ UNCHANGED <<tableVars, slotVars, woken, id, frame, tries, result, got,
                   chanVars, workerVars>>

\* try_unregister: the waker is taken, then free_request_id removes the entry
\* under the wait_list mutex.
Unregister(c) ==
    /\ pc[c] = "unregister"
    /\ LockFree
    /\ waker' = waker \ {c}
    /\ waitList' = [waitList EXCEPT ![id[c]] = NoCall]
    /\ pc' = [pc EXCEPT ![c] = "done"]
    /\ UNCHANGED <<expired, lockedBy, toWake, slotVars, woken, id, frame, tries,
                   result, got, chanVars, workerVars>>

-----------------------------------------------------------------------------
(* The reader: handle_inbound_once calls set_response                      *)

\* Slip: the response goes to some pending request, whatever its id.
RecvForAnyone(c) ==
    /\ wpc["reader"] = "run" /\ c \in sent /\ LockFree
    /\ \E i \in Ids : /\ waitList[i] # NoCall
                      /\ target' = [target EXCEPT !["reader"] = waitList[i]]
    /\ data' = c
    /\ wpc' = [wpc EXCEPT !["reader"] = "check"]
    /\ UNCHANGED <<tableVars, slotVars, wakeVars, callVars, chanVars>>

\* A response to the frame of call c arrives (perhaps not for the first time)
\* and set_response looks its id up.  An unknown id changes nothing here: it
\* is reported as UnhandledResponse.
RecvResponse(c) ==
    /\ wpc["reader"] = "run"
    /\ c \in sent
    /\ LockFree
    /\ waitList[frame[c]] # NoCall
    /\ target' = [target EXCEPT !["reader"] = waitList[frame[c]]]
    /\ data' = c
    /\ wpc' = [wpc EXCEPT !["reader"] = "check"]
    /\ UNCHANGED <<tableVars, slotVars, wakeVars, callVars, chanVars>>

\* set_response, after the lookup: an expired table refuses the response.
CheckExpired ==
    /\ wpc["reader"] = "check"
    /\ wpc' = [wpc EXCEPT !["reader"] = IF expired THEN "run" ELSE "store"]
    /\ UNCHANGED <<tableVars, slotVars, wakeVars, callVars, chanVars, target, data>>

\* The slot is overwritten when it is None or Ready, else left alone.
StoreResponse ==
    /\ wpc["reader"] = "store"
    /\ LET t == target["reader"]
           fresh == response[t] \in {"None", "Ready"}
       IN  /\ response' = [response EXCEPT ![t] = IF fresh THEN "Ready" ELSE @]
           /\ answer' = [answer EXCEPT ![t] = IF fresh THEN data ELSE @]
    /\ wpc' = [wpc EXCEPT !["reader"] = "wake"]
    /\ UNCHANGED <<tableVars, wakeVars, callVars, chanVars, target, data>>

\* Slip: the response is stored and nobody woken.
WakeNobody ==
    /\ wpc["reader"] = "wake"
    /\ wpc' = [wpc EXCEPT !["reader"] = "run"]
    /\ UNCHANGED <<tableVars, slotVars, wakeVars, callVars, chanVars, target, data>>

WakeAnswered ==
    /\ wpc["reader"] = "wake"
    /\ Wake(target["reader"])
    /\ wpc' = [wpc EXCEPT !["reader"] = "run"]
    /\ UNCHANGED <<tableVars, slotVars, callVars, chanVars, target, data>>

\* The reader stops: Drop for Receiver expires the table, but only when the
\* Receiver still holds the core; the runner of a client just returns.
ReaderStops ==
    /\ wpc["reader"] = "run"
    /\ wpc' = [wpc EXCEPT !["reader"] = IF ReceiverHoldsCore THEN "mark" ELSE "gone"]
    /\ UNCHANGED <<tableVars, slotVars, wakeVars, callVars, chanVars, target, data>>

-----------------------------------------------------------------------------
(* The writer: write_runner                                                *)

WriteFrame ==
    /\ wpc["writer"] = "run"
    /\ queue # << >>
    /\ sent' = sent \cup {Head(queue)}
    /\ queue' = Tail(queue)
    /\ UNCHANGED <<tableVars, slotVars, wakeVars, callVars, chanOpen, workerVars>>

\* write_frame fails and set_request_write_failed looks the id up; when the
\* owner has gone meanwhile there is nobody to tell.
WriteFails ==
    /\ wpc["writer"] = "run"
    /\ queue # << >>
    /\ LockFree
    /\ LET t == waitList[id[Head(queue)]]
       IN  /\ target' = [target EXCEPT !["writer"] = t]
           /\ wpc' = [wpc EXCEPT !["writer"] = IF t = NoCall THEN "left" ELSE "store"]
    /\ queue' = Tail(queue)
    /\ UNCHANGED <<tableVars, slotVars, wakeVars, callVars, sent, chanOpen, data>>

StoreFailed ==
    /\ wpc["writer"] = "store"
    /\ response' = [response EXCEPT ![target["writer"]] = "WriteFailed"]
    /\ wpc' = [wpc EXCEPT !["writer"] = "wake"]
    /\ UNCHANGED <<tableVars, answer, wakeVars, callVars, chanVars, target, data>>

\* Slip: the writer goes on after a failed request.
WakeAndGoOn ==
    /\ wpc["writer"] = "wake"
    /\ Wake(target["writer"])
    /\ wpc' = [wpc EXCEPT !["writer"] = "run"]
    /\ UNCHANGED <<tableVars, slotVars, callVars, chanVars, target, data>>

WakeFailed ==
    /\ wpc["writer"] = "wake"
    /\ Wake(target["writer"])
    /\ wpc' = [wpc EXCEPT !["writer"] = "left"]
    /\ UNCHANGED <<tableVars, slotVars, callVars, chanVars, target, data>>

\* A sender, or the writer on a close directive, closes the channel; what is
\* in it stays there.
CloseChannel ==
    /\ chanOpen
    /\ chanOpen' = FALSE
    /\ UNCHANGED <<tableVars, slotVars, wakeVars, callVars, queue, sent, workerVars>>

\* write_runner leaves its loop without a failed request: the channel is
\* closed and drained, or CloseImmediately, or another kind of write failed.
LeaveLoop ==
    /\ wpc["writer"] = "run"
    /\ wpc' = [wpc EXCEPT !["writer"] = "left"]
    /\ UNCHANGED <<tableVars, slotVars, wakeVars, callVars, chanVars, target, data>>

\* The future of write_runner is dropped while it awaits a directive or the
\* transport: its end of the channel goes, and nobody expires the table.  A
\* frame it was writing went out (WriteFrame came before) or is lost like
\* those in the queue.
Abort ==
    /\ wpc["writer"] = "run"
    /\ chanOpen' = FALSE
    /\ wpc' = [wpc EXCEPT !["writer"] = "aborted"]
    /\ UNCHANGED <<tableVars, slotVars, wakeVars, callVars, queue, sent, target, data>>

\* Slip: the writer returns without expiring the table.
CloseAndReturn ==
    /\ wpc["writer"] = "left"
    /\ chanOpen' = FALSE
    /\ wpc' = [wpc EXCEPT !["writer"] = "gone"]
    /\ UNCHANGED <<tableVars, slotVars, wakeVars, callVars, queue, sent, target, data>>

\* The end of write_runner: rx_directive.close().
CloseAtExit ==
    /\ wpc["writer"] = "left"
    /\ chanOpen' = FALSE
    /\ wpc' = [wpc EXCEPT !["writer"] = "mark"]
    /\ UNCHANGED <<tableVars, slotVars, wakeVars, callVars, queue, sent, target, data>>

-----------------------------------------------------------------------------
(* mark_expired, by the writer or by the reader                            *)

\* Slip: the flag is set and the waiters are not woken.
MarkQuietly(w) ==
    /\ wpc[w] = "mark" /\ LockFree /\ ~expired
    /\ expired' = TRUE
    /\ wpc' = [wpc EXCEPT ![w] = "gone"]
    /\ UNCHANGED <<waitList, lockedBy, toWake, slotVars, wakeVars, callVars,
                   chanVars, target, data>>

\* The mutex is taken and the flag swapped; the second caller returns.
MarkExpired(w) ==
    /\ wpc[w] = "mark"
    /\ LockFree
    /\ ~expired
    /\ expired' = TRUE
    /\ lockedBy' = w
    /\ toWake' = {c \in Calls : \E i \in Ids : waitList[i] = c}
    /\ wpc' = [wpc EXCEPT ![w] = "waking"]
    /\ UNCHANGED <<waitList, slotVars, wakeVars, callVars, chanVars, target, data>>

\* Slip: the flag is looked at without the mutex.
ExpiredUnlocked(w) ==
    /\ wpc[w] = "mark" /\ expired
    /\ wpc' = [wpc EXCEPT ![w] = "gone"]
    /\ UNCHANGED <<tableVars, slotVars, wakeVars, callVars, chanVars, target, data>>

AlreadyExpired(w) ==
    /\ wpc[w] = "mark"
    /\ LockFree
    /\ expired
    /\ wpc' = [wpc EXCEPT ![w] = "gone"]
    /\ UNCHANGED <<tableVars, slotVars, wakeVars, callVars, chanVars, target, data>>

\* One turn of the for_each over the wait_list, in the order of the hash map.
WakeOne(w, c) ==
    /\ wpc[w] = "waking"
    /\ c \in toWake
    /\ toWake' = toWake \ {c}
    /\ Wake(c)
    /\ UNCHANGED <<expired, waitList, lockedBy, slotVars, callVars, chanVars, workerVars>>

Unlock(w) ==
    /\ wpc[w] = "waking"
    /\ toWake = {}
    /\ lockedBy' = "none"
    /\ wpc' = [wpc EXCEPT ![w] = "gone"]
    /\ UNCHANGED <<expired, waitList, toWake, slotVars, wakeVars, callVars,
                   chanVars, target, data>>

-----------------------------------------------------------------------------
\* What the thread of a call does once it is inside a method.
CallStep(c) ==
    \/ Allocate(c) \/ AllocateFails(c)
    \/ PollNone(c) \/ TakeReady(c) \/ TakeFailed(c)
    \/ PollExpired(c) \/ PollPending(c) \/ TryReturn(c)
    \/ Unregister(c)

\* What its owner and the codec decide.
OwnerStep(c) ==
    \/ ReturnExpired(c) \/ (\E i \in Ids : Encode(c, i)) \/ EncodeFails(c)
    \/ Enqueue(c) \/ SendFails(c)
    \/ PollStart(c) \/ TryNone(c) \/ DropHandle(c)

ReaderStep == CheckExpired \/ StoreResponse \/ WakeAnswered
WriterStep == StoreFailed \/ WakeFailed \/ CloseAtExit
MarkStep(w) == MarkExpired(w) \/ AlreadyExpired(w) \/ (\E c \in Calls : WakeOne(w, c)) \/ Unlock(w)

Next ==
    \/ \E c \in Calls : CallStep(c) \/ OwnerStep(c) \/ RecvResponse(c)
    \/ ReaderStep \/ ReaderStops
    \/ WriteFrame \/ WriteFails \/ WriterStep \/ LeaveLoop \/ Abort \/ CloseChannel
    \/ \E w \in Workers : MarkStep(w)

Spec == Init /\ [][Next]_vars

\* The code of a call is inside a method and goes on.
Running(c) == pc[c] \notin Owned /\ CallStep(c)

\* The executor polls a sleeping task it was told to wake.
PollWoken(c) == pc[c] = "parked" /\ c \in woken /\ PollStart(c)

\* A method that has begun runs to its end, the runners carry on between two
\* frames, and a woken task is polled.  Whoever needs the wait_list mutex may
\* lose it to others in between, hence strong fairness.  The writer takes what
\* is in the channel.  Nobody has to make calls, poll unasked, answer, close
\* the channel or stop a runner.
Fairness ==
    /\ \A c \in Calls : SF_vars(Running(c)) /\ WF_vars(PollWoken(c))
    /\ WF_vars(ReaderStep) /\ WF_vars(WriterStep)
    /\ WF_vars(WriteFrame \/ WriteFails)
    /\ \A w \in Workers : SF_vars(MarkStep(w))

FairSpec == Spec /\ Fairness

-----------------------------------------------------------------------------
(* Properties                                                              *)

PCs == {"idle", "allocate", "done"} \cup Registered
Results == {"none", "ReceiverExpired", "EncodeFailed", "SendFailed",
            "Answered", "Closed", "TriedClosed", "Dropped"}

\* Every variable stays in its range.
TypeOK ==
    /\ expired \in BOOLEAN
    /\ waitList \in [Ids -> Calls \cup {NoCall}]
    /\ lockedBy \in Workers \cup {"none"}
    /\ toWake \subseteq Calls
    /\ response \in [Calls -> {"None", "Ready", "WriteFailed", "PendingRemove"}]
    /\ answer \in [Calls -> Calls \cup {NoCall}]
    /\ waker \subseteq Calls
    /\ woken \subseteq Calls
    /\ pc \in [Calls -> PCs]
    /\ id \in [Calls -> Ids \cup {NoId}]
    /\ frame \in [Calls -> Ids \cup {NoId}]
    /\ tries \in [Calls -> 0 .. MaxRetry]
    /\ result \in [Calls -> Results]
    /\ got \in [Calls -> Calls \cup {NoCall}]
    /\ queue \in Seq(Calls)
    /\ sent \subseteq Calls
    /\ chanOpen \in BOOLEAN
    /\ wpc \in [Workers -> {"run", "check", "store", "wake", "left", "aborted",
                          "mark", "waking", "gone"}]
    /\ target \in [Workers -> Calls \cup {NoCall}]
    /\ data \in Calls \cup {NoCall}

\* The wait list holds exactly the calls whose handle is alive, each under the
\* id its handle remembers.  So free_request_id finds the entry it removes
\* (the assert of req_rep.rs), no entry outlives its handle (the assert of
\* Drop for RequestContext), and two live handles never share an id.
RegistryExact ==
    \A c \in Calls, i \in Ids :
        waitList[i] = c <=> pc[c] \in Registered /\ id[c] = i

\* Somebody is on the way to wake call c.
WakeUnderway(c) ==
    \/ c \in toWake
    \/ \E w \in Workers : wpc[w] = "wake" /\ target[w] = c

\* A task never sleeps on news: when its slot is filled or the table has
\* expired, it was woken or some runner still has to wake it.  This is what
\* registering the waker first and waking last is for.
NoLostWakeup ==
    \A c \in Calls :
        pc[c] = "parked" /\ (expired \/ response[c] # "None")
            => c \in woken \/ WakeUnderway(c)

\* The owner of a handle never meets PendingRemove in its slot (the
\* `unreachable!` of Receive::poll), whatever responses arrive twice or late.
SlotNotTaken ==
    \A c \in Calls :
        pc[c] \in Registered \ {"unregister"} => response[c] # "PendingRemove"

\* The answer to another request's frame is handed to a call only when that
\* request is over, so that its id could be used again, or when its frame was
\* encoded more than once and carries the id of a failed attempt.  In any case
\* the frame was written and carried the call's id.
AnswerIsOwn ==
    \A c \in Calls :
        got[c] # NoCall =>
            /\ got[c] \in sent /\ frame[got[c]] = id[c]
            /\ got[c] = c \/ tries[got[c]] > 1 \/ pc[got[c]] = "done"

\* A request whose frame was written is not reported as failed to write,
\* though set_request_write_failed finds its waiter by id only and ids are
\* used again.
WriteFailedIsUnsent ==
    \A c \in Calls : response[c] = "WriteFailed" /\ pc[c] \in Registered => c \notin sent

\* When write_runner has returned, nobody is left waiting: the channel takes no
\* request, the table has expired and every sleeping call was woken, even when
\* it was the reader that expired the table and the writer that came second.
WriterLeavesNobody ==
    wpc["writer"] = "gone" =>
        /\ expired /\ ~chanOpen
        /\ \A c \in Calls : pc[c] = "parked" => c \in woken

\* Nothing registers once the table has expired, and it stays expired.
NoLateRegistration ==
    [][expired => expired' /\ \A i \in Ids : waitList'[i] \in {waitList[i], NoCall}]_vars

\* When a runner is through with mark_expired, no call is left sleeping for
\* ever.
ExpiryReleases ==
    \A c \in Calls : (pc[c] = "parked" /\ expired) ~> pc[c] # "parked"

\* A stored response or write failure reaches a sleeping call.
NewsReleases ==
    \A c \in Calls :
        (pc[c] = "parked" /\ response[c] # "None") ~> pc[c] # "parked"

\* Once the writer has left its loop every sleeping call comes back.
WriterExitReleases ==
    \A c \in Calls : (wpc["writer"] = "left") ~> (expired /\ pc[c] # "parked")

-----------------------------------------------------------------------------
(* The table implements the promise                                        *)

Status(c) ==
    CASE result[c] = "Answered" -> "answered"
      [] result[c] = "Closed" -> "closed"
      [] result[c] = "TriedClosed" -> "told"
      [] result[c] \in {"Dropped", "SendFailed"} -> "withdrawn"
      [] result[c] \in {"ReceiverExpired", "EncodeFailed"} -> "refused"
      [] result[c] = "none" -> IF pc[c] \in Registered THEN "pending" ELSE "new"

\* The calls told of a failed write.
Failed == {c \in Calls : response[c] = "WriteFailed"}

\* The calls that drew more than one id.
Retried == {c \in Calls : tries[c] > 1}

Promise == INSTANCE RequestPromise
             WITH status <- [c \in Calls |-> Status(c)], source <- got,
                  written <- sent, failed <- Failed, retried <- Retried

\* Every request is settled once.  Its answer is the answer to its own frame,
\* to that of a settled request or to one encoded twice; Closed is said only
\* after the expiry, or of a request whose own write failed.  The Closed of
\* try_recv, too, is said only after the expiry, but settles nothing: an answer
\* on its way into the slot can still be taken.
PromiseKept == Promise!Spec

-----------------------------------------------------------------------------
(* What the comments say and the code does not keep                        *)

\* mark_expired "is called when the connection is closed": when the reader has
\* stopped, a call whose request was written does not sleep for ever.
ReaderStopReleases ==
    \A c \in Calls :
        (pc[c] = "parked" /\ c \in sent /\ wpc["reader"] = "gone") ~> pc[c] # "parked"
=============================================================================
