------------------------ MODULE RequestContext_proofs ------------------------
(***************************************************************************)
(* Proofs about RequestContext for any number of requests, identifiers and *)
(* attempts.                                                               *)
(***************************************************************************)
EXTENDS RequestContext, TLAPS

\* A call that has gone through the channel once.
Launched(c) ==
    /\ pc[c] \notin {"idle", "allocate", "send"}
    /\ id[c] \in Ids
    /\ frame[c] \in Ids

\* A call has a frame and an id from its first attempt on, and whoever is in
\* the channel or on the wire was launched.
EncodedInv ==
    /\ \A c \in Calls : pc[c] \in {"allocate"} \cup Registered => id[c] \in Ids /\ frame[c] \in Ids
    /\ \A c \in sent : Launched(c)
    /\ \A k \in 1 .. Len(queue) : Launched(queue[k])

\* A frame encoded once carries the id its call registers under.
TriesInv ==
    \A c \in Calls : tries[c] <= 1 => /\ frame[c] = id[c]
                                      /\ tries[c] = 0 => frame[c] = NoId

\* A runner holds the waiter of a call that has registered, and the reader
\* holds it for a frame that carried its id.
RunnerInv ==
    /\ \A w \in Workers :
          wpc[w] \in {"check", "store", "wake"}
              => target[w] \in Calls /\ pc[target[w]] \notin {"idle", "allocate"}
    /\ wpc["reader"] \in {"check", "store"}
          => /\ data \in sent /\ frame[data] = id[target["reader"]]
             /\ data = target["reader"] \/ tries[data] > 1 \/ pc[data] = "done"

\* mark_expired holds the mutex while it wakes, and has set the flag.
LockInv ==
    /\ \A w \in Workers : lockedBy = w <=> wpc[w] = "waking"
    /\ lockedBy # "none" => expired
    /\ toWake # {} => lockedBy # "none"

\* A slot is filled after registration only, and PendingRemove is left behind
\* by an owner that is about to unregister.
SlotInv ==
    \A c \in Calls : pc[c] \in {"idle", "allocate"} => response[c] = "None"

\* The payload of a slot, and what an owner got, answers a frame with its id:
\* its own, or that of a call which is over or was encoded twice.
AnswerInv ==
    \A c \in Calls : \A d \in {answer[c], got[c]} :
        d # NoCall => /\ pc[c] \notin {"idle", "allocate"}
                      /\ d \in sent
                      /\ frame[d] = id[c]
                      /\ d = c \/ tries[d] > 1 \/ pc[d] = "done"

\* From the registration of its waker until it is polled again, a call is
\* either waiting for a wake-up or was woken.
WakerInv ==
    \A c \in Calls : pc[c] \in {"poll", "pollExpired", "parked"} => c \in waker \cup woken

\* News that arrives after the slot was found empty comes with a wake-up.
NewsInv ==
    \A c \in Calls :
        pc[c] = "pollExpired" /\ response[c] # "None" => c \in woken \/ WakeUnderway(c)

\* What a call is told that never registered.
Refusals == {"ReceiverExpired", "EncodeFailed"}

\* A call has a result exactly when it is on its way out, and at once when it
\* is refused.
ResultInv ==
    \A c \in Calls : /\ result[c] \in {"none", "TriedClosed"} <=> pc[c] \notin {"unregister", "done"}
                     /\ result[c] = "TriedClosed" => pc[c] \in Registered
                     /\ result[c] \in Refusals => pc[c] = "done"

IInv ==
    /\ TypeOK
    /\ EncodedInv
    /\ TriesInv
    /\ RegistryExact
    /\ RunnerInv
    /\ LockInv
    /\ SlotInv
    /\ SlotNotTaken
    /\ AnswerInv
    /\ WakerInv
    /\ NewsInv
    /\ NoLostWakeup
    /\ ResultInv

-----------------------------------------------------------------------------
\* The strengthened invariant holds initially and is preserved by every step.
LEMMA InitIInv == Init => IInv
<1> SUFFICES ASSUME Init PROVE IInv
  OBVIOUS
<1> USE CallsAssumption, IdsAssumption, MaxRetryAssumption DEF Init, Workers, Registered
<1>1. TypeOK
  <2>1. queue \in Seq(Calls) /\ tries \in [Calls -> 0 .. MaxRetry]
    OBVIOUS
  <2>2. pc \in [Calls -> PCs] /\ result \in [Calls -> Results]
    BY DEF PCs, Results
  <2>3. QED
    BY <2>1, <2>2 DEF TypeOK
<1>2. EncodedInv /\ TriesInv
  BY DEF EncodedInv, TriesInv, Launched
<1>3. RegistryExact
  BY DEF RegistryExact
<1>4. RunnerInv /\ LockInv /\ SlotInv /\ SlotNotTaken /\ ResultInv
  BY DEF RunnerInv, LockInv, SlotInv, SlotNotTaken, ResultInv, Refusals
<1>5. AnswerInv
  BY DEF AnswerInv
<1>6. WakerInv /\ NewsInv /\ NoLostWakeup
  BY DEF WakerInv, NewsInv, NoLostWakeup
<1>7. QED
  BY <1>1, <1>2, <1>3, <1>4, <1>5, <1>6 DEF IInv

\* Every step preserves the invariant.
LEMMA NextIInv ==
  ASSUME IInv, [Next]_vars
  PROVE  IInv'
<1> USE CallsAssumption, IdsAssumption, MaxRetryAssumption
    DEF Workers, Registered, Owned, LockFree, PCs, Results, Wake, FindNone,
        vars, tableVars, slotVars, wakeVars, callVars, chanVars, workerVars,
        IInv, TypeOK, EncodedInv, TriesInv, RegistryExact, RunnerInv, LockInv, SlotInv,
        SlotNotTaken, AnswerInv, WakerInv, NewsInv, NoLostWakeup, ResultInv,
        Refusals, Launched, WakeUnderway
<1>1. ASSUME NEW c \in Calls, ReturnExpired(c) PROVE IInv'
  BY <1>1 DEF ReturnExpired
<1>2. ASSUME NEW c \in Calls, NEW i \in Ids, Encode(c, i) PROVE IInv'
  <2>1. (TypeOK /\ EncodedInv /\ TriesInv)'
    BY <1>2 DEF Encode
  <2>2. (RegistryExact /\ RunnerInv /\ LockInv)'
    BY <1>2 DEF Encode
  <2>3. (SlotInv /\ SlotNotTaken /\ ResultInv)'
    BY <1>2 DEF Encode
  <2>4. AnswerInv'
    BY <1>2 DEF Encode
  <2>5. (WakerInv /\ NewsInv /\ NoLostWakeup)'
    BY <1>2 DEF Encode
  <2>6. QED
    BY <2>1, <2>2, <2>3, <2>4, <2>5
<1>3. ASSUME NEW c \in Calls, EncodeFails(c) PROVE IInv'
  BY <1>3 DEF EncodeFails
<1>4. ASSUME NEW c \in Calls, Allocate(c) PROVE IInv'
  BY <1>4 DEF Allocate
<1>5. ASSUME NEW c \in Calls, AllocateFails(c) PROVE IInv'
  BY <1>5 DEF AllocateFails
<1>6. ASSUME NEW c \in Calls, Enqueue(c) PROVE IInv'
  BY <1>6 DEF Enqueue
<1>7. ASSUME NEW c \in Calls, SendFails(c) PROVE IInv'
  BY <1>7 DEF SendFails
<1>8. ASSUME NEW c \in Calls, PollStart(c) PROVE IInv'
  BY <1>8 DEF PollStart
<1>9. ASSUME NEW c \in Calls, PollNone(c) PROVE IInv'
  BY <1>9 DEF PollNone
<1>10. ASSUME NEW c \in Calls, TryNone(c) PROVE IInv'
  BY <1>10 DEF TryNone
<1>11. ASSUME NEW c \in Calls, TakeReady(c) PROVE IInv'
  BY <1>11 DEF TakeReady
<1>12. ASSUME NEW c \in Calls, TakeFailed(c) PROVE IInv'
  BY <1>12 DEF TakeFailed
<1>13. ASSUME NEW c \in Calls, PollExpired(c) PROVE IInv'
  BY <1>13 DEF PollExpired
<1>14. ASSUME NEW c \in Calls, PollPending(c) PROVE IInv'
  BY <1>14 DEF PollPending
<1>15. ASSUME NEW c \in Calls, TryReturn(c) PROVE IInv'
  BY <1>15 DEF TryReturn
<1>16. ASSUME NEW c \in Calls, DropHandle(c) PROVE IInv'
  BY <1>16 DEF DropHandle
<1>17. ASSUME NEW c \in Calls, Unregister(c) PROVE IInv'
  BY <1>17 DEF Unregister
<1>18. ASSUME NEW c \in Calls, RecvResponse(c) PROVE IInv'
  <2> DEFINE t == waitList[frame[c]]
  <2>1. frame[c] \in Ids /\ t \in Calls
    BY <1>18 DEF RecvResponse
  <2>2. pc[t] \in Registered /\ id[t] = frame[c]
    BY <2>1
  <2>2a. c = t \/ tries[c] > 1 \/ pc[c] = "done"
    <3>1. c \in sent /\ Launched(c) /\ tries[c] \in Nat /\ pc[c] \in PCs
      BY <1>18 DEF RecvResponse
    <3>2. ASSUME tries[c] <= 1, pc[c] \in Registered PROVE c = t
      BY <3>1, <3>2
    <3>3. QED
      BY <3>1, <3>2
  <2>3. TypeOK'
    BY <1>18, <2>1, <2>2 DEF RecvResponse
  <2>4. EncodedInv' /\ TriesInv' /\ RegistryExact' /\ RunnerInv' /\ LockInv'
    BY <1>18, <2>1, <2>2, <2>2a DEF RecvResponse
  <2>5. SlotInv' /\ SlotNotTaken' /\ AnswerInv'
    BY <1>18, <2>1, <2>2 DEF RecvResponse
  <2>6. WakerInv' /\ NewsInv' /\ NoLostWakeup' /\ ResultInv'
    BY <1>18, <2>1, <2>2 DEF RecvResponse
  <2>7. QED
    BY <2>3, <2>4, <2>5, <2>6
<1>19. CASE CheckExpired
  BY <1>19 DEF CheckExpired
<1>20. CASE StoreResponse
  BY <1>20 DEF StoreResponse
<1>21. CASE WakeAnswered
  BY <1>21 DEF WakeAnswered
<1>22. CASE ReaderStops
  BY <1>22 DEF ReaderStops
<1>23. CASE WriteFrame
  BY <1>23 DEF WriteFrame
<1>24. CASE WriteFails
  <2> DEFINE h == Head(queue)
             t == waitList[id[h]]
  <2>1. h \in Calls /\ id[h] \in Ids /\ Tail(queue) \in Seq(Calls)
    BY <1>24 DEF WriteFails
  <2>2. t # NoCall => t \in Calls /\ pc[t] \in Registered
    BY <2>1
  <2>3. TypeOK'
    BY <1>24, <2>1, <2>2 DEF WriteFails
  <2>4. EncodedInv' /\ TriesInv' /\ RegistryExact' /\ RunnerInv' /\ LockInv'
    BY <1>24, <2>1, <2>2 DEF WriteFails
  <2>5. SlotInv' /\ SlotNotTaken' /\ AnswerInv'
    BY <1>24, <2>1, <2>2 DEF WriteFails
  <2>6. WakerInv' /\ NewsInv' /\ NoLostWakeup' /\ ResultInv'
    BY <1>24, <2>1, <2>2 DEF WriteFails
  <2>7. QED
    BY <2>3, <2>4, <2>5, <2>6
<1>25. CASE StoreFailed
  BY <1>25 DEF StoreFailed
<1>26. CASE WakeFailed
  BY <1>26 DEF WakeFailed
<1>27. CASE CloseChannel
  <2>1. TypeOK'
    BY <1>27 DEF CloseChannel
  <2>2. EncodedInv' /\ TriesInv' /\ RegistryExact' /\ RunnerInv' /\ LockInv'
    BY <1>27 DEF CloseChannel
  <2>3. SlotInv' /\ SlotNotTaken' /\ AnswerInv'
    BY <1>27 DEF CloseChannel
  <2>4. WakerInv' /\ NewsInv' /\ NoLostWakeup' /\ ResultInv'
    BY <1>27 DEF CloseChannel
  <2>5. QED
    BY <2>1, <2>2, <2>3, <2>4
<1>28. CASE LeaveLoop
  BY <1>28 DEF LeaveLoop
<1>29. CASE CloseAtExit
  <2>1. TypeOK'
    BY <1>29 DEF CloseAtExit
  <2>2. EncodedInv' /\ TriesInv' /\ RegistryExact' /\ RunnerInv' /\ LockInv'
    BY <1>29 DEF CloseAtExit
  <2>3. SlotInv' /\ SlotNotTaken' /\ AnswerInv'
    BY <1>29 DEF CloseAtExit
  <2>4. WakerInv' /\ NewsInv' /\ NoLostWakeup' /\ ResultInv'
    BY <1>29 DEF CloseAtExit
  <2>5. QED
    BY <2>1, <2>2, <2>3, <2>4
<1>30. ASSUME NEW w \in Workers, MarkExpired(w) PROVE IInv'
  BY <1>30 DEF MarkExpired
<1>31. ASSUME NEW w \in Workers, AlreadyExpired(w) PROVE IInv'
  BY <1>31 DEF AlreadyExpired
<1>32. ASSUME NEW w \in Workers, NEW c \in Calls, WakeOne(w, c) PROVE IInv'
  BY <1>32 DEF WakeOne
<1>33. ASSUME NEW w \in Workers, Unlock(w) PROVE IInv'
  BY <1>33 DEF Unlock
<1>34. CASE UNCHANGED vars
  BY <1>34
<1>35. CASE Abort
  <2>1. TypeOK'
    BY <1>35 DEF Abort
  <2>2. EncodedInv' /\ TriesInv' /\ RegistryExact' /\ RunnerInv' /\ LockInv'
    BY <1>35 DEF Abort
  <2>3. SlotInv' /\ SlotNotTaken' /\ AnswerInv'
    BY <1>35 DEF Abort
  <2>4. WakerInv' /\ NewsInv' /\ NoLostWakeup' /\ ResultInv'
    BY <1>35 DEF Abort
  <2>5. QED
    BY <2>1, <2>2, <2>3, <2>4
<1> HIDE CallsAssumption, IdsAssumption, MaxRetryAssumption
    DEF Workers, Registered, Owned, LockFree, PCs, Results, Wake, FindNone,
        vars, tableVars, slotVars, wakeVars, callVars, chanVars, workerVars,
        IInv, TypeOK, EncodedInv, TriesInv, RegistryExact, RunnerInv, LockInv, SlotInv,
        SlotNotTaken, AnswerInv, WakerInv, NewsInv, NoLostWakeup, ResultInv,
        Refusals, Launched, WakeUnderway
<1>36. QED
  BY <1>1, <1>2, <1>3, <1>4, <1>5, <1>6, <1>7, <1>8, <1>9, <1>10, <1>11,
     <1>12, <1>13, <1>14, <1>15, <1>16, <1>17, <1>18, <1>19, <1>20, <1>21,
     <1>22, <1>23, <1>24, <1>25, <1>26, <1>27, <1>28, <1>29, <1>30, <1>31,
     <1>32, <1>33, <1>34, <1>35
  DEF Next, CallStep, OwnerStep, ReaderStep, WriterStep, MarkStep

LEMMA Inductive == Spec => []IInv
<1>1. Init => IInv
  BY InitIInv
<1>2. IInv /\ [Next]_vars => IInv'
  BY NextIInv
<1>3. QED
  BY <1>1, <1>2, PTL DEF Spec

\* Every variable of the request table keeps to its range.
THEOREM TypeCorrect == Spec => []TypeOK
<1>1. IInv => TypeOK
  BY DEF IInv
<1>2. QED
  BY <1>1, Inductive, PTL

\* The wait list is exactly the set of live handles: free_request_id never
\* panics and two live handles never share an id.
THEOREM RegistryCorrect == Spec => []RegistryExact
<1>1. IInv => RegistryExact
  BY DEF IInv
<1>2. QED
  BY <1>1, Inductive, PTL

\* A task that sleeps although there is news for it was woken or is about to be.
THEOREM WakeupsCorrect == Spec => []NoLostWakeup
<1>1. IInv => NoLostWakeup
  BY DEF IInv
<1>2. QED
  BY <1>1, Inductive, PTL

\* The `unreachable!` of Receive::poll is unreachable.
THEOREM SlotCorrect == Spec => []SlotNotTaken
<1>1. IInv => SlotNotTaken
  BY DEF IInv
<1>2. QED
  BY <1>1, Inductive, PTL

\* Whoever got a response got the answer to its own frame, unless the id was
\* used again or the frame encoded twice; and always to a frame with its id.
THEOREM AnswerCorrect == Spec => []AnswerIsOwn
<1>1. IInv => AnswerIsOwn
  BY DEF IInv, AnswerInv, TypeOK, AnswerIsOwn
<1>2. QED
  BY <1>1, Inductive, PTL

-----------------------------------------------------------------------------
(* Why a write failure found by id hits nobody whose frame was written: the *)
(* channel is first in, first out.                                         *)

\* A request is in the channel once, was not refused, and leaves the channel
\* to be written.
QueueInv ==
    \A k \in 1 .. Len(queue) :
        /\ result[queue[k]] \notin Refusals
        /\ queue[k] \notin sent
        /\ \A j \in 1 .. Len(queue) : j # k => queue[j] # queue[k]

\* A live call that uses the id of an abandoned request again comes behind it.
OrderInv ==
    \A k \in 1 .. Len(queue) : \A c \in Calls :
        c # queue[k] /\ pc[c] \in Registered /\ id[c] = id[queue[k]]
            => c \notin sent /\ \A j \in 1 .. k : queue[j] # c

\* Failures are stored only by a writer that has stopped writing, in the slot
\* of a call that was not written.
FailedInv ==
    /\ \A c \in Calls : response[c] = "WriteFailed"
          => wpc["writer"] \notin {"run", "check", "store", "aborted"} /\ c \notin sent
    /\ wpc["writer"] = "store"
          => target["writer"] \notin sent /\ result[target["writer"]] \notin Refusals

FifoInv == QueueInv /\ OrderInv /\ FailedInv

\* What is left of the channel when a directive was taken.
LEMMA TailKeepsQueue ==
  ASSUME queue \in Seq(Calls), queue # << >>, QueueInv,
         queue' = Tail(queue), UNCHANGED <<sent, result>>
  PROVE  QueueInv'
<1>1. /\ Len(queue) \in Nat /\ Len(queue') = Len(queue) - 1
      /\ \A k \in 1 .. Len(queue') : k + 1 \in 1 .. Len(queue) /\ queue'[k] = queue[k + 1]
  OBVIOUS
<1>2. QED
  BY <1>1 DEF QueueInv

\* What is in the channel when a call has put its own directive there.
LEMMA AppendKeepsQueue ==
  ASSUME queue \in Seq(Calls), NEW c \in Calls, QueueInv,
         queue' = Append(queue, c), UNCHANGED <<sent, result>>,
         result[c] \notin Refusals, c \notin sent,
         \A k \in 1 .. Len(queue) : queue[k] # c
  PROVE  QueueInv'
<1>1. /\ Len(queue) \in Nat /\ Len(queue') = Len(queue) + 1 /\ queue'[Len(queue) + 1] = c
      /\ \A k \in 1 .. Len(queue) : queue'[k] = queue[k]
  OBVIOUS
<1>2. \A k \in 1 .. Len(queue') : k \in 1 .. Len(queue) \/ k = Len(queue) + 1
  BY <1>1
<1>3. QED
  BY <1>1, <1>2 DEF QueueInv

\* And its order, when no other live call has the id of the new one.
LEMMA AppendKeepsOrder ==
  ASSUME queue \in Seq(Calls), NEW c \in Calls, OrderInv,
         queue' = Append(queue, c), UNCHANGED <<sent, id>>,
         \A d \in Calls : pc'[d] \in Registered => pc[d] \in Registered,
         \A d \in Calls \ {c} : pc'[d] \in Registered => id[d] # id[c]
  PROVE  OrderInv'
<1>1. /\ Len(queue) \in Nat /\ Len(queue') = Len(queue) + 1 /\ queue'[Len(queue) + 1] = c
      /\ \A k \in 1 .. Len(queue) : queue'[k] = queue[k]
  OBVIOUS
<1>2. \A k \in 1 .. Len(queue') : k \in 1 .. Len(queue) \/ k = Len(queue) + 1
  BY <1>1
<1>3. QED
  BY <1>1, <1>2 DEF OrderInv

\* Every step preserves the order of the channel.
LEMMA NextFifoInv ==
  ASSUME IInv, FifoInv, [Next]_vars
  PROVE  FifoInv'
<1> USE CallsAssumption, IdsAssumption, MaxRetryAssumption
    DEF Workers, Registered, Owned, LockFree, PCs, Results, Wake, FindNone,
        vars, tableVars, slotVars, wakeVars, callVars, chanVars, workerVars,
        IInv, TypeOK, EncodedInv, Launched, RegistryExact, RunnerInv, ResultInv,
        FifoInv, QueueInv, OrderInv, FailedInv, Refusals
<1>1. ASSUME NEW c \in Calls, ReturnExpired(c) PROVE FifoInv'
  BY <1>1 DEF ReturnExpired
<1>2. ASSUME NEW c \in Calls, NEW i \in Ids, Encode(c, i) PROVE FifoInv'
  BY <1>2 DEF Encode
<1>3. ASSUME NEW c \in Calls, EncodeFails(c) PROVE FifoInv'
  BY <1>3 DEF EncodeFails
<1>4. ASSUME NEW c \in Calls, Allocate(c) PROVE FifoInv'
  <2>1. UNCHANGED <<queue, sent, id>> /\ \A d \in Calls \ {c} : pc'[d] = pc[d]
    BY <1>4 DEF Allocate
  <2>2. c \notin sent /\ \A j \in 1 .. Len(queue) : queue[j] # c
    BY <1>4 DEF Allocate
  <2>3. OrderInv'
    BY <2>1, <2>2
  <2>4. QueueInv' /\ FailedInv'
    BY <1>4, <2>2 DEF Allocate
  <2>5. QED
    BY <2>3, <2>4
<1>5. ASSUME NEW c \in Calls, AllocateFails(c) PROVE FifoInv'
  BY <1>5 DEF AllocateFails
<1>6. ASSUME NEW c \in Calls, Enqueue(c) PROVE FifoInv'
  <2>1. queue' = Append(queue, c) /\ UNCHANGED <<sent, result, id, response, target, wpc>>
    BY <1>6 DEF Enqueue
  <2>2. /\ result[c] \notin Refusals /\ c \notin sent
        /\ \A k \in 1 .. Len(queue) : queue[k] # c
    BY <1>6 DEF Enqueue
  <2>3. QueueInv'
    BY <2>1, <2>2, AppendKeepsQueue
  <2>4. \A d \in Calls : pc'[d] \in Registered => pc[d] \in Registered
    BY <1>6 DEF Enqueue
  <2>5. pc[c] \in Registered /\ id[c] \in Ids
    BY <1>6 DEF Enqueue
  <2>6. \A d \in Calls \ {c} : pc'[d] \in Registered => id[d] # id[c]
    BY <2>4, <2>5
  <2>7. OrderInv'
    BY <2>1, <2>4, <2>6, AppendKeepsOrder
  <2>8. FailedInv'
    BY <2>1, <1>6 DEF Enqueue
  <2>9. QED
    BY <2>3, <2>7, <2>8
<1>7. ASSUME NEW c \in Calls, SendFails(c) PROVE FifoInv'
  BY <1>7 DEF SendFails
<1>8. ASSUME NEW c \in Calls, PollStart(c) PROVE FifoInv'
  BY <1>8 DEF PollStart
<1>9. ASSUME NEW c \in Calls, PollNone(c) PROVE FifoInv'
  BY <1>9 DEF PollNone
<1>10. ASSUME NEW c \in Calls, TryNone(c) PROVE FifoInv'
  BY <1>10 DEF TryNone
<1>11. ASSUME NEW c \in Calls, TakeReady(c) PROVE FifoInv'
  BY <1>11 DEF TakeReady
<1>12. ASSUME NEW c \in Calls, TakeFailed(c) PROVE FifoInv'
  BY <1>12 DEF TakeFailed
<1>13. ASSUME NEW c \in Calls, PollExpired(c) PROVE FifoInv'
  BY <1>13 DEF PollExpired
<1>14. ASSUME NEW c \in Calls, PollPending(c) PROVE FifoInv'
  BY <1>14 DEF PollPending
<1>15. ASSUME NEW c \in Calls, TryReturn(c) PROVE FifoInv'
  BY <1>15 DEF TryReturn
<1>16. ASSUME NEW c \in Calls, DropHandle(c) PROVE FifoInv'
  BY <1>16 DEF DropHandle
<1>17. ASSUME NEW c \in Calls, Unregister(c) PROVE FifoInv'
  BY <1>17 DEF Unregister
<1>18. ASSUME NEW c \in Calls, RecvResponse(c) PROVE FifoInv'
  BY <1>18 DEF RecvResponse
<1>19. CASE CheckExpired
  BY <1>19 DEF CheckExpired
<1>20. CASE StoreResponse
  BY <1>20 DEF StoreResponse
<1>21. CASE WakeAnswered
  BY <1>21 DEF WakeAnswered
<1>22. CASE ReaderStops
  BY <1>22 DEF ReaderStops
<1>23. CASE WriteFrame
  BY <1>23 DEF WriteFrame
<1>24. CASE WriteFails
  <2> DEFINE h == Head(queue)
             t == waitList[id[h]]
  <2>1. h \in Calls /\ id[h] \in Ids /\ h = queue[1] /\ pc[h] # "send"
    BY <1>24 DEF WriteFails
  <2>2. t # NoCall => t \in Calls /\ pc[t] \in Registered /\ id[t] = id[h]
    BY <2>1
  <2>3. t # NoCall => t \notin sent /\ result[t] \notin Refusals
    BY <1>24, <2>1, <2>2 DEF WriteFails
  <2>4. QueueInv'
    <3>1. /\ queue \in Seq(Calls) /\ queue # << >> /\ QueueInv
          /\ queue' = Tail(queue) /\ UNCHANGED <<sent, result>>
      BY <1>24 DEF WriteFails
    <3>2. QED
      BY <3>1, TailKeepsQueue
  <2>5. OrderInv'
    BY <1>24, <2>1, <2>2, <2>3 DEF WriteFails
  <2>6. FailedInv'
    BY <1>24, <2>1, <2>2, <2>3 DEF WriteFails
  <2>7. QED
    BY <2>4, <2>5, <2>6
<1>25. CASE StoreFailed
  BY <1>25 DEF StoreFailed
<1>26. CASE WakeFailed
  BY <1>26 DEF WakeFailed
<1>27. CASE CloseChannel
  BY <1>27 DEF CloseChannel
<1>28. CASE LeaveLoop
  BY <1>28 DEF LeaveLoop
<1>29. CASE CloseAtExit
  BY <1>29 DEF CloseAtExit
<1>30. ASSUME NEW w \in Workers, MarkExpired(w) PROVE FifoInv'
  BY <1>30 DEF MarkExpired
<1>31. ASSUME NEW w \in Workers, AlreadyExpired(w) PROVE FifoInv'
  BY <1>31 DEF AlreadyExpired
<1>32. ASSUME NEW w \in Workers, NEW c \in Calls, WakeOne(w, c) PROVE FifoInv'
  BY <1>32 DEF WakeOne
<1>33. ASSUME NEW w \in Workers, Unlock(w) PROVE FifoInv'
  BY <1>33 DEF Unlock
<1>34. CASE UNCHANGED vars
  BY <1>34
<1>35. CASE Abort
  BY <1>35 DEF Abort
<1> HIDE CallsAssumption, IdsAssumption, MaxRetryAssumption
    DEF Workers, Registered, Owned, LockFree, PCs, Results, Wake, FindNone,
        vars, tableVars, slotVars, wakeVars, callVars, chanVars, workerVars,
        IInv, TypeOK, EncodedInv, Launched, RegistryExact, RunnerInv, ResultInv,
        FifoInv, QueueInv, OrderInv, FailedInv, Refusals
<1>36. QED
  BY <1>1, <1>2, <1>3, <1>4, <1>5, <1>6, <1>7, <1>8, <1>9, <1>10, <1>11,
     <1>12, <1>13, <1>14, <1>15, <1>16, <1>17, <1>18, <1>19, <1>20, <1>21,
     <1>22, <1>23, <1>24, <1>25, <1>26, <1>27, <1>28, <1>29, <1>30, <1>31,
     <1>32, <1>33, <1>34, <1>35
  DEF Next, CallStep, OwnerStep, ReaderStep, WriterStep, MarkStep

LEMMA FifoInductive == Spec => []FifoInv
<1>1. Init => FifoInv
  BY DEF Init, FifoInv, QueueInv, OrderInv, FailedInv, Workers, Refusals
<1>2. IInv /\ FifoInv /\ [Next]_vars => FifoInv'
  BY NextFifoInv
<1>3. QED
  BY Inductive, <1>1, <1>2, PTL DEF Spec

\* A request whose frame was written is never reported as failed to write.
THEOREM WriteFailedCorrect == Spec => []WriteFailedIsUnsent
<1>1. FifoInv => WriteFailedIsUnsent
  BY DEF FifoInv, FailedInv, WriteFailedIsUnsent
<1>2. QED
  BY FifoInductive, <1>1, PTL

\* Nothing registers in an expired table, and it stays expired.
THEOREM ExpiryCorrect == Spec => NoLateRegistration
<1> DEFINE Kept == expired' /\ \A i \in Ids : waitList'[i] \in {waitList[i], NoCall}
<1>1. ASSUME TypeOK, [Next]_vars, expired PROVE Kept
  <2> USE DEF vars, tableVars, slotVars, wakeVars, callVars, chanVars, workerVars, TypeOK
  <2>1. ASSUME NEW c \in Calls, CallStep(c) PROVE Kept
    BY <1>1, <2>1
    DEF CallStep, Allocate, AllocateFails, PollNone, FindNone, TakeReady, TakeFailed,
        PollExpired, PollPending, TryReturn, Unregister
  <2>2. ASSUME NEW c \in Calls, OwnerStep(c) PROVE Kept
    BY <1>1, <2>2
    DEF OwnerStep, ReturnExpired, Encode, EncodeFails, Enqueue, SendFails, PollStart,
        TryNone, FindNone, DropHandle
  <2>3. ASSUME NEW c \in Calls, RecvResponse(c) PROVE Kept
    BY <1>1, <2>3 DEF RecvResponse
  <2>4. ASSUME NEW w \in Workers, MarkStep(w) PROVE Kept
    BY <1>1, <2>4 DEF MarkStep, MarkExpired, AlreadyExpired, WakeOne, Unlock
  <2>5. ASSUME \/ ReaderStep \/ ReaderStops \/ WriterStep \/ WriteFrame \/ WriteFails
               \/ LeaveLoop \/ Abort \/ CloseChannel \/ UNCHANGED vars
        PROVE  Kept
    BY <1>1, <2>5
    DEF ReaderStep, CheckExpired, StoreResponse, WakeAnswered, ReaderStops, WriterStep,
        StoreFailed, WakeFailed, CloseAtExit, WriteFrame, WriteFails, LeaveLoop, Abort, CloseChannel
  <2> HIDE DEF Kept, vars
  <2>6. QED
    BY <1>1, <2>1, <2>2, <2>3, <2>4, <2>5 DEF Next
<1>2. TypeOK /\ [Next]_vars => [expired => Kept]_vars
  BY <1>1
<1>3. QED
  BY TypeCorrect, <1>2, PTL DEF Spec, NoLateRegistration

-----------------------------------------------------------------------------
(* What write_runner leaves behind.                                        *)

\* Whoever slept when the table expired was woken or is still to be woken by
\* the one who holds the mutex; and the writer is through with mark_expired
\* only when that one is.
LeaveInv ==
    /\ \A c \in Calls : expired /\ pc[c] = "parked" => c \in woken \cup toWake
    /\ wpc["writer"] \in {"mark", "waking", "gone"} => ~chanOpen
    /\ wpc["writer"] = "gone" => expired /\ toWake = {}

LEMMA NextLeaveInv ==
  ASSUME IInv, LeaveInv, [Next]_vars
  PROVE  LeaveInv'
<1> USE DEF Workers, Wake, LockFree, Owned, vars, tableVars, slotVars, wakeVars,
            callVars, chanVars, workerVars, LeaveInv
<1>t. TypeOK /\ LockInv /\ WakerInv /\ RegistryExact /\ EncodedInv
  BY DEF IInv
<1>1. ASSUME NEW c \in Calls, PollStart(c) PROVE LeaveInv'
  BY <1>1, <1>t DEF PollStart, TypeOK
<1>2. ASSUME NEW c \in Calls, PollPending(c) PROVE LeaveInv'
  BY <1>2, <1>t DEF PollPending, TypeOK
<1>3. ASSUME NEW w \in Workers, MarkExpired(w) PROVE LeaveInv'
  <2>1. \A c \in Calls : pc[c] = "parked" => c \in toWake'
    BY <1>3, <1>t DEF MarkExpired, RegistryExact, EncodedInv, Registered
  <2>2. UNCHANGED <<pc, woken, chanOpen>>
    BY <1>3 DEF MarkExpired
  <2>3. /\ wpc'["writer"] = "gone" => wpc["writer"] = "gone"
        /\ wpc'["writer"] \in {"mark", "waking", "gone"} => wpc["writer"] \in {"mark", "waking", "gone"}
        /\ ~expired
    BY <1>3, <1>t DEF MarkExpired, TypeOK
  <2>4. QED
    BY <2>1, <2>2, <2>3
<1>4. ASSUME NEW w \in Workers, AlreadyExpired(w) PROVE LeaveInv'
  <2>1. toWake = {} /\ expired
    BY <1>4, <1>t DEF AlreadyExpired, LockInv
  <2>2. UNCHANGED <<expired, toWake, pc, woken, chanOpen>>
    BY <1>4 DEF AlreadyExpired
  <2>3. wpc'["writer"] \in {"mark", "waking", "gone"} => wpc["writer"] \in {"mark", "waking", "gone"}
    BY <1>4, <1>t DEF AlreadyExpired, TypeOK
  <2>4. QED
    BY <2>1, <2>2, <2>3
<1>5. ASSUME NEW w \in Workers, NEW c \in Calls, WakeOne(w, c) PROVE LeaveInv'
  <2>1. pc[c] = "parked" => c \in woken'
    BY <1>5, <1>t DEF WakeOne, WakerInv
  <2>2. QED
    BY <1>5, <2>1, <1>t DEF WakeOne
<1>6. ASSUME NEW w \in Workers, Unlock(w) PROVE LeaveInv'
  <2>1. expired /\ toWake = {}
    BY <1>6, <1>t DEF Unlock, LockInv
  <2>2. UNCHANGED <<expired, toWake, pc, woken, chanOpen>>
    BY <1>6 DEF Unlock
  <2>3. wpc'["writer"] \in {"mark", "waking", "gone"} => wpc["writer"] \in {"mark", "waking", "gone"}
    BY <1>6, <1>t DEF Unlock, TypeOK
  <2>4. QED
    BY <2>1, <2>2, <2>3
<1>7. ASSUME CloseChannel PROVE LeaveInv'
  BY <1>7, Zenon DEF CloseChannel
<1>8. ASSUME CloseAtExit \/ Abort PROVE LeaveInv'
  <2>1. UNCHANGED <<expired, toWake, pc, woken>> /\ chanOpen' = FALSE
    BY <1>8, Zenon DEF CloseAtExit, Abort
  <2>2. wpc'["writer"] # "gone"
    BY <1>8, <1>t DEF CloseAtExit, Abort, TypeOK
  <2>3. QED
    BY <2>1, <2>2
<1>9. ASSUME \/ WakeAnswered \/ WakeFailed \/ StoreFailed \/ WriteFails \/ LeaveLoop \/ ReaderStops
             \/ CheckExpired \/ StoreResponse \/ WriteFrame \/ UNCHANGED vars
             \/ \E c \in Calls : RecvResponse(c)
      PROVE  LeaveInv'
  <2>1. UNCHANGED <<expired, toWake, pc, chanOpen>> /\ woken \subseteq woken'
    BY <1>9
    DEF WakeAnswered, WakeFailed, StoreFailed, WriteFails, LeaveLoop, ReaderStops,
        CheckExpired, StoreResponse, WriteFrame, RecvResponse
  <2>2. wpc'["writer"] \in {"mark", "waking", "gone"} => wpc["writer"] = wpc'["writer"]
    BY <1>9, <1>t
    DEF WakeAnswered, WakeFailed, StoreFailed, WriteFails, LeaveLoop, ReaderStops,
        CheckExpired, StoreResponse, WriteFrame, RecvResponse, TypeOK
  <2>3. QED
    BY <2>1, <2>2
<1>10. ASSUME NEW c \in Calls,
              \/ ReturnExpired(c) \/ EncodeFails(c) \/ Allocate(c) \/ AllocateFails(c)
              \/ Enqueue(c) \/ SendFails(c) \/ PollNone(c) \/ TryNone(c) \/ TakeReady(c)
              \/ TakeFailed(c) \/ PollExpired(c) \/ TryReturn(c) \/ DropHandle(c)
              \/ Unregister(c) \/ \E i \in Ids : Encode(c, i)
       PROVE  LeaveInv'
  <2>1. UNCHANGED <<expired, toWake, chanOpen, wpc, woken>>
    BY <1>10
    DEF ReturnExpired, EncodeFails, Allocate, AllocateFails, Enqueue, SendFails, PollNone,
        TryNone, FindNone, TakeReady, TakeFailed, PollExpired, TryReturn, DropHandle,
        Unregister, Encode
  <2>2. \A d \in Calls : pc'[d] = "parked" => pc[d] = "parked"
    BY <1>10, <1>t
    DEF ReturnExpired, EncodeFails, Allocate, AllocateFails, Enqueue, SendFails, PollNone,
        TryNone, FindNone, TakeReady, TakeFailed, PollExpired, TryReturn, DropHandle,
        Unregister, Encode, TypeOK
  <2>3. QED
    BY <2>1, <2>2
<1> HIDE DEF Workers, Wake, LockFree, Owned, vars, tableVars, slotVars, wakeVars,
             callVars, chanVars, workerVars, LeaveInv
<1>11. QED
  BY <1>1, <1>2, <1>3, <1>4, <1>5, <1>6, <1>7, <1>8, <1>9, <1>10
  DEF Next, CallStep, OwnerStep, ReaderStep, WriterStep, MarkStep

\* A write_runner that returned leaves no sleeping call behind that was not
\* woken, and nothing that lets a new one begin to wait.
THEOREM LeaveCorrect == Spec => []WriterLeavesNobody
<1>1. Init => LeaveInv
  BY DEF Init, LeaveInv, Workers
<1>2. IInv /\ LeaveInv /\ [Next]_vars => LeaveInv'
  BY NextLeaveInv
<1>3. LeaveInv => WriterLeavesNobody
  BY DEF LeaveInv, WriterLeavesNobody
<1>4. QED
  BY Inductive, <1>1, <1>2, <1>3, PTL DEF Spec

-----------------------------------------------------------------------------
(* The table implements RequestPromise.                                    *)

\* The abstract status of the calls, as Promise sees it.
StatusOf == [c \in Calls |-> Status(c)]

LEMMA InitPromise == Init => Promise!Init
  BY DEF Init, Promise!Init, Status, Registered, Failed, Retried

\* A step that leaves the results alone and moves no call in or out of the
\* registry keeps the abstract status.
LEMMA StatusKept ==
  ASSUME UNCHANGED result,
         \A d \in Calls : pc'[d] \in Registered <=> pc[d] \in Registered
  PROVE  StatusOf' = StatusOf
<1>1. \A d \in Calls : Status(d)' = Status(d)
  BY DEF Status
<1>2. QED
  BY <1>1 DEF StatusOf

\* A step that moves one call changes the abstract status of no other.
LEMMA StatusMoved ==
  ASSUME NEW c \in Calls,
         \A d \in Calls \ {c} : pc'[d] = pc[d] /\ result'[d] = result[d]
  PROVE  StatusOf' = [StatusOf EXCEPT ![c] = Status(c)']
<1>1. \A d \in Calls \ {c} : Status(d)' = Status(d)
  BY DEF Status
<1>2. QED
  BY <1>1 DEF StatusOf

\* Failed and Retried depend on which slots say WriteFailed, and on the counts.
LEMMA FailedKept ==
  ASSUME \A d \in Calls : response'[d] = "WriteFailed" <=> response[d] = "WriteFailed"
  PROVE  Failed' = Failed
  BY DEF Failed

LEMMA RetriedKept ==
  ASSUME UNCHANGED tries
  PROVE  Retried' = Retried
  BY DEF Retried

\* A call that has registered, whatever became of it since, is pending or
\* settled for the promise, and one whose thread is through is settled.
LEMMA SettledOrPending ==
  ASSUME TypeOK, ResultInv, NEW c \in Calls, pc[c] \notin {"idle", "allocate"},
         result[c] \notin Refusals
  PROVE  /\ Status(c) \in Promise!Unsettled \cup Promise!Settled
         /\ pc[c] = "done" => Status(c) \in Promise!Settled
<1>1. pc[c] \in Registered \cup {"done"} /\ result[c] \in Results
  BY DEF TypeOK, PCs
<1>2. pc[c] = "done" => result[c] \notin {"none", "TriedClosed"}
  BY DEF ResultInv
<1>3. QED
  BY <1>1, <1>2 DEF Status, Promise!Unsettled, Promise!Settled, Results, Refusals, Registered

\* What was written had not been refused, and a Ready slot has a payload.
SentInv ==
    /\ \A c \in sent : result[c] \notin Refusals
    /\ \A c \in Calls : response[c] = "Ready" => answer[c] \in sent

LEMMA NextSentInv ==
  ASSUME IInv, FifoInv, SentInv, [Next]_vars
  PROVE  SentInv'
<1> USE DEF tableVars, slotVars, wakeVars, callVars, chanVars, workerVars
<1>a. TypeOK
  BY DEF IInv
<1>1. ASSUME WriteFrame PROVE SentInv'
  <2>1. Head(queue) = queue[1] /\ 1 \in 1 .. Len(queue)
    BY <1>1, <1>a DEF WriteFrame, TypeOK
  <2>2. result[Head(queue)] \notin Refusals
    BY <2>1 DEF FifoInv, QueueInv
  <2>3. QED
    BY <1>1, <2>2 DEF WriteFrame, SentInv
<1>2. ASSUME StoreResponse PROVE SentInv'
  <2>1. data \in sent
    BY <1>2 DEF StoreResponse, IInv, RunnerInv
  <2>2. QED
    BY <1>2, <2>1, <1>a DEF StoreResponse, SentInv, TypeOK
<1>3. ASSUME NEW c \in Calls, ReturnExpired(c) \/ EncodeFails(c) PROVE SentInv'
  <2>1. c \notin sent
    BY <1>3 DEF ReturnExpired, EncodeFails, IInv, EncodedInv, Launched
  <2>2. QED
    BY <1>3, <2>1, <1>a DEF ReturnExpired, EncodeFails, SentInv, TypeOK
<1>4. ASSUME NEW c \in Calls,
             TakeReady(c) \/ TakeFailed(c) \/ PollExpired(c) \/ SendFails(c) \/ DropHandle(c)
      PROVE  SentInv'
  BY <1>4, <1>a DEF TakeReady, TakeFailed, PollExpired, SendFails, DropHandle, SentInv, TypeOK,
                    Refusals
<1>5. ASSUME StoreFailed PROVE SentInv'
  BY <1>5, <1>a DEF StoreFailed, SentInv, TypeOK
<1>6. ASSUME UNCHANGED <<sent, result, response, answer>> PROVE SentInv'
  BY <1>6 DEF SentInv
<1>7. ASSUME \/ CheckExpired \/ WakeAnswered \/ ReaderStops \/ WriteFails
             \/ WakeFailed \/ LeaveLoop \/ Abort \/ CloseAtExit \/ CloseChannel \/ UNCHANGED vars
             \/ \E w \in Workers : MarkStep(w)
             \/ \E c \in Calls :
                   \/ Allocate(c) \/ AllocateFails(c) \/ Enqueue(c) \/ PollStart(c) \/ PollNone(c)
                   \/ TryNone(c) \/ PollPending(c) \/ Unregister(c)
                   \/ RecvResponse(c) \/ \E i \in Ids : Encode(c, i)
      PROVE  UNCHANGED <<sent, result, response, answer>>
  BY <1>7 DEF CheckExpired, WakeAnswered, ReaderStops, WriteFails, WakeFailed, LeaveLoop, Abort,
     CloseAtExit, CloseChannel, MarkStep, MarkExpired, AlreadyExpired, Unlock, WakeOne, vars,
     Allocate, AllocateFails, Enqueue, PollStart, PollNone, TryNone, FindNone, PollPending,
     Unregister, RecvResponse, Encode
<1>8. ASSUME NEW c \in Calls, TryReturn(c) PROVE SentInv'
  BY <1>8, <1>a DEF TryReturn, SentInv, TypeOK, Refusals
<1> HIDE DEF tableVars, slotVars, wakeVars, callVars, chanVars, workerVars
<1>9. QED
  BY <1>1, <1>2, <1>3, <1>4, <1>5, <1>6, <1>7, <1>8
  DEF Next, CallStep, OwnerStep, ReaderStep, WriterStep

LEMMA SentInductive == Spec => []SentInv
<1>1. Init => SentInv
  BY DEF Init, SentInv
<1>2. IInv /\ FifoInv /\ SentInv /\ [Next]_vars => SentInv'
  BY NextSentInv
<1>3. QED
  BY Inductive, FifoInductive, <1>1, <1>2, PTL DEF Spec

LEMMA PromiseStep ==
  ASSUME IInv, FifoInv, SentInv, [Next]_vars
  PROVE  [Promise!Next]_<<StatusOf, got, sent, Failed, Retried, expired>>
<1> USE DEF tableVars, slotVars, wakeVars, callVars, chanVars, workerVars
<1>a. TypeOK /\ ResultInv /\ RunnerInv
  BY DEF IInv
<1>1. ASSUME NEW c \in Calls, ReturnExpired(c) \/ EncodeFails(c)
      PROVE  Promise!Refuse(c)
  <2>1. StatusOf' = [StatusOf EXCEPT ![c] = Status(c)'] /\ UNCHANGED <<got, sent, expired>>
    BY <1>1, <1>a, StatusMoved DEF ReturnExpired, EncodeFails, TypeOK
  <2>2. Status(c) = "new" /\ Status(c)' = "refused"
    BY <1>1, <1>a DEF ReturnExpired, EncodeFails, Status, TypeOK, ResultInv, Registered
  <2>3. UNCHANGED <<Failed, Retried>>
    BY <1>1, FailedKept, RetriedKept DEF ReturnExpired, EncodeFails
  <2>4. QED
    BY <2>1, <2>2, <2>3 DEF Promise!Refuse, Promise!Move, StatusOf
<1>2. ASSUME NEW c \in Calls, Allocate(c)
      PROVE  Promise!Issue(c)
  <2>1. StatusOf' = [StatusOf EXCEPT ![c] = Status(c)'] /\ UNCHANGED <<got, sent, expired>>
    BY <1>2, <1>a, StatusMoved DEF Allocate, TypeOK
  <2>2. Status(c) = "new" /\ Status(c)' = "pending" /\ ~expired
    BY <1>2, <1>a DEF Allocate, Status, TypeOK, ResultInv, Registered
  <2>3. UNCHANGED <<Failed, Retried>>
    BY <1>2, FailedKept, RetriedKept DEF Allocate
  <2>4. QED
    BY <2>1, <2>2, <2>3 DEF Promise!Issue, Promise!Move, StatusOf
<1>3. ASSUME NEW c \in Calls, TakeReady(c)
      PROVE  \E d \in Calls : Promise!Answer(c, d)
  <2>1. StatusOf' = [StatusOf EXCEPT ![c] = Status(c)'] /\ UNCHANGED <<sent, expired>>
    BY <1>3, <1>a, StatusMoved DEF TakeReady, TypeOK
  <2>2. Status(c) \in Promise!Unsettled /\ Status(c)' = "answered"
    BY <1>3, <1>a DEF TakeReady, Status, TypeOK, ResultInv, Registered, Owned,
                      Promise!Unsettled
  <2>3. UNCHANGED <<Failed, Retried>>
    BY <1>3, <1>a, FailedKept, RetriedKept DEF TakeReady, TypeOK
  <2>4. got' = [got EXCEPT ![c] = answer[c]]
    BY <1>3 DEF TakeReady
  <2>5. answer[c] \in sent /\ answer[c] \in Calls
    BY <1>3, <1>a DEF TakeReady, SentInv, TypeOK
  <2>6. answer[c] = c \/ answer[c] \in Retried \/ pc[answer[c]] = "done"
    BY <2>5, CallsAssumption DEF IInv, AnswerInv, Retried
  <2>7. answer[c] = c \/ answer[c] \in Retried \/ Status(answer[c]) \in Promise!Settled
    BY <2>5, <2>6, <1>a, SettledOrPending DEF SentInv
  <2>8. QED
    BY <2>1, <2>2, <2>3, <2>4, <2>5, <2>7 DEF Promise!Answer, Promise!Move, StatusOf
<1>4. ASSUME NEW c \in Calls, TakeFailed(c) \/ PollExpired(c)
      PROVE  Promise!Close(c)
  <2>1. StatusOf' = [StatusOf EXCEPT ![c] = Status(c)'] /\ UNCHANGED <<got, sent, expired>>
    BY <1>4, <1>a, StatusMoved DEF TakeFailed, PollExpired, TypeOK
  <2>2. Status(c) \in Promise!Unsettled /\ Status(c)' = "closed"
    BY <1>4, <1>a DEF TakeFailed, PollExpired, Status, TypeOK, ResultInv, Registered, Owned,
                      Promise!Unsettled
  <2>3. UNCHANGED <<Failed, Retried>>
    BY <1>4, FailedKept, RetriedKept DEF TakeFailed, PollExpired
  <2>4. expired \/ c \in Failed
    BY <1>4 DEF TakeFailed, PollExpired, Failed
  <2>5. QED
    BY <2>1, <2>2, <2>3, <2>4 DEF Promise!Close, Promise!Move, StatusOf
<1>5. ASSUME NEW c \in Calls, SendFails(c) \/ DropHandle(c)
      PROVE  Promise!Withdraw(c)
  <2>1. StatusOf' = [StatusOf EXCEPT ![c] = Status(c)'] /\ UNCHANGED <<got, sent, expired>>
    BY <1>5, <1>a, StatusMoved DEF SendFails, DropHandle, TypeOK
  <2>2. Status(c) \in Promise!Unsettled /\ Status(c)' = "withdrawn"
    BY <1>5, <1>a DEF SendFails, DropHandle, Status, TypeOK, ResultInv, Registered, Owned,
                      Promise!Unsettled
  <2>3. UNCHANGED <<Failed, Retried>>
    BY <1>5, FailedKept, RetriedKept DEF SendFails, DropHandle
  <2>4. QED
    BY <2>1, <2>2, <2>3 DEF Promise!Withdraw, Promise!Move, StatusOf
<1>6. ASSUME NEW w \in Workers, MarkExpired(w)
      PROVE  Promise!Expire
  <2>1. StatusOf' = StatusOf /\ UNCHANGED <<got, sent>> /\ expired' = TRUE /\ ~expired
    BY <1>6, StatusKept DEF MarkExpired
  <2>2. UNCHANGED <<Failed, Retried>>
    BY <1>6, FailedKept, RetriedKept DEF MarkExpired
  <2>3. QED
    BY <2>1, <2>2 DEF Promise!Expire, StatusOf
<1>7. ASSUME StoreFailed
      PROVE  \E c \in Calls : Promise!Fail(c)
  <2> DEFINE t == target["writer"]
  <2>1. t \in Calls /\ pc[t] \notin {"idle", "allocate"}
    BY <1>7, <1>a DEF StoreFailed, RunnerInv, Workers
  <2>2. t \notin sent /\ result[t] \notin Refusals /\ Failed = {}
    BY <1>7 DEF StoreFailed, FifoInv, FailedInv, Failed
  <2>3. Status(t) \in Promise!Unsettled \cup Promise!Settled
    BY <2>1, <2>2, <1>a, SettledOrPending
  <2>4. Failed' = {t}
    BY <1>7, <2>1, <2>2, <1>a DEF StoreFailed, Failed, TypeOK
  <2>5. StatusOf' = StatusOf /\ UNCHANGED <<got, sent, expired, Retried>>
    BY <1>7, StatusKept, RetriedKept DEF StoreFailed
  <2>6. Promise!Fail(t)
    BY <2>1, <2>2, <2>3, <2>4, <2>5 DEF Promise!Fail, StatusOf
  <2>7. QED
    BY <2>1, <2>6
<1>8. ASSUME WriteFrame
      PROVE  \E c \in Calls : Promise!Write(c)
  <2> DEFINE h == Head(queue)
  <2>1. h \in Calls /\ h = queue[1] /\ 1 \in 1 .. Len(queue)
    BY <1>8, <1>a DEF WriteFrame, TypeOK
  <2>2. pc[h] \notin {"idle", "allocate"} /\ result[h] \notin Refusals /\ h \notin sent
    BY <2>1 DEF IInv, EncodedInv, Launched, FifoInv, QueueInv
  <2>3. Failed = {}
    BY <1>8 DEF WriteFrame, FifoInv, FailedInv, Failed
  <2>4. Status(h) \in Promise!Unsettled \cup Promise!Settled
    BY <2>1, <2>2, <1>a, SettledOrPending
  <2>5. sent' = sent \cup {h} /\ StatusOf' = StatusOf /\ UNCHANGED <<got, expired>>
    BY <1>8, StatusKept DEF WriteFrame
  <2>6. UNCHANGED <<Failed, Retried>>
    BY <1>8, FailedKept, RetriedKept DEF WriteFrame
  <2>7. Promise!Write(h)
    BY <2>1, <2>2, <2>3, <2>4, <2>5, <2>6 DEF Promise!Write, StatusOf
  <2>8. QED
    BY <2>1, <2>7
<1>9. ASSUME NEW c \in Calls, NEW i \in Ids, Encode(c, i)
      PROVE  Promise!Retry(c) \/ UNCHANGED <<StatusOf, got, sent, Failed, Retried, expired>>
  <2>1. UNCHANGED <<got, sent, expired, response, result>>
    BY <1>9 DEF Encode
  <2>2. \A d \in Calls : pc'[d] \in Registered <=> pc[d] \in Registered
    BY <1>9, <1>a DEF Encode, TypeOK, Registered
  <2>3. StatusOf' = StatusOf /\ Failed' = Failed
    BY <2>1, <2>2, StatusKept, FailedKept
  <2>4. Status(c) = "new"
    BY <1>9, <1>a DEF Encode, Status, ResultInv, Registered
  <2>5. /\ tries[c] \in Nat /\ tries'[c] = tries[c] + 1
        /\ \A d \in Calls \ {c} : tries'[d] = tries[d]
    BY <1>9, <1>a, MaxRetryAssumption DEF Encode, TypeOK
  <2>6. CASE tries[c] = 0
    <3>1. Retried' = Retried
      BY <2>5, <2>6 DEF Retried
    <3>2. QED
      BY <2>1, <2>3, <3>1
  <2>7. CASE tries[c] # 0
    <3>1. Retried' = Retried \cup {c}
      BY <2>5, <2>7 DEF Retried
    <3>2. QED
      BY <2>1, <2>3, <2>4, <3>1 DEF Promise!Retry, StatusOf
  <2>8. QED
    BY <2>6, <2>7
<1>10. ASSUME NEW c \in Calls, Unregister(c)
       PROVE  UNCHANGED <<StatusOf, got, sent, Failed, Retried, expired>>
  <2>1. Status(c)' = Status(c)
    BY <1>10, <1>a DEF Unregister, Status, TypeOK, ResultInv
  <2>2. StatusOf' = [StatusOf EXCEPT ![c] = Status(c)'] /\ UNCHANGED <<got, sent, expired>>
    BY <1>10, <1>a, StatusMoved DEF Unregister, TypeOK
  <2>3. UNCHANGED <<Failed, Retried>>
    BY <1>10, FailedKept, RetriedKept DEF Unregister
  <2>4. QED
    BY <2>1, <2>2, <2>3 DEF StatusOf
<1>11. ASSUME NEW c \in Calls,
              \/ AllocateFails(c) \/ Enqueue(c) \/ PollStart(c) \/ PollNone(c)
              \/ TryNone(c) \/ PollPending(c)
       PROVE  UNCHANGED <<StatusOf, got, sent, Failed, Retried, expired>>
  <2>1. UNCHANGED <<expired, response, result, got, sent, tries>>
    BY <1>11 DEF AllocateFails, Enqueue, PollStart, PollNone, TryNone, FindNone,
                 PollPending
  <2>2. \A d \in Calls : pc'[d] \in Registered <=> pc[d] \in Registered
    BY <1>11, <1>a DEF AllocateFails, Enqueue, PollStart, PollNone, TryNone, FindNone,
                       PollPending, TypeOK, Registered, Owned
  <2>3. QED
    BY <2>1, <2>2, StatusKept, FailedKept, RetriedKept
<1>12. ASSUME StoreResponse
       PROVE  UNCHANGED <<StatusOf, got, sent, Failed, Retried, expired>>
  <2>1. \A d \in Calls : response'[d] = "WriteFailed" <=> response[d] = "WriteFailed"
    BY <1>12, <1>a DEF StoreResponse, TypeOK
  <2>2. UNCHANGED <<expired, pc, result, got, sent, tries>>
    BY <1>12 DEF StoreResponse
  <2>3. QED
    BY <2>1, <2>2, StatusKept, FailedKept, RetriedKept
<1>13. ASSUME UNCHANGED <<expired, response, pc, result, got, sent, tries>>
       PROVE  UNCHANGED <<StatusOf, got, sent, Failed, Retried, expired>>
  BY <1>13, StatusKept, FailedKept, RetriedKept
<1>14. ASSUME \/ CheckExpired \/ WakeAnswered \/ ReaderStops \/ WriteFails
              \/ WakeFailed \/ LeaveLoop \/ Abort \/ CloseAtExit \/ CloseChannel \/ UNCHANGED vars
              \/ \E c \in Calls : RecvResponse(c)
              \/ \E w \in Workers : AlreadyExpired(w) \/ Unlock(w) \/ \E c \in Calls : WakeOne(w, c)
       PROVE  UNCHANGED <<expired, response, pc, result, got, sent, tries>>
  BY <1>14 DEF CheckExpired, WakeAnswered, ReaderStops, WriteFails, WakeFailed,
     LeaveLoop, Abort, CloseAtExit, CloseChannel, RecvResponse, AlreadyExpired, Unlock,
     WakeOne, vars
<1>15. ASSUME NEW c \in Calls, TryReturn(c)
       PROVE  Promise!Tell(c) \/ UNCHANGED <<StatusOf, got, sent, Failed, Retried, expired>>
  <2>1. StatusOf' = [StatusOf EXCEPT ![c] = Status(c)'] /\ UNCHANGED <<got, sent, expired>>
    BY <1>15, <1>a, StatusMoved DEF TryReturn, TypeOK
  <2>2. UNCHANGED <<Failed, Retried>>
    BY <1>15, FailedKept, RetriedKept DEF TryReturn
  <2>3. Status(c) \in Promise!Unsettled /\ StatusOf[c] = Status(c)
    BY <1>15, <1>a DEF TryReturn, Status, TypeOK, ResultInv, Registered, Promise!Unsettled,
                       StatusOf
  <2>4. CASE expired /\ Status(c) = "pending"
    <3>1. Status(c)' = "told"
      BY <1>15, <1>a, <2>4 DEF TryReturn, Status, TypeOK
    <3>2. StatusOf[c] \in {"pending"}
      BY <2>3, <2>4
    <3>3. StatusOf' = [StatusOf EXCEPT ![c] = "told"]
      BY <2>1, <3>1
    <3>4. QED
      BY <2>1, <2>2, <2>4, <3>2, <3>3 DEF Promise!Tell, Promise!Move, StatusOf
  <2>5. CASE ~expired \/ Status(c) = "told"
    <3>1. Status(c)' = Status(c)
      BY <1>15, <1>a, <2>5 DEF TryReturn, Status, TypeOK, ResultInv, Registered
    <3>2. QED
      BY <2>1, <2>2, <3>1 DEF StatusOf
  <2>6. QED
    BY <2>3, <2>4, <2>5 DEF Promise!Unsettled
<1> HIDE DEF tableVars, slotVars, wakeVars, callVars, chanVars, workerVars
<1>16. QED
  BY <1>1, <1>2, <1>3, <1>4, <1>5, <1>6, <1>7, <1>8, <1>9, <1>10, <1>11, <1>12, <1>13, <1>14,
     <1>15
  DEF Next, CallStep, OwnerStep, ReaderStep, WriterStep, MarkStep, Promise!Next

\* The table of requests keeps the promise: a request is registered only
\* before expiry and settled once; its answer is the answer to its own frame,
\* to that of a settled request or to one encoded twice; Closed is said only
\* after the expiry, or of a request whose write failed, and by try_recv, which
\* settles nothing, only after the expiry.
THEOREM PromiseCorrect == Spec => PromiseKept
<1>1. IInv /\ FifoInv /\ SentInv /\ [Next]_vars => [Promise!Next]_(Promise!pvars)
  BY PromiseStep DEF Promise!pvars, StatusOf
<1>2. QED
  BY InitPromise, Inductive, FifoInductive, SentInductive, <1>1, PTL
  DEF Spec, PromiseKept, Promise!Spec
=============================================================================
