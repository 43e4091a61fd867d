------------------------- MODULE InMemoryPipe_proofs -------------------------
(***************************************************************************)
(* Proofs about InMemoryPipe for every capacity and any number of frames.  *)
(***************************************************************************)
EXTENDS InMemoryPipe, SequenceTheorems, TLAPS

\* A sender that found room still has it when it pushes, and until it says so:
\* only itself takes places away.
RoomInv == tx \in {"push", "sub"} => semaphore > 0

\* What was pushed is in the queue or was received.
CountInv == Len(received) + Len(queue) = pushed

\* From the registration of its waker until the next poll, a task has a waker
\* in place or was woken.
WakerInv ==
    /\ tx \in {"closed2", "room2", "sleep"} => "tx" \in wakers \cup woken
    /\ rx \in {"pop2", "closed2", "sleep"} => "rx" \in wakers \cup woken

\* NoLostWakeup, from the moment the last check has passed.
NewsInv ==
    /\ rx \in {"closed2", "sleep"} /\ queue # << >> => "rx" \in woken \/ tx \in {"sub", "wake"}
    /\ rx = "sleep" /\ closed => "rx" \in woken \/ tx = "closing"
    /\ tx = "sleep" /\ semaphore > 0 => "tx" \in woken \/ rx = "wake"
    /\ tx \in {"room2", "sleep"} /\ closed => "tx" \in woken \/ rx = "dropping"

\* The arithmetic of a push and of a pop, for the counter and for the order.
LEMMA PushCounts ==
  ASSUME Capacity \in Nat, semaphore \in Nat, Len(queue) \in Nat,
         Len(queue') = Len(queue) + 1, tx = "push", tx' = "sub",
         semaphore' = semaphore, rx' = rx, SemaphoreExact
  PROVE  SemaphoreExact'
<1> DEFINE q == Len(queue)
           p == Len(queue')
<1>1. q \in Nat /\ p = q + 1
  OBVIOUS
<1>2. semaphore + q + (IF rx = "add" THEN 1 ELSE 0) = Capacity
  BY <1>1 DEF SemaphoreExact
<1> HIDE DEF q, p
<1>3. semaphore + p + (IF rx = "add" THEN 1 ELSE 0) = Capacity + 1
  BY <1>1, <1>2
<1>4. QED
  BY <1>3 DEF SemaphoreExact, p

LEMMA PopCounts ==
  ASSUME Capacity \in Nat, semaphore \in Nat, Len(queue) \in Nat, Len(queue') \in Nat,
         Len(queue') = Len(queue) - 1, rx # "add", rx' = "add",
         semaphore' = semaphore, tx' = tx, SemaphoreExact
  PROVE  SemaphoreExact'
<1> DEFINE q == Len(queue)
           p == Len(queue')
<1>1. q \in Nat /\ p \in Nat /\ p = q - 1
  OBVIOUS
<1>2. semaphore + q = Capacity + (IF tx = "sub" THEN 1 ELSE 0)
  BY <1>1 DEF SemaphoreExact
<1> HIDE DEF q, p
<1>3. semaphore + p + 1 = Capacity + (IF tx = "sub" THEN 1 ELSE 0)
  BY <1>1, <1>2
<1>4. QED
  BY <1>3 DEF SemaphoreExact, p

LEMMA PopKeepsCount ==
  ASSUME NEW r \in Nat, NEW q \in Nat, NEW r2 \in Nat, NEW q2 \in Nat, NEW n \in Nat,
         r + q = n, r2 = r + 1, q2 = q - 1
  PROVE  r2 + q2 = n
OBVIOUS

LEMMA PopShifts ==
  ASSUME NEW r \in Nat, NEW q2 \in Nat, NEW r2 \in Nat, r2 = r + 1,
         NEW k \in Nat, k <= r2 + q2, k > r + 1
  PROVE  /\ k - r2 \in 1 .. q2
         /\ (k - r2) + 1 = k - r
         /\ ~(k <= r2) /\ ~(k <= r)
OBVIOUS

IInv ==
    /\ TypeOK
    /\ SemaphoreExact
    /\ RoomInv
    /\ CountInv
    /\ InOrder
    /\ WakerInv
    /\ NewsInv

LEMMA InitIInv == Init => IInv
<1> SUFFICES ASSUME Init PROVE IInv
  OBVIOUS
<1>1. TypeOK
  <2>1. queue \in Seq(Nat) /\ received \in Seq(Nat)
    BY DEF Init
  <2>2. QED
    BY <2>1, PipeCapacityAssumption DEF Init, TypeOK
<1>2. SemaphoreExact /\ CountInv /\ InOrder
  <2>1. Len(queue) = 0 /\ Len(received) = 0 /\ received \o queue = << >>
    BY DEF Init
  <2>2. QED
    BY <2>1, PipeCapacityAssumption DEF Init, SemaphoreExact, CountInv, InOrder
<1>3. RoomInv /\ WakerInv /\ NewsInv
  BY DEF Init, RoomInv, WakerInv, NewsInv
<1>4. QED
  BY <1>1, <1>2, <1>3 DEF IInv

\* A push or a pop keeps received \o queue in order.
LEMMA OrderStep ==
  ASSUME TypeOK, CountInv, InOrder,
         \/ queue' = Append(queue, pushed + 1) /\ pushed' = pushed + 1 /\ UNCHANGED received
         \/ /\ queue # << >> /\ queue' = Tail(queue) /\ UNCHANGED pushed
            /\ received' = Append(received, Head(queue))
         \/ UNCHANGED <<queue, pushed, received>>
  PROVE  CountInv' /\ InOrder' /\ queue' \in Seq(Nat) /\ received' \in Seq(Nat)
<1>t. /\ queue \in Seq(Nat) /\ received \in Seq(Nat) /\ pushed \in Nat
      /\ Len(queue) \in Nat /\ Len(received) \in Nat
      /\ Len(received) + Len(queue) = pushed
  BY DEF TypeOK, CountInv
<1>1. CASE queue' = Append(queue, pushed + 1) /\ pushed' = pushed + 1 /\ UNCHANGED received
  BY <1>t, <1>1 DEF CountInv, InOrder
<1>2. CASE /\ queue # << >> /\ queue' = Tail(queue) /\ UNCHANGED pushed
           /\ received' = Append(received, Head(queue))
  <2> DEFINE rest == Tail(queue)
  <2>1. /\ rest \in Seq(Nat) /\ Len(rest) \in Nat /\ Len(rest) = Len(queue) - 1
        /\ queue' = rest /\ pushed' = pushed
    BY <1>t, <1>2, HeadTailProperties, LenProperties
  <2>2. \A i \in 1 .. Len(rest) : rest[i] = queue[i + 1]
    BY <1>t, <1>2, HeadTailProperties
  <2>3. Head(queue) = queue[1] /\ Head(queue) \in Nat
    BY <1>t, <1>2, HeadTailProperties
  <2>4. received' \in Seq(Nat) /\ Len(received') = Len(received) + 1
    BY <1>t, <1>2, <2>3, AppendProperties
  <2>5. /\ \A i \in 1 .. Len(received) : received'[i] = received[i]
        /\ received'[Len(received) + 1] = queue[1]
    BY <1>t, <1>2, <2>3, AppendProperties
  <2> HIDE DEF rest
  <2>6. Len(received \o queue) = Len(received) + Len(queue)
    BY <1>t, ConcatProperties
  <2>7. \A i \in 1 .. Len(received) + Len(queue) :
           i = IF i <= Len(received) THEN received[i] ELSE queue[i - Len(received)]
    BY <1>t, ConcatProperties DEF InOrder
  <2>8. Len(received' \o rest) = Len(received') + Len(rest)
    BY <2>1, <2>4, ConcatProperties
  <2>9. \A i \in 1 .. Len(received') + Len(rest) :
           (received' \o rest)[i] =
              IF i <= Len(received') THEN received'[i] ELSE rest[i - Len(received')]
    BY <2>1, <2>4, ConcatProperties
  <2>10. CountInv'
    <3>1. /\ Len(received) \in Nat /\ Len(queue) \in Nat /\ pushed \in Nat
          /\ Len(received) + Len(queue) = pushed
      BY <1>t
    <3>2. /\ Len(received') \in Nat /\ Len(received') = Len(received) + 1
          /\ Len(rest) \in Nat /\ Len(rest) = Len(queue) - 1
      BY <1>t, <2>1, <2>4
    <3>3. Len(received') + Len(rest) = pushed
      BY <3>1, <3>2, PopKeepsCount
    <3>4. QED
      BY <2>1, <3>3 DEF CountInv
  <2>11. ASSUME NEW k \in 1 .. Len(received' \o rest)
         PROVE  (received' \o rest)[k] = k
    <3>1. /\ k \in 1 .. Len(received') + Len(rest)
          /\ k \in 1 .. Len(received) + Len(queue)
          /\ k \in Nat
      BY <1>t, <2>1, <2>4, <2>8
    <3>2. CASE k <= Len(received)
      <4>1. (received' \o rest)[k] = received[k]
        BY <1>t, <2>4, <2>5, <2>9, <3>1, <3>2
      <4>2. k = received[k]
        BY <2>7, <3>1, <3>2
      <4>3. QED
        BY <4>1, <4>2
    <3>3. CASE k = Len(received) + 1
      <4>1. (received' \o rest)[k] = queue[1]
        BY <1>t, <2>4, <2>5, <2>9, <3>1, <3>3
      <4>2. ~(k <= Len(received)) /\ k - Len(received) = 1
        BY <1>t, <3>3
      <4>3. k = queue[1]
        BY <2>7, <3>1, <4>2
      <4>4. QED
        BY <4>1, <4>3
    <3>4. CASE k > Len(received) + 1
      <4>1. /\ k - Len(received') \in 1 .. Len(rest)
            /\ (k - Len(received')) + 1 = k - Len(received)
            /\ ~(k <= Len(received')) /\ ~(k <= Len(received))
        <5>1. /\ Len(received) \in Nat /\ Len(rest) \in Nat /\ Len(received') \in Nat
              /\ Len(received') = Len(received) + 1
          BY <1>t, <2>1, <2>4
        <5>2. k <= Len(received') + Len(rest)
          BY <3>1, <5>1
        <5>3. k \in Nat /\ k > Len(received) + 1
          BY <3>1, <3>4
        <5>4. QED
          BY <5>1, <5>2, <5>3, PopShifts
      <4>2. (received' \o rest)[k] = rest[k - Len(received')]
        BY <2>9, <3>1, <4>1
      <4>3. rest[k - Len(received')] = queue[k - Len(received)]
        BY <2>2, <4>1
      <4>4. k = queue[k - Len(received)]
        BY <2>7, <3>1, <4>1
      <4>5. QED
        BY <4>2, <4>3, <4>4
    <3>5. QED
      BY <1>t, <3>1, <3>2, <3>3, <3>4
  <2>12. InOrder'
    BY <2>1, <2>11 DEF InOrder
  <2>13. QED
    BY <2>1, <2>4, <2>10, <2>12
<1>3. CASE UNCHANGED <<queue, pushed, received>>
  BY <1>t, <1>3 DEF CountInv, InOrder
<1>4. QED
  BY <1>1, <1>2, <1>3

\* Every step preserves the invariant.
LEMMA NextIInv ==
  ASSUME IInv, [Next]_vars
  PROVE  IInv'
<1>a. TypeOK /\ CountInv /\ InOrder /\ Capacity \in Nat
  BY PipeCapacityAssumption DEF IInv
<1> USE DEF vars, txVars, rxVars, Wake, TxGoto
<1>1. CountInv' /\ InOrder' /\ queue' \in Seq(Nat) /\ received' \in Seq(Nat)
  <2>1. \/ queue' = Append(queue, pushed + 1) /\ pushed' = pushed + 1 /\ UNCHANGED received
        \/ /\ queue # << >> /\ queue' = Tail(queue) /\ UNCHANGED pushed
           /\ received' = Append(received, Head(queue))
        \/ UNCHANGED <<queue, pushed, received>>
    BY DEF Next, TxPoll, TxStep, TxClose, RxPoll, RxStep, RxDrop, TxCheckClosed,
           TxCheckRoom, TxRegister, TxPush, TxSub, TxWake, TxCloseWake, RxPop,
           RxCheckClosed, RxRegister, RxAdd, RxWake, RxDropWake
  <2>2. QED
    BY <1>a, <2>1, OrderStep
<1>s. queue' \in Seq(Nat) /\ received' \in Seq(Nat) /\ Capacity \in Nat /\ pushed \in Nat
  BY <1>a, <1>1 DEF TypeOK
<1> DEFINE Rest == TypeOK /\ SemaphoreExact /\ RoomInv /\ WakerInv /\ NewsInv
<1>r. Rest
  BY DEF IInv
<1> USE DEF TypeOK, SemaphoreExact, RoomInv, WakerInv, NewsInv
<1>2. ASSUME TxPoll PROVE Rest'
  BY <1>s, <1>r, <1>2 DEF TxPoll
<1>3. ASSUME TxClose PROVE Rest'
  BY <1>s, <1>r, <1>3 DEF TxClose
<1>4. ASSUME TxRegister PROVE Rest'
  BY <1>s, <1>r, <1>4 DEF TxRegister
<1>5. ASSUME TxSub PROVE Rest'
  BY <1>s, <1>r, <1>5 DEF TxSub
<1>6. ASSUME TxWake PROVE Rest'
  BY <1>s, <1>r, <1>6 DEF TxWake
<1>7. ASSUME TxCloseWake PROVE Rest'
  BY <1>s, <1>r, <1>7 DEF TxCloseWake
<1>8. ASSUME TxCheckClosed("closed1", "room1") PROVE Rest'
  BY <1>s, <1>r, <1>8 DEF TxCheckClosed
<1>9. ASSUME TxCheckClosed("closed2", "room2") PROVE Rest'
  BY <1>s, <1>r, <1>9 DEF TxCheckClosed
<1>10. ASSUME TxCheckRoom("room1", "register") PROVE Rest'
  BY <1>s, <1>r, <1>10 DEF TxCheckRoom
<1>11. ASSUME TxCheckRoom("room2", "sleep") PROVE Rest'
  BY <1>s, <1>r, <1>11 DEF TxCheckRoom
<1>12. ASSUME TxPush PROVE Rest'
  <2>1. /\ Len(queue) \in Nat /\ Len(queue') = Len(queue) + 1 /\ pushed' \in Nat
        /\ tx = "push" /\ tx' = "sub"
        /\ UNCHANGED <<semaphore, closed, wakers, woken, rx, refused, asked>>
    BY <1>s, <1>r, <1>12, AppendProperties DEF TxPush
  <2>2. SemaphoreExact'
    <3>1. semaphore \in Nat /\ SemaphoreExact
      BY <1>r
    <3> HIDE DEF TypeOK, SemaphoreExact
    <3>2. QED
      BY <1>s, <2>1, <3>1, PushCounts
  <2>3. (TypeOK /\ RoomInv /\ WakerInv /\ NewsInv)'
    BY <1>s, <1>r, <2>1
  <2>4. QED
    BY <2>2, <2>3
<1>13. ASSUME RxPoll PROVE Rest'
  BY <1>s, <1>r, <1>13 DEF RxPoll
<1>14. ASSUME RxPop("pop1", "closed1") PROVE Rest'
  <2>1. CASE queue = << >>
    BY <1>s, <1>r, <1>14, <2>1 DEF RxPop
  <2>2. CASE queue # << >>
    <3>1. /\ Len(queue) \in Nat /\ Len(queue') \in Nat /\ Len(queue') = Len(queue) - 1
          /\ rx \in {"pop1", "pop2"} /\ rx' = "add"
          /\ UNCHANGED <<semaphore, closed, wakers, woken, tx, pushed, refused, asked>>
      BY <1>r, <1>14, <2>2, HeadTailProperties DEF RxPop
    <3>2. SemaphoreExact'
      <4>1. semaphore \in Nat /\ SemaphoreExact
        BY <1>r
      <4> HIDE DEF TypeOK, SemaphoreExact
      <4>2. QED
        BY <1>s, <3>1, <4>1, PopCounts
    <3>3. (TypeOK /\ RoomInv /\ WakerInv /\ NewsInv)'
      BY <1>s, <1>r, <2>2, <3>1
    <3>4. QED
      BY <3>2, <3>3
  <2>3. QED
    BY <2>1, <2>2
<1>15. ASSUME RxPop("pop2", "closed2") PROVE Rest'
  <2>1. CASE queue = << >>
    BY <1>s, <1>r, <1>15, <2>1 DEF RxPop
  <2>2. CASE queue # << >>
    <3>1. /\ Len(queue) \in Nat /\ Len(queue') \in Nat /\ Len(queue') = Len(queue) - 1
          /\ rx \in {"pop1", "pop2"} /\ rx' = "add"
          /\ UNCHANGED <<semaphore, closed, wakers, woken, tx, pushed, refused, asked>>
      BY <1>r, <1>15, <2>2, HeadTailProperties DEF RxPop
    <3>2. SemaphoreExact'
      <4>1. semaphore \in Nat /\ SemaphoreExact
        BY <1>r
      <4> HIDE DEF TypeOK, SemaphoreExact
      <4>2. QED
        BY <1>s, <3>1, <4>1, PopCounts
    <3>3. (TypeOK /\ RoomInv /\ WakerInv /\ NewsInv)'
      BY <1>s, <1>r, <2>2, <3>1
    <3>4. QED
      BY <3>2, <3>3
  <2>3. QED
    BY <2>1, <2>2
<1>16. ASSUME RxCheckClosed("closed1", "register") PROVE Rest'
  BY <1>s, <1>r, <1>16 DEF RxCheckClosed
<1>17. ASSUME RxCheckClosed("closed2", "sleep") PROVE Rest'
  BY <1>s, <1>r, <1>17 DEF RxCheckClosed
<1>18. ASSUME RxRegister PROVE Rest'
  BY <1>s, <1>r, <1>18 DEF RxRegister
<1>19. ASSUME RxAdd PROVE Rest'
  BY <1>s, <1>r, <1>19 DEF RxAdd
<1>20. ASSUME RxWake PROVE Rest'
  BY <1>s, <1>r, <1>20 DEF RxWake
<1>21. ASSUME RxDrop PROVE Rest'
  BY <1>s, <1>r, <1>21 DEF RxDrop
<1>22. ASSUME RxDropWake PROVE Rest'
  BY <1>s, <1>r, <1>22 DEF RxDropWake
<1>23. ASSUME UNCHANGED vars PROVE Rest'
  BY <1>s, <1>r, <1>23 DEF vars
<1> HIDE DEF vars, TypeOK, SemaphoreExact, RoomInv, WakerInv, NewsInv
<1>24. Rest'
  BY <1>2, <1>3, <1>4, <1>5, <1>6, <1>7, <1>8, <1>9, <1>10, <1>11, <1>12, <1>13, <1>14, <1>15, <1>16, <1>17, <1>18, <1>19, <1>20, <1>21, <1>22, <1>23
  DEF Next, TxStep, RxStep
<1>25. QED
  BY <1>1, <1>24 DEF IInv

LEMMA Inductive == Spec => []IInv
<1>1. IInv /\ [Next]_vars => IInv'
  BY NextIInv
<1>2. QED
  BY InitIInv, <1>1, PTL DEF Spec

\* Every variable of the pipe keeps to its range; the counter is a natural
\* number, so its subtraction never wraps.
THEOREM TypeCorrect == Spec => []TypeOK
<1>1. IInv => TypeOK
  BY DEF IInv
<1>2. QED
  BY <1>1, Inductive, PTL

\* The counter and the queue agree up to the two frames in motion.
THEOREM SemaphoreCorrect == Spec => []SemaphoreExact
<1>1. IInv => SemaphoreExact
  BY DEF IInv
<1>2. QED
  BY <1>1, Inductive, PTL

\* The loop of start_send never spins.
THEOREM PushCorrect == Spec => []NeverSpins
<1>1. IInv => NeverSpins
  BY PipeCapacityAssumption DEF IInv, TypeOK, SemaphoreExact, RoomInv, NeverSpins
<1>2. QED
  BY <1>1, Inductive, PTL

\* Frames are received in the order they were sent, none twice, none left out.
THEOREM OrderCorrect == Spec => []InOrder
<1>1. IInv => InOrder
  BY DEF IInv
<1>2. QED
  BY <1>1, Inductive, PTL

\* Sender and reader never wait for each other.
THEOREM DeadlockFree == Spec => []NeverBothAsleep
<1>1. ASSUME IInv PROVE NeverBothAsleep
  <2> SUFFICES ASSUME tx = "sleep", rx = "sleep", woken = {} PROVE FALSE
    BY DEF NeverBothAsleep
  <2>1. queue = << >> /\ ~(semaphore > 0)
    BY <1>1 DEF IInv, NewsInv
  <2>2. semaphore = Capacity
    BY <1>1, <2>1, PipeCapacityAssumption DEF IInv, TypeOK, SemaphoreExact
  <2>3. QED
    BY <2>1, <2>2, PipeCapacityAssumption
<1>2. QED
  BY <1>1, Inductive, PTL

\* Neither task sleeps on news.
THEOREM WakeupsCorrect == Spec => []NoLostWakeup
<1>1. IInv => NoLostWakeup
  BY DEF IInv, TypeOK, NewsInv, NoLostWakeup
<1>2. QED
  BY <1>1, Inductive, PTL

-----------------------------------------------------------------------------
(* The end of the stream, and the refinement of FramePipe.                 *)

\* The one closed flag tells either side of the other's going only: a side
\* that has set it does not look at it any more.
EndInv ==
    /\ closed => tx \in {"closing", "gone"} \/ rx \in {"dropping", "gone"}
    /\ refused => closed /\ tx \in {"idle", "closed1", "closing", "gone"} /\ rx \in {"dropping", "gone"}

\* A reader that found the queue empty has what was there when it asked.
AskedInv ==
    /\ asked <= pushed
    /\ rx \in {"closed1", "register", "pop2", "closed2", "sleep", "eof"} => Len(received) >= asked

\* The flag and the sender's step are not disturbed by the reader's looks.
LEMMA NextEndInv ==
  ASSUME IInv, EndInv, [Next]_vars
  PROVE  EndInv'
<1> USE DEF vars, txVars, rxVars, Wake, TxGoto, EndInv
<1>t. tx \in {"idle", "closed1", "room1", "register", "closed2", "room2", "sleep",
               "push", "sub", "wake", "closing", "gone"}
  BY DEF IInv, TypeOK
<1>1. ASSUME \/ TxPoll \/ TxRegister \/ TxSub \/ TxPush \/ TxWake \/ TxCloseWake \/ TxClose
             \/ TxCheckRoom("room1", "register") \/ TxCheckRoom("room2", "sleep")
      PROVE  EndInv'
  BY <1>t, <1>1 DEF TxPoll, TxRegister, TxSub, TxPush, TxWake, TxCloseWake, TxClose, TxCheckRoom
<1>2. ASSUME TxCheckClosed("closed1", "room1") \/ TxCheckClosed("closed2", "room2")
      PROVE  EndInv'
  <2>1. CASE closed
    <3>1. closed' /\ tx' = "idle" /\ rx' = rx
      BY <1>2, <2>1 DEF TxCheckClosed
    <3>2. rx \in {"dropping", "gone"}
      BY <1>2, <2>1 DEF TxCheckClosed
    <3>3. QED
      BY <3>1, <3>2
  <2>2. CASE ~closed
    <3>1. ~refused
      BY <2>2
    <3>2. refused' = (refused \/ closed) /\ closed' = closed
      BY <1>2, Zenon DEF TxCheckClosed
    <3>3. ~closed' /\ ~refused'
      BY <2>2, <3>1, <3>2, Zenon
    <3>4. QED
      BY <3>3
  <2>3. QED
    BY <2>1, <2>2
<1>3. ASSUME \/ RxPoll \/ RxRegister \/ RxAdd \/ RxWake \/ RxDrop \/ RxDropWake
             \/ RxCheckClosed("closed1", "register") \/ RxCheckClosed("closed2", "sleep")
      PROVE  EndInv'
  BY <1>t, <1>3 DEF RxPoll, RxRegister, RxAdd, RxWake, RxDrop, RxDropWake, RxCheckClosed
<1>4. ASSUME RxPop("pop1", "closed1") \/ RxPop("pop2", "closed2")
      PROVE  EndInv'
  <2>1. rx \in {"pop1", "pop2"} /\ UNCHANGED <<closed, tx, refused>>
    BY <1>4 DEF RxPop
  <2>2. QED
    BY <1>t, <2>1
<1>5. CASE UNCHANGED vars
  BY <1>5
<1>6. QED
  BY <1>1, <1>2, <1>3, <1>4, <1>5 DEF Next, TxStep, RxStep

LEMMA NextAskedInv ==
  ASSUME IInv, IInv', AskedInv, [Next]_vars
  PROVE  AskedInv'
<1> USE DEF vars, txVars, rxVars, Wake, TxGoto
<1>t. /\ asked \in Nat /\ pushed \in Nat /\ Len(received) \in Nat /\ Len(queue) \in Nat
      /\ Len(received) + Len(queue) = pushed
  BY DEF IInv, TypeOK, CountInv
<1>1. ASSUME UNCHANGED <<asked, pushed, rx, received>>
      PROVE  AskedInv'
  BY <1>1 DEF AskedInv
<1>2. ASSUME TxPush PROVE AskedInv'
  <2>1. pushed' = pushed + 1 /\ UNCHANGED <<asked, rx, received>>
    BY <1>2 DEF TxPush
  <2>2. QED
    BY <1>t, <2>1 DEF AskedInv
<1>3. ASSUME RxPoll PROVE AskedInv'
  <2>1. asked' = pushed /\ pushed' = pushed /\ rx' = "pop1"
    BY <1>3 DEF RxPoll
  <2>2. QED
    BY <1>t, <2>1 DEF AskedInv
<1>4. ASSUME RxPop("pop1", "closed1") \/ RxPop("pop2", "closed2")
      PROVE  AskedInv'
  <2>1. CASE queue = << >>
    <3>1. Len(received) = pushed
      BY <1>t, <2>1
    <3>2. UNCHANGED <<asked, pushed, received>>
      BY <1>4, <2>1 DEF RxPop
    <3>3. QED
      BY <1>t, <3>1, <3>2 DEF AskedInv
  <2>2. CASE queue # << >>
    <3>1. rx' = "add" /\ UNCHANGED <<asked, pushed>>
      BY <1>4, <2>2 DEF RxPop
    <3>2. QED
      BY <3>1 DEF AskedInv
  <2>3. QED
    BY <2>1, <2>2
<1>5. ASSUME \/ RxRegister \/ RxAdd \/ RxWake \/ RxDrop \/ RxDropWake
             \/ RxCheckClosed("closed1", "register") \/ RxCheckClosed("closed2", "sleep")
      PROVE  AskedInv'
  <2>1. UNCHANGED <<asked, pushed, received>>
    BY <1>5 DEF RxRegister, RxAdd, RxWake, RxDrop, RxDropWake, RxCheckClosed
  <2>2. rx' \in {"closed1", "register", "pop2", "closed2", "sleep", "eof"}
          => rx \in {"closed1", "register", "pop2", "closed2", "sleep", "eof"}
    BY <1>5 DEF RxRegister, RxAdd, RxWake, RxDrop, RxDropWake, RxCheckClosed
  <2>3. QED
    BY <2>1, <2>2 DEF AskedInv
<1>6. ASSUME \/ TxPoll \/ TxClose \/ TxRegister \/ TxSub \/ TxWake \/ TxCloseWake
             \/ TxCheckClosed("closed1", "room1") \/ TxCheckClosed("closed2", "room2")
             \/ TxCheckRoom("room1", "register") \/ TxCheckRoom("room2", "sleep")
             \/ UNCHANGED vars
      PROVE  UNCHANGED <<asked, pushed, rx, received>>
  BY <1>6 DEF TxPoll, TxClose, TxRegister, TxSub, TxWake, TxCloseWake, TxCheckClosed, TxCheckRoom
<1> HIDE DEF vars, txVars, rxVars
<1>7. QED
  BY <1>1, <1>2, <1>3, <1>4, <1>5, <1>6 DEF Next, TxStep, RxStep

LEMMA EndInductive == Spec => [](IInv /\ EndInv /\ AskedInv)
<1>1. Init => EndInv /\ AskedInv
  BY DEF Init, EndInv, AskedInv
<1>2. IInv /\ EndInv /\ AskedInv /\ IInv' /\ [Next]_vars => EndInv' /\ AskedInv'
  BY NextEndInv, NextAskedInv
<1>3. QED
  BY Inductive, <1>1, <1>2, PTL DEF Spec

\* The end of the stream hides no frame that was there when the reader asked.
THEOREM EndCorrect == Spec => []EndMissesNothingOld
<1>1. AskedInv => EndMissesNothingOld
  BY DEF AskedInv, EndMissesNothingOld
<1>2. QED
  BY <1>1, EndInductive, PTL

\* The steps that neither move a frame nor let a side go.
LEMMA PipeStutters ==
  ASSUME UNCHANGED <<queue, received, asked, refused>>,
         \/ UNCHANGED <<tx, rx>>
         \/ /\ tx \notin {"closing", "gone"} /\ tx' \notin {"closing", "gone"}
            /\ UNCHANGED rx
         \/ tx \in {"closing", "gone"} /\ tx' \in {"closing", "gone"} /\ UNCHANGED rx
         \/ /\ rx \notin {"eof", "dropping", "gone"} /\ rx' \notin {"eof", "dropping", "gone"}
            /\ UNCHANGED tx
         \/ rx \in {"dropping", "gone"} /\ rx' \in {"dropping", "gone"} /\ UNCHANGED tx
  PROVE  UNCHANGED Frames!fvars
BY DEF Frames!fvars

\* A step of the pipe is a step of the bounded queue or leaves it alone.
LEMMA FramesStep ==
  ASSUME IInv, EndInv, AskedInv, [Next]_vars
  PROVE  [Frames!Next]_(Frames!fvars)
<1> USE DEF vars, txVars, rxVars, Wake, TxGoto
<1>t. /\ Len(queue) \in Nat /\ Len(received) \in Nat /\ pushed \in Nat /\ asked \in Nat
      /\ Len(received) + Len(queue) = pushed
  BY DEF IInv, TypeOK, CountInv
<1>1. ASSUME TxPush PROVE Frames!Put
  <2>1. ~refused
    BY <1>1 DEF TxPush, EndInv
  <2>2. /\ tx = "push" /\ tx' = "sub" /\ Len(queue) < Capacity
        /\ queue' = Append(queue, pushed + 1)
        /\ UNCHANGED <<received, asked, rx, refused>>
    BY <1>1 DEF TxPush
  <2>3. Frames!Sent = pushed
    BY <1>t DEF Frames!Sent
  <2>4. QED
    BY <2>1, <2>2, <2>3 DEF Frames!Put
<1>2. ASSUME TxCheckClosed("closed1", "room1") \/ TxCheckClosed("closed2", "room2")
      PROVE  Frames!Refuse \/ UNCHANGED Frames!fvars
  <2>1. CASE closed
    <3>1. /\ tx \in {"closed1", "closed2"} /\ tx' = "idle"
          /\ UNCHANGED <<queue, received, asked, rx>>
      BY <1>2, <2>1 DEF TxCheckClosed
    <3>2. refused' = TRUE
      BY <1>2, <2>1, Zenon DEF TxCheckClosed
    <3>3. rx \in {"dropping", "gone"}
      BY <2>1, <3>1 DEF EndInv
    <3>4. QED
      BY <3>1, <3>2, <3>3 DEF Frames!Refuse
  <2>2. CASE ~closed
    <3>1. /\ tx \in {"closed1", "closed2"} /\ tx' \in {"room1", "room2"}
          /\ UNCHANGED <<queue, received, asked, rx>>
      BY <1>2, <2>2 DEF TxCheckClosed
    <3>2. refused' = refused
      BY <1>2, <2>2, Zenon DEF TxCheckClosed, IInv, TypeOK
    <3>3. QED
      BY <3>1, <3>2, PipeStutters
  <2>3. QED
    BY <2>1, <2>2
<1>3. ASSUME TxClose PROVE Frames!LeaveSender
  BY <1>3 DEF TxClose, Frames!LeaveSender
<1>4. ASSUME RxPoll PROVE Frames!Ask
  <2>1. /\ rx \in {"idle", "sleep"} /\ rx' = "pop1" /\ asked' = pushed
        /\ UNCHANGED <<queue, received, tx, refused>>
    BY <1>4 DEF RxPoll
  <2>2. Frames!Sent = pushed
    BY <1>t DEF Frames!Sent
  <2>3. QED
    BY <2>1, <2>2 DEF Frames!Ask
<1>5. ASSUME RxPop("pop1", "closed1") \/ RxPop("pop2", "closed2")
      PROVE  Frames!Get \/ UNCHANGED Frames!fvars
  <2>1. CASE queue = << >>
    <3>1. /\ rx \in {"pop1", "pop2"} /\ rx' \in {"closed1", "closed2"}
          /\ UNCHANGED <<queue, received, asked, tx, refused>>
      BY <1>5, <2>1 DEF RxPop
    <3>2. QED
      BY <3>1, PipeStutters
  <2>2. CASE queue # << >>
    <3>1. /\ rx \in {"pop1", "pop2"} /\ rx' = "add"
          /\ received' = Append(received, Head(queue)) /\ queue' = Tail(queue)
          /\ UNCHANGED <<asked, tx, refused>>
      BY <1>5, <2>2 DEF RxPop
    <3>2. QED
      BY <2>2, <3>1 DEF Frames!Get
  <2>3. QED
    BY <2>1, <2>2
<1>6. ASSUME RxCheckClosed("closed1", "register") \/ RxCheckClosed("closed2", "sleep")
      PROVE  Frames!End \/ UNCHANGED Frames!fvars
  <2>1. CASE closed
    <3>1. /\ rx \in {"closed1", "closed2"} /\ rx' = "eof"
          /\ UNCHANGED <<queue, received, asked, tx, refused>>
      BY <1>6, <2>1 DEF RxCheckClosed
    <3>2. tx \in {"closing", "gone"} /\ Len(received) >= asked
      BY <2>1, <3>1 DEF EndInv, AskedInv
    <3>3. QED
      BY <3>1, <3>2 DEF Frames!End
  <2>2. CASE ~closed
    <3>1. /\ rx \in {"closed1", "closed2"} /\ rx' \in {"register", "sleep"}
          /\ UNCHANGED <<queue, received, asked, tx, refused>>
      BY <1>6, <2>2 DEF RxCheckClosed
    <3>2. QED
      BY <3>1, PipeStutters
  <2>3. QED
    BY <2>1, <2>2
<1>7. ASSUME RxDrop PROVE Frames!LeaveReader
  BY <1>7 DEF RxDrop, Frames!LeaveReader
<1>8. ASSUME \/ TxPoll \/ TxRegister \/ TxSub \/ TxWake \/ TxCloseWake
             \/ TxCheckRoom("room1", "register") \/ TxCheckRoom("room2", "sleep")
      PROVE  UNCHANGED Frames!fvars
  <2>1. /\ UNCHANGED <<queue, received, asked, refused, rx>>
        /\ \/ tx \notin {"closing", "gone"} /\ tx' \notin {"closing", "gone"}
           \/ tx \in {"closing", "gone"} /\ tx' \in {"closing", "gone"}
    BY <1>8 DEF TxPoll, TxRegister, TxSub, TxWake, TxCloseWake, TxCheckRoom
  <2>2. QED
    BY <2>1, PipeStutters
<1>9. ASSUME RxRegister \/ RxAdd \/ RxWake \/ RxDropWake
      PROVE  UNCHANGED Frames!fvars
  <2>1. /\ UNCHANGED <<queue, received, asked, refused, tx>>
        /\ \/ /\ rx \notin {"eof", "dropping", "gone"}
              /\ rx' \notin {"eof", "dropping", "gone"}
           \/ rx \in {"dropping", "gone"} /\ rx' \in {"dropping", "gone"}
    BY <1>9 DEF RxRegister, RxAdd, RxWake, RxDropWake
  <2>2. QED
    BY <2>1, PipeStutters
<1>10. CASE UNCHANGED vars
  BY <1>10, PipeStutters
<1> HIDE DEF vars, txVars, rxVars, Wake, TxGoto
<1>11. QED
  BY <1>1, <1>2, <1>3, <1>4, <1>5, <1>6, <1>7, <1>8, <1>9, <1>10
  DEF Next, TxStep, RxStep, Frames!Next

\* The counter, the wakers and the flag implement the bounded queue.
THEOREM FramesCorrect == Spec => FramesKept
<1>1. Init => Frames!Init
  BY DEF Init, Frames!Init
<1>2. IInv /\ EndInv /\ AskedInv /\ [Next]_vars => [Frames!Next]_(Frames!fvars)
  BY FramesStep
<1>3. QED
  BY <1>1, <1>2, EndInductive, PTL DEF Spec, FramesKept, Frames!Spec
=============================================================================
