-------------------------- MODULE Connection_proofs --------------------------
(***************************************************************************)
(* Proofs about Connection for any number of handles, frames, directives.  *)
(***************************************************************************)
EXTENDS Connection, TLAPS

\* Each reference of a runner belongs to one stretch of its code, and the core
\* is alive as long as anybody holds it.
HoldersInv ==
    /\ core = "alive" <=> strong # {}
    /\ "receiver" \in strong <=> rpc \in {"receiver", "dropped"}
    /\ "loop" \in strong <=> rpc \in {"handle", "handled"}
    /\ "signal" \in strong <=> rpc \in {"register", "registered"}
    /\ "writer" \in strong <=> wpc \in {"context", "close", "mark", "marked"}

\* The signal branch has been polled in this poll of the reader, to its end.
Watching ==
    \/ rpc \in {"registered", "sleep"}
    \/ rpc \in {"poll", "loop", "frame", "handle", "handled"} /\ "signal" \notin todo

\* From then on the waker is in place until the drop takes it, and leaves the
\* task woken.
WatchInv ==
    Watching => woken \/ (waker /\ core \in {"alive", "dropping"})

\* What the writer has done so far about leaving.
SealInv ==
    /\ wpc \in {"mark", "marked"} => closed
    /\ wpc = "marked" => expired
    /\ wpc \in {"drop", "gone"} /\ strong # {} => closed /\ expired
    /\ core = "gone" \/ wpc = "aborted" => closed

IInv == TypeOK /\ HoldersInv /\ WatchInv /\ SealInv /\ ExitIsTrue

LEMMA InitIInv == Init => IInv
<1> SUFFICES ASSUME Init PROVE IInv
  OBVIOUS
<1>1. strong \subseteq Owners \cup {"receiver"} /\ "receiver" \in strong
  BY DEF Init
<1>2. TypeOK
  BY <1>1 DEF Init, TypeOK, ReaderPCs, WriterPCs
<1>3. HoldersInv
  BY <1>1, OwnersAssumption DEF Init, HoldersInv
<1>4. WatchInv /\ SealInv /\ ExitIsTrue
  BY DEF Init, Watching, WatchInv, SealInv, ExitIsTrue
<1>5. QED
  BY <1>2, <1>3, <1>4 DEF IInv

\* Every step preserves the invariant, and keeps a dropped core dropped.
LEMMA NextIInv ==
  ASSUME IInv, [Next]_vars
  PROVE  IInv' /\ (core # "alive" => core' # "alive" /\ strong' = {})
<1> DEFINE Goal == IInv' /\ (core # "alive" => core' # "alive" /\ strong' = {})
<1> USE OwnersAssumption
    DEF IInv, TypeOK, HoldersInv, Watching, WatchInv, SealInv, ExitIsTrue, ReaderPCs, WriterPCs,
        vars, coreVars, wakeVars, readerVars, streamVars, writerVars, chanVars, ReaderAt, WriterAt
<1>1. ASSUME NEW o \in Owners, NewHandle(o) PROVE Goal
  BY <1>1 DEF NewHandle, Acquire, Upgradable
<1>2. ASSUME NEW o \in Owners, DropHandle(o) PROVE Goal
  BY <1>2 DEF DropHandle, Release
<1>3. ASSUME NEW o \in Owners, Send(o) PROVE Goal
  BY <1>3 DEF Send
<1>4. ASSUME FrameArrives PROVE Goal
  BY <1>4 DEF FrameArrives
<1>5. ASSUME StreamEnds PROVE Goal
  BY <1>5 DEF StreamEnds
<1>6. ASSUME Recv PROVE Goal
  BY <1>6 DEF Recv, Acquire
<1>7. ASSUME DropReceiver PROVE Goal
  BY <1>7 DEF DropReceiver
<1>8. ASSUME ReleaseReceiver PROVE Goal
  BY <1>8 DEF ReleaseReceiver, Release
<1>9. ASSUME Weaken PROVE Goal
  BY <1>9 DEF Weaken, Release, Branches
<1>10. ASSUME Poll PROVE Goal
  <2>1. TypeOK'
    <3>1. woken' \in BOOLEAN
      BY <1>10, Zenon DEF Poll, Branches
    <3>2. QED
      BY <1>10, <3>1 DEF Poll, Branches
  <2>2. HoldersInv'
    BY <1>10 DEF Poll, Branches
  <2>3. WatchInv'
    BY <1>10 DEF Poll, Branches
  <2>4. SealInv'
    BY <1>10 DEF Poll, Branches
  <2>5. ExitIsTrue' /\ (core # "alive" => core' # "alive" /\ strong' = {})
    BY <1>10 DEF Poll, Branches
  <2>6. QED
    BY <2>1, <2>2, <2>3, <2>4, <2>5
<1>11. ASSUME NEW b \in Branches, PollBranch(b) PROVE Goal
  BY <1>11 DEF PollBranch, Branches
<1>12. ASSUME PollPending PROVE Goal
  BY <1>12 DEF PollPending
<1>13. ASSUME NextFrame PROVE Goal
  BY <1>13 DEF NextFrame
<1>14. ASSUME NextPending PROVE Goal
  BY <1>14 DEF NextPending
<1>15. ASSUME NextEnd PROVE Goal
  BY <1>15 DEF NextEnd
<1>16. ASSUME Upgrade("frame", "loop", "handle") PROVE Goal
  BY <1>16 DEF Upgrade, Acquire, Upgradable
<1>17. ASSUME Upgrade("signal", "signal", "register") PROVE Goal
  BY <1>17 DEF Upgrade, Acquire, Upgradable
<1>18. ASSUME NEW pc \in {"frame", "signal"}, UpgradeFails(pc) PROVE Goal
  BY <1>18 DEF UpgradeFails, Upgradable
<1>19. ASSUME HandleInbound PROVE Goal
  BY <1>19 DEF HandleInbound, Acquire
<1>20. ASSUME LetGo("handled", "loop", "loop") PROVE Goal
  BY <1>20 DEF LetGo, Release
<1>21. ASSUME LetGo("registered", "signal", "poll") PROVE Goal
  BY <1>21 DEF LetGo, Release
<1>22. ASSUME Register PROVE Goal
  BY <1>22 DEF Register
<1>23. ASSUME WriteRequest PROVE Goal
  BY <1>23 DEF WriteRequest
<1>24. ASSUME WriteOther PROVE Goal
  <2>1. TypeOK'
    <3>1. closed' \in BOOLEAN
      BY <1>24, Zenon DEF WriteOther
    <3>2. QED
      BY <1>24, <3>1 DEF WriteOther
  <2>2. HoldersInv'
    BY <1>24 DEF WriteOther
  <2>3. WatchInv'
    BY <1>24 DEF WriteOther
  <2>4. SealInv'
    <3>1. closed => closed'
      BY <1>24, Zenon DEF WriteOther
    <3>2. QED
      BY <1>24, <3>1 DEF WriteOther
  <2>5. ExitIsTrue' /\ (core # "alive" => core' # "alive" /\ strong' = {})
    BY <1>24 DEF WriteOther
  <2>6. QED
    BY <2>1, <2>2, <2>3, <2>4, <2>5
<1>25. ASSUME UpgradeContext PROVE Goal
  BY <1>25 DEF UpgradeContext, Acquire, Upgradable
<1>26. ASSUME ReleaseContext PROVE Goal
  BY <1>26 DEF ReleaseContext, Release
<1>27. ASSUME RecvEnd PROVE Goal
  BY <1>27 DEF RecvEnd
<1>28. ASSUME SealOrLeave PROVE Goal
  BY <1>28 DEF SealOrLeave, Acquire, Upgradable
<1>29. ASSUME CloseChannel PROVE Goal
  BY <1>29 DEF CloseChannel
<1>30. ASSUME MarkExpired PROVE Goal
  BY <1>30 DEF MarkExpired
<1>31. ASSUME ReleaseSeal PROVE Goal
  BY <1>31 DEF ReleaseSeal, Release
<1>32. ASSUME WriterEnds PROVE Goal
  BY <1>32 DEF WriterEnds
<1>33. ASSUME CoreWakes PROVE Goal
  <2>1. TypeOK'
    <3>1. woken' \in BOOLEAN /\ waker' \in BOOLEAN
      BY <1>33, Zenon DEF CoreWakes
    <3>2. QED
      BY <1>33, <3>1 DEF CoreWakes
  <2>2. HoldersInv'
    BY <1>33 DEF CoreWakes
  <2>3. WatchInv'
    BY <1>33 DEF CoreWakes
  <2>4. SealInv'
    BY <1>33 DEF CoreWakes
  <2>5. ExitIsTrue' /\ (core # "alive" => core' # "alive" /\ strong' = {})
    BY <1>33 DEF CoreWakes
  <2>6. QED
    BY <2>1, <2>2, <2>3, <2>4, <2>5
<1>34. ASSUME CoreCloses PROVE Goal
  BY <1>34 DEF CoreCloses
<1>35. ASSUME UNCHANGED vars PROVE Goal
  BY <1>35 DEF vars
<1>36. ASSUME AbortReader PROVE Goal
  BY <1>36 DEF AbortReader
<1>37. ASSUME AbortWriter PROVE Goal
  BY <1>37 DEF AbortWriter
<1> HIDE DEF Goal, IInv, vars
<1>38. QED
  BY <1>1, <1>2, <1>3, <1>4, <1>5, <1>6, <1>7, <1>8, <1>9, <1>10, <1>11, <1>12, <1>13,
     <1>14, <1>15, <1>16, <1>17, <1>18, <1>19, <1>20, <1>21, <1>22, <1>23, <1>24, <1>25,
     <1>26, <1>27, <1>28, <1>29, <1>30, <1>31, <1>32, <1>33, <1>34, <1>35, <1>36, <1>37
  DEF Next, UserStep, PeerStep, ReceiverStep, ReaderStep, LoopStep, SignalStep, WriterStep, CoreStep, Goal

LEMMA Inductive == Spec => []IInv
<1>1. IInv /\ [Next]_vars => IInv'
  BY NextIInv
<1>2. QED
  BY InitIInv, <1>1, PTL DEF Spec

\* Every variable of the connection keeps to its range.
THEOREM TypeCorrect == Spec => []TypeOK
<1>1. IInv => TypeOK
  BY DEF IInv
<1>2. QED
  BY <1>1, Inductive, PTL

\* Once the drop of the core has begun nobody holds it again.
THEOREM DropCorrect == Spec => DropIsFinal
<1>1. IInv /\ [Next]_vars => [core # "alive" => core' # "alive" /\ strong' = {}]_vars
  BY NextIInv
<1>2. QED
  BY <1>1, Inductive, PTL DEF Spec, DropIsFinal

\* A sleeping reader learns that the core has gone.
THEOREM SignalCorrect == Spec => []DropSignalled
<1>1. IInv => DropSignalled
  BY DEF IInv, TypeOK, WatchInv, Watching, DropSignalled
<1>2. QED
  BY <1>1, Inductive, PTL

\* The runners hold no reference while they wait.
THEOREM LetGoCorrect == Spec => []RunnersLetGo
<1>1. IInv => RunnersLetGo
  BY DEF IInv, HoldersInv, RunnersLetGo
<1>2. QED
  BY <1>1, Inductive, PTL

\* AllHandleDropped is true when it is said and stays true.
THEOREM ExitCorrect == Spec => []ExitIsTrue
<1>1. IInv => ExitIsTrue
  BY DEF IInv
<1>2. QED
  BY <1>1, Inductive, PTL

\* The writer seals the connection it leaves.
THEOREM SealCorrect == Spec => []WriterSeals
<1>1. IInv => WriterSeals
  BY DEF IInv, SealInv, WriterSeals
<1>2. QED
  BY <1>1, Inductive, PTL

\* A connection nobody holds comes to rest only when both runners have ended.
THEOREM RestCorrect == Spec => []RestMeansEnded
<1>1. ASSUME IInv, rpc # "receiver", strong \cap Owners = {}, ~InMotion PROVE Ended
  <2>1. /\ core \notin {"dropping", "closing"}
        /\ rpc \in {"sleep", "gone"}
        /\ wpc \in {"recv", "gone", "aborted"}
        /\ wpc = "recv" => ~closed
    BY <1>1 DEF InMotion
  <2>2. strong = {}
    BY <1>1, <2>1 DEF IInv, TypeOK, HoldersInv
  <2>3. core = "gone"
    BY <1>1, <2>1, <2>2 DEF IInv, TypeOK, HoldersInv
  <2>4. closed
    BY <1>1, <2>3 DEF IInv, SealInv
  <2>5. wpc # "recv"
    BY <2>1, <2>4
  <2>6. rpc # "sleep"
    <3>1. SUFFICES ASSUME rpc = "sleep" PROVE FALSE
      OBVIOUS
    <3>2. woken
      BY <1>1, <2>3, <3>1 DEF IInv, WatchInv, Watching
    <3>3. QED
      BY <1>1, <3>1, <3>2, Zenon DEF InMotion
  <2>7. QED
    BY <2>1, <2>5, <2>6 DEF Ended
<1>2. IInv => RestMeansEnded
  BY <1>1 DEF RestMeansEnded
<1>3. QED
  BY <1>2, Inductive, PTL

-----------------------------------------------------------------------------
(* The connection implements Lifetime.                                     *)

\* The abstract state, as Life sees it.
HoldersOf == strong \cap (Owners \cup {"receiver"})

ReaderOf == CASE rpc = "receiver" -> "value"
              [] rpc = "dropped" -> "dropping"
              [] rpc = "gone" -> "ended"
              [] OTHER -> "running"

WriterOf == CASE wpc = "gone" -> "ended"
              [] wpc = "aborted" -> "aborted"
              [] OTHER -> "running"

Alive == strong # {}
Open == ~closed

lifeVars == <<HoldersOf, Alive, Open, expired, ReaderOf, readExit, WriterOf>>

\* A step that leaves the channel, the table and the places of the runners
\* alone is seen in the references only.
Bystander == UNCHANGED <<closed, expired, readExit>> /\ ReaderOf' = ReaderOf /\ WriterOf' = WriterOf

\* Taking and giving back the reference of a runner.
LEMMA RunnerRefs ==
  ASSUME Bystander, NEW who \in {"loop", "signal", "writer"},
         \/ Upgradable /\ strong' = strong \cup {who}
         \/ who \in strong /\ strong' = strong \ {who}
  PROVE  Life!Collect \/ UNCHANGED lifeVars
<1>1. who \notin Owners \cup {"receiver"}
  BY OwnersAssumption
<1>2. HoldersOf' = HoldersOf /\ Alive
  BY <1>1 DEF HoldersOf, Alive, Upgradable
<1>3. Open' = Open
  BY DEF Bystander, Open
<1>4. CASE Alive'
  BY <1>2, <1>3, <1>4, Zenon DEF Bystander, lifeVars, Alive
<1>5. CASE ~Alive'
  <2>1. HoldersOf = {}
    BY <1>1, <1>5 DEF HoldersOf, Alive, Upgradable
  <2>2. strong # {} /\ ~(strong' # {})
    BY <1>2, <1>5 DEF Alive
  <2>3. QED
    BY <1>2, <2>1, <2>2 DEF Bystander, HoldersOf, ReaderOf, WriterOf, Life!Collect
<1>6. QED
  BY <1>4, <1>5

\* Taking and giving back the reference of a handle.
LEMMA HandleRefs ==
  ASSUME Bystander, NEW o \in Owners,
         \/ Upgradable /\ strong' = strong \cup {o}
         \/ o \in strong /\ strong' = strong \ {o}
  PROVE  Life!Share(o) \/ Life!Leave(o)
<1>1. CASE Upgradable /\ strong' = strong \cup {o}
  <2>1. HoldersOf' = HoldersOf \cup {o} /\ strong # {} /\ strong' # {}
    BY <1>1 DEF HoldersOf, Upgradable
  <2>2. QED
    BY <2>1 DEF Bystander, HoldersOf, ReaderOf, WriterOf, Life!Share
<1>2. CASE o \in strong /\ strong' = strong \ {o}
  <2>1. /\ o \in HoldersOf /\ HoldersOf' = HoldersOf \ {o}
        /\ strong' = {} => HoldersOf' = {}
    BY <1>2 DEF HoldersOf
  <2>2. QED
    BY <2>1 DEF Bystander, HoldersOf, ReaderOf, WriterOf, Life!Leave, Life!GiveUp
<1>3. QED
  BY <1>1, <1>2

\* A step of the connection is a step of its abstract life or none.
LEMMA LifeStep ==
  ASSUME IInv, [Next]_vars
  PROVE  [Life!Next]_lifeVars
<1> USE DEF coreVars, wakeVars, readerVars, streamVars, writerVars, chanVars, ReaderAt, WriterAt
<1>t. TypeOK /\ HoldersInv /\ SealInv
  BY DEF IInv
<1>1. ASSUME NEW o \in Owners, NewHandle(o) PROVE Life!Share(o) \/ Life!Leave(o)
  <2>1. Bystander /\ Upgradable /\ strong' = strong \cup {o}
    BY <1>1 DEF NewHandle, Acquire, Bystander, ReaderOf, WriterOf
  <2>2. QED
    BY <2>1, HandleRefs
<1>2. ASSUME NEW o \in Owners, DropHandle(o) PROVE Life!Share(o) \/ Life!Leave(o)
  <2>1. Bystander /\ o \in strong /\ strong' = strong \ {o}
    BY <1>2 DEF DropHandle, Release, Bystander, ReaderOf, WriterOf
  <2>2. QED
    BY <2>1, HandleRefs
<1>3. ASSUME Recv \/ HandleInbound
      PROVE  UNCHANGED lifeVars \/ \E o \in Owners : Life!Share(o) \/ Life!Leave(o)
  <2>1. Bystander /\ Upgradable
    BY <1>3, <1>t DEF Recv, HandleInbound, Bystander, ReaderOf, WriterOf, HoldersInv, Upgradable
  <2>2. CASE UNCHANGED strong
    BY <2>1, <2>2 DEF Bystander, lifeVars, HoldersOf, Alive, Open
  <2>3. CASE \E o \in Owners : strong' = strong \cup {o}
    BY <2>1, <2>3, HandleRefs
  <2>4. UNCHANGED strong \/ \E o \in Owners : strong' = strong \cup {o}
    BY <1>3 DEF Recv, HandleInbound, Acquire
  <2>5. QED
    BY <2>2, <2>3, <2>4
<1>4. ASSUME DropReceiver PROVE Life!DropReceiver
  BY <1>4 DEF DropReceiver, Life!DropReceiver
<1>5. ASSUME ReleaseReceiver PROVE Life!ReceiverGone
  <2>1. /\ "receiver" \in strong /\ strong' = strong \ {"receiver"}
        /\ rpc = "dropped" /\ rpc' = "gone"
        /\ UNCHANGED <<closed, expired, readExit, wpc>>
    BY <1>5, <1>t DEF ReleaseReceiver, Release, HoldersInv
  <2>2. /\ "receiver" \in HoldersOf /\ HoldersOf' = HoldersOf \ {"receiver"}
        /\ strong' = {} => HoldersOf' = {}
    BY <2>1 DEF HoldersOf
  <2>3. QED
    BY <2>1, <2>2 DEF HoldersOf, Life!ReceiverGone, Life!GiveUp
<1>6. ASSUME Weaken PROVE Life!Run
  <2>1. /\ "receiver" \in strong /\ strong' = strong \ {"receiver"}
        /\ rpc = "receiver" /\ rpc' = "poll"
        /\ UNCHANGED <<closed, expired, readExit, wpc>>
    BY <1>6, <1>t DEF Weaken, Release, HoldersInv
  <2>2. /\ "receiver" \in HoldersOf /\ HoldersOf' = HoldersOf \ {"receiver"}
        /\ strong' = {} => HoldersOf' = {}
    BY <2>1 DEF HoldersOf
  <2>3. QED
    BY <2>1, <2>2 DEF HoldersOf, Life!Run, Life!GiveUp
<1>7. ASSUME NextEnd \/ AbortReader PROVE Life!ReaderEnds
  <2>1. /\ rpc \in {"loop", "sleep"} /\ rpc' = "gone"
        /\ UNCHANGED <<strong, closed, expired, wpc>>
    BY <1>7 DEF NextEnd, AbortReader
  <2>2. readExit' \in {readExit, "Eof"}
    BY <1>7 DEF NextEnd, AbortReader
  <2>3. QED
    BY <2>1, <2>2 DEF Life!ReaderEnds
<1>8. ASSUME NEW pc \in {"frame", "signal"}, UpgradeFails(pc) PROVE Life!ReaderOrphaned
  BY <1>8 DEF UpgradeFails, Upgradable, Life!ReaderOrphaned
<1>9. ASSUME \/ Upgrade("frame", "loop", "handle") \/ Upgrade("signal", "signal", "register")
             \/ LetGo("handled", "loop", "loop") \/ LetGo("registered", "signal", "poll")
             \/ UpgradeContext \/ SealOrLeave \/ ReleaseContext \/ ReleaseSeal
      PROVE  Life!Collect \/ UNCHANGED lifeVars
  <2>1. Bystander
    BY <1>9 DEF Upgrade, LetGo, UpgradeContext, SealOrLeave, ReleaseContext, ReleaseSeal,
                Bystander, ReaderOf, WriterOf
  <2>2. CASE UNCHANGED strong
    BY <2>1, <2>2 DEF Bystander, lifeVars, HoldersOf, Alive, Open
  <2>3. ASSUME NEW who \in {"loop", "signal", "writer"},
               \/ Upgradable /\ strong' = strong \cup {who}
               \/ who \in strong /\ strong' = strong \ {who}
        PROVE  Life!Collect \/ UNCHANGED lifeVars
    BY <2>1, <2>3, RunnerRefs
  <2>4. \/ UNCHANGED strong
        \/ \E who \in {"loop", "signal", "writer"} :
              \/ Upgradable /\ strong' = strong \cup {who}
              \/ who \in strong /\ strong' = strong \ {who}
    BY <1>9, <1>t DEF Upgrade, LetGo, UpgradeContext, SealOrLeave, ReleaseContext, ReleaseSeal,
                      Acquire, Release, HoldersInv
  <2>5. QED
    BY <2>2, <2>3, <2>4
<1>10. ASSUME UNCHANGED <<strong, expired, readExit>>, ReaderOf' = ReaderOf, WriterOf' = WriterOf,
              closed' = closed \/ closed' = TRUE
       PROVE  Life!Close \/ UNCHANGED lifeVars
  <2>1. CASE closed' = closed
    BY <1>10, <2>1 DEF lifeVars, HoldersOf, Alive, Open
  <2>2. CASE closed' = TRUE
    BY <1>10, <2>2 DEF Life!Close, HoldersOf, ReaderOf, WriterOf
  <2>3. QED
    BY <1>10, <2>1, <2>2
<1>11. ASSUME \/ FrameArrives \/ StreamEnds \/ Poll \/ PollPending \/ NextFrame \/ NextPending
              \/ Register \/ WriteRequest \/ WriteOther \/ RecvEnd \/ CloseChannel
              \/ CoreWakes \/ CoreCloses \/ UNCHANGED vars
              \/ \E o \in Owners : Send(o)
              \/ \E b \in Branches : PollBranch(b)
       PROVE  Life!Close \/ UNCHANGED lifeVars
  <2>1. UNCHANGED <<strong, expired, readExit>>
    BY <1>11 DEF FrameArrives, StreamEnds, Poll, PollPending, NextFrame, NextPending, Register,
       WriteRequest, WriteOther, RecvEnd, CloseChannel, CoreWakes, CoreCloses, Send, PollBranch, vars
  <2>2. ReaderOf' = ReaderOf /\ WriterOf' = WriterOf
    BY <1>11 DEF FrameArrives, StreamEnds, Poll, PollPending, NextFrame, NextPending, Register,
       WriteRequest, WriteOther, RecvEnd, CloseChannel, CoreWakes, CoreCloses, Send, PollBranch, vars,
       Branches, ReaderOf, WriterOf
  <2>3. closed' = closed \/ closed' = TRUE
    BY <1>11, Zenon
    DEF FrameArrives, StreamEnds, Poll, PollPending, NextFrame, NextPending, Register,
       WriteRequest, WriteOther, RecvEnd, CloseChannel, CoreWakes, CoreCloses, Send, PollBranch, vars
  <2>4. QED
    BY <1>10, <2>1, <2>2, <2>3
<1>12. ASSUME MarkExpired PROVE Life!Seal
  <2>1. closed
    BY <1>12, <1>t DEF MarkExpired, SealInv
  <2>2. /\ wpc = "mark" /\ wpc' = "marked" /\ expired' = TRUE
        /\ UNCHANGED <<strong, closed, rpc, readExit>>
    BY <1>12 DEF MarkExpired
  <2>3. QED
    BY <2>1, <2>2 DEF Life!Seal
<1>13. ASSUME WriterEnds PROVE Life!WriterEnds
  <2>1. strong # {} => closed /\ expired
    BY <1>13, <1>t DEF WriterEnds, SealInv
  <2>2. /\ wpc = "drop" /\ wpc' = "gone" /\ closed' = TRUE
        /\ UNCHANGED <<strong, expired, rpc, readExit>>
    BY <1>13 DEF WriterEnds
  <2>3. QED
    BY <2>1, <2>2 DEF Life!WriterEnds
<1>14. ASSUME AbortWriter PROVE Life!WriterAborted
  BY <1>14 DEF AbortWriter, Life!WriterAborted
<1> HIDE DEF coreVars, wakeVars, readerVars, streamVars, writerVars, chanVars, ReaderAt, WriterAt
<1>15. QED
  BY <1>1, <1>2, <1>3, <1>4, <1>5, <1>6, <1>7, <1>8, <1>9, <1>11, <1>12, <1>13, <1>14
  DEF Next, UserStep, PeerStep, ReceiverStep, ReaderStep, LoopStep, SignalStep, WriterStep,
      CoreStep, Life!Next

\* The counts, the upgrades and the wakers implement the life of a connection.
THEOREM LifetimeCorrect == Spec => LifetimeKept
<1>1. Init => Life!Init
  <2>1. ASSUME Init PROVE Life!Init
    <3>1. \E O \in SUBSET Owners : strong \cap (Owners \cup {"receiver"}) = {"receiver"} \cup O
      <4>1. CASE strong = {"receiver"}
        <5>1. strong \cap (Owners \cup {"receiver"}) = {"receiver"} \cup {}
          BY <4>1
        <5>2. {} \in SUBSET Owners
          OBVIOUS
        <5>3. QED
          BY <5>1, <5>2
      <4>2. CASE \E o \in Owners : strong = {"receiver", o}
        <5>1. PICK o \in Owners : strong = {"receiver", o}
          BY <4>2
        <5>2. strong \cap (Owners \cup {"receiver"}) = {"receiver"} \cup {o}
          BY <5>1
        <5>3. {o} \in SUBSET Owners
          OBVIOUS
        <5>4. QED
          BY <5>2, <5>3
      <4>3. QED
        BY <2>1, <4>1, <4>2 DEF Init
    <3>2. QED
      BY <2>1, <3>1 DEF Init, Life!Init
  <2>2. QED
    BY <2>1
<1>2. IInv /\ [Next]_vars => [Life!Next]_(Life!lvars)
  BY LifeStep DEF Life!lvars, lifeVars, HoldersOf, Alive, Open, ReaderOf, WriterOf
<1>3. QED
  BY <1>1, <1>2, Inductive, PTL DEF Spec, LifetimeKept, Life!Spec
=============================================================================
