-------------------------- MODULE WriteRunner_proofs -------------------------
(***************************************************************************)
(* Theorems about the write half for any set of handles, any capacity and  *)
(* any number of messages.  The inductive invariant has three parts: what  *)
(* the variables are (TypeInv), when the channel is closed (ControlInv),   *)
(* and where the runner is in the sequence of accepted frames (PlaceInv).  *)
(***************************************************************************)
EXTENDS WriteRunner, SequenceTheorems, TLAPS

Messages ==
    {d \in [kind : Kinds, frames : Seq(Frames), at : Nat] : Len(d.frames) = FrameCount(d.kind)}

Waiting == {"recv", "write", "flush", "close"}

TypeInv ==
    /\ chan \in Seq(Messages) /\ Len(chan) <= Capacity
    /\ closed \in BOOLEAN /\ expired \in BOOLEAN /\ shutdown \in BOOLEAN
    /\ alive \subseteq Handles \cup {Receiver}
    /\ hpc \in [Handles -> {"idle", "sending", "closing"}]
    /\ msg \in [Handles -> Messages \cup {Nothing}]
    /\ \A h \in Handles : hpc[h] = "sending" => msg[h] \in Messages
    /\ sends \in [Handles -> Nat] /\ \A h \in Handles : sends[h] <= MaxSends[h]
    /\ wpc \in Waiting \cup {"exit", "mark", "done", "aborted"}
    /\ cur \in Messages \cup {Nothing}
    /\ part \in 1 .. 2
    /\ wpc \in {"recv", "flush", "close"} => part = 1
    /\ wpc = "write" => cur \in Messages /\ part <= Len(cur.frames)
    /\ exit \in Exits
    /\ wire \in Seq(Frames) /\ accepted \in Seq(Frames)
    /\ transport \in {"open", "closed"}
    /\ lost \in Nat

\* The channel is closed once it has been shut down or orphaned, and whenever
\* the runner has left its loop in a way that leaves nothing to be told.
ControlInv ==
    /\ shutdown \/ ~CoreAlive => closed
    /\ wpc \in {"close", "mark", "done", "aborted"} => closed
    /\ wpc = "done" => expired \/ ~HasReqs \/ ~CoreAlive
    /\ wpc \in Waiting => Graceful
    /\ wpc = "exit" /\ Graceful => closed

Taken == Len(wire) + lost

\* Where the frames of the next directive in the channel begin.
Front == IF wpc = "write" THEN cur.at + Len(cur.frames) ELSE Taken

InPlace(d, log) ==
    /\ d.at + Len(d.frames) <= Len(log)
    /\ \A j \in 1 .. Len(d.frames) : log[d.at + j] = d.frames[j]

\* The frames of the directives in q are the last of log, in a row, from one on.
Chained(q, from, log) ==
    /\ \A k \in 1 .. Len(q) : InPlace(q[k], log)
    /\ q = << >> => from = Len(log)
    /\ q # << >> =>
        /\ q[1].at = from
        /\ q[Len(q)].at + Len(q[Len(q)].frames) = Len(log)
    /\ \A k \in 1 .. Len(q) - 1 : q[k + 1].at = q[k].at + Len(q[k].frames)

\* While the runner is in its loop, the accepted frames are those dealt with,
\* those left of the directive in hand, and those of the channel, in a row.
PlaceInv ==
    wpc \in {"recv", "write", "flush"} =>
        /\ wpc = "write" => InPlace(cur, accepted) /\ cur.at + part = Taken + 1
        /\ Chained(chan, Front, accepted)

IInv == TypeInv /\ ControlInv /\ PlaceInv

-----------------------------------------------------------------------------
(* Lemmas about the data                                                   *)

LEMMA FrameCounts ==
    ASSUME NEW kind \in Kinds
    PROVE  /\ FrameCount(kind) \in 0 .. 2
           /\ kind \in {"notify", "burst", "request"} => FrameCount(kind) \in 1 .. 2
           /\ kind \in {"flush", "closeAfterFlush", "closeNow"} => FrameCount(kind) = 0
BY KindsAssumption DEF FrameCount

LEMMA DirectiveType ==
    ASSUME TypeInv, NEW h \in Handles, NEW kind \in Kinds, sends[h] < MaxSends[h]
    PROVE  Directive(h, kind) \in Messages
<1> DEFINE frames == [k \in 1 .. FrameCount(kind) |-> <<h, sends[h], k>>]
<1>1. FrameCount(kind) \in 0 .. 2
  BY FrameCounts
<1>2. frames \in Seq(Frames) /\ Len(frames) = FrameCount(kind)
  <2>1. \A k \in 1 .. FrameCount(kind) : <<h, sends[h], k>> \in Frames
    <3>1. sends[h] \in 0 .. MaxSends[h]
      BY MaxSendsAssumption DEF TypeInv
    <3>2. QED
      BY <1>1, <3>1 DEF Frames
  <2>2. FrameCount(kind) \in Nat
    BY <1>1
  <2>3. QED
    BY <2>1, <2>2
<1> HIDE DEF frames
<1>3. QED
  BY <1>2 DEF Directive, Messages, frames

LEMMA NothingIsNoMessage == Nothing \notin Messages
BY KindsAssumption DEF Nothing, Messages

\* What the runner takes from the channel, and what is left.
LEMMA HeadTail ==
    ASSUME NEW q \in Seq(Messages), q # << >>
    PROVE  /\ Head(q) = q[1] /\ Head(q) \in Messages
           /\ Tail(q) \in Seq(Messages) /\ Len(Tail(q)) = Len(q) - 1
           /\ \A k \in 1 .. Len(q) - 1 : Tail(q)[k] = q[k + 1]
           /\ Len(q) \in Nat \ {0}
BY HeadTailProperties

\* What a handle adds to the channel, whose directives keep their places.
LEMMA Appended ==
    ASSUME NEW s \in Seq(Messages), NEW d \in Messages
    PROVE  /\ Append(s, d) \in Seq(Messages) /\ Len(Append(s, d)) = Len(s) + 1
           /\ Append(s, d)[Len(s) + 1] = d
           /\ \A k \in 1 .. Len(s) : Append(s, d)[k] = s[k]
           /\ Len(s) \in Nat
BY AppendProperties, LenProperties

LEMMA Concatenated ==
    ASSUME NEW s \in Seq(Frames), NEW t \in Seq(Frames)
    PROVE  /\ s \o t \in Seq(Frames) /\ Len(s \o t) = Len(s) + Len(t)
           /\ \A k \in 1 .. Len(s) : (s \o t)[k] = s[k]
           /\ \A k \in 1 .. Len(t) : (s \o t)[Len(s) + k] = t[k]
           /\ Len(s) \in Nat /\ Len(t) \in Nat
BY ConcatProperties, LenProperties

-----------------------------------------------------------------------------
(* The invariant                                                           *)

LEMMA InitIInv == Init => IInv
<1> SUFFICES ASSUME Init PROVE IInv
  OBVIOUS
<1>1. TypeInv
  <2>1. chan \in Seq(Messages) /\ wire \in Seq(Frames) /\ accepted \in Seq(Frames)
    BY EmptySeq DEF Init
  <2>2. Len(chan) <= Capacity
    BY CapacityAssumption, EmptySeq DEF Init
  <2>3. sends \in [Handles -> Nat] /\ \A h \in Handles : sends[h] <= MaxSends[h]
    BY MaxSendsAssumption DEF Init
  <2>4. msg \in [Handles -> Messages \cup {Nothing}]
    BY DEF Init
  <2>5. hpc \in [Handles -> {"idle", "sending", "closing"}] /\ \A h \in Handles : hpc[h] = "idle"
    BY DEF Init
  <2>6. cur \in Messages \cup {Nothing} /\ part = 1 /\ lost = 0
    BY DEF Init
  <2>7. /\ closed \in BOOLEAN /\ expired \in BOOLEAN /\ shutdown \in BOOLEAN
        /\ alive \subseteq Handles \cup {Receiver}
        /\ wpc = "recv" /\ exit \in Exits /\ transport \in {"open", "closed"}
    BY DEF Init, Exits
  <2>8. QED
    BY <2>1, <2>2, <2>3, <2>4, <2>5, <2>6, <2>7 DEF TypeInv, Waiting
<1>2. ControlInv
  BY HandlesAssumption DEF Init, ControlInv, CoreAlive, Waiting, Graceful
<1>3. PlaceInv
  <2>1. chan = << >> /\ Len(chan) = 0 /\ Len(accepted) = 0 /\ Len(wire) = 0
    <3>1. << >> \in Seq(Messages)
      BY EmptySeq
    <3>2. QED
      BY <3>1, EmptySeq DEF Init
  <2>2. Front = 0
    BY <2>1 DEF Init, Front, Taken
  <2>3. QED
    BY <2>1, <2>2 DEF Init, PlaceInv, Chained
<1>4. QED
  BY <1>1, <1>2, <1>3 DEF IInv

\* After a frame, the runner has the next one of the burst in hand, or none.
LEMMA NextPartType ==
    ASSUME TypeInv, wpc = "write", NextPart
    PROVE  /\ wpc' \in {"write", "recv"}
           /\ cur' \in Messages \cup {Nothing}
           /\ part' \in 1 .. 2
           /\ wpc' = "recv" => part' = 1
           /\ wpc' = "write" => cur' \in Messages /\ part' <= Len(cur'.frames)
           /\ cur.frames[part] \in Frames
<1>1. cur \in Messages /\ part \in 1 .. 2 /\ part <= Len(cur.frames)
  BY DEF TypeInv
<1>2. cur.frames \in Seq(Frames) /\ Len(cur.frames) \in 0 .. 2
  BY <1>1, FrameCounts DEF Messages
<1>3. cur.frames[part] \in Frames
  BY <1>1, <1>2, ElementOfSeq
<1>4. CASE part < Len(cur.frames) /\ part' = part + 1 /\ UNCHANGED <<cur, wpc>>
  <2> DEFINE n == Len(cur.frames)
  <2>0. n \in 0 .. 2 /\ part \in 1 .. 2 /\ part < n /\ part' = part + 1
    BY <1>1, <1>2, <1>4
  <2> HIDE DEF n
  <2>1. part' \in 1 .. 2 /\ part' <= n
    BY <2>0
  <2>2. cur' = cur /\ wpc' = "write" /\ cur' \in Messages
    BY <1>1, <1>4
  <2>3. part' <= Len(cur'.frames)
    BY <2>1, <2>2 DEF n
  <2>4. QED
    BY <1>3, <2>1, <2>2, <2>3
<1>5. CASE part' = 1 /\ cur' = Nothing /\ wpc' = "recv"
  BY <1>3, <1>5
<1>6. QED
  BY <1>4, <1>5 DEF NextPart

LEMMA NextTypeInv == TypeInv /\ [Next]_vars => TypeInv'
<1> SUFFICES ASSUME TypeInv, [Next]_vars PROVE TypeInv'
  OBVIOUS
<1> USE DEF Waiting, handleVars, runnerVars
<1>1. ASSUME NEW h \in Handles, NEW kind \in Kinds, Send(h, kind) PROVE TypeInv'
  <2>1. Directive(h, kind) \in Messages
    BY <1>1, DirectiveType DEF Send
  <2>2. sends' \in [Handles -> Nat] /\ \A g \in Handles : sends'[g] <= MaxSends[g]
    <3>1. sends \in [Handles -> Nat] /\ sends' = [sends EXCEPT ![h] = sends[h] + 1]
      BY <1>1 DEF Send, TypeInv
    <3>2. MaxSends[h] \in Nat /\ sends[h] < MaxSends[h] /\ sends[h] \in Nat
      BY <1>1, <3>1, MaxSendsAssumption DEF Send
    <3>3. \A g \in Handles : sends[g] <= MaxSends[g]
      BY DEF TypeInv
    <3>4. sends[h] + 1 \in Nat /\ sends[h] + 1 <= MaxSends[h]
      BY <3>2
    <3>5. QED
      BY <3>1, <3>3, <3>4
  <2> HIDE DEF Waiting
  <2>3. QED
    BY <1>1, <2>1, <2>2 DEF Send, TypeInv
<1>2. ASSUME NEW h \in Handles, Accept(h) PROVE TypeInv'
  <2> DEFINE d == [msg[h] EXCEPT !.at = Len(accepted)]
  <2>1. msg[h] \in Messages /\ accepted \in Seq(Frames) /\ Len(accepted) \in Nat
    BY <1>2, LenProperties DEF Accept, TypeInv
  <2>2. d \in Messages
    BY <2>1 DEF Messages
  <2>3. msg[h].frames \in Seq(Frames)
    BY <2>1 DEF Messages
  <2>4. accepted' \in Seq(Frames)
    BY <1>2, <2>1, <2>3, Concatenated DEF Accept
  <2>5. chan' = Append(chan, d) /\ chan \in Seq(Messages)
    BY <1>2 DEF Accept, TypeInv
  <2> HIDE DEF d
  <2>6. chan' \in Seq(Messages) /\ Len(chan') <= Capacity
    BY <1>2, <2>2, <2>5, Appended, CapacityAssumption DEF Accept, TypeInv
  <2>7. hpc' \in [Handles -> {"idle", "sending", "closing"}]
        /\ msg' \in [Handles -> Messages \cup {Nothing}]
        /\ \A g \in Handles : hpc'[g] = "sending" => msg'[g] \in Messages
    BY <1>2 DEF Accept, TypeInv
  <2>8. QED
    BY <1>2, <2>4, <2>6, <2>7 DEF Accept, TypeInv
<1>3. ASSUME NEW h \in Handles, Refuse(h) PROVE TypeInv'
  BY <1>3 DEF Refuse, TypeInv
<1>4. ASSUME NEW h \in Handles, GiveUp(h) PROVE TypeInv'
  BY <1>4 DEF GiveUp, TypeInv
<1>5. ASSUME NEW h \in Handles, CloseChannel(h) PROVE TypeInv'
  BY <1>5 DEF CloseChannel, TypeInv
<1>6. ASSUME NEW h \in Handles, DropHandle(h) PROVE TypeInv'
  <2>1. closed' \in BOOLEAN
    BY <1>6, Zenon DEF DropHandle
  <2>2. QED
    BY <1>6, <2>1 DEF DropHandle, TypeInv
<1>7. ASSUME NEW kinds, NEW to \in {"write", "flush", "close", "recv"}, Recv(kinds, to)
      PROVE  /\ chan' \in Seq(Messages) /\ Len(chan') <= Capacity
             /\ Head(chan) = chan[1] /\ Head(chan) \in Messages /\ Head(chan).kind \in kinds
             /\ cur' \in Messages \cup {Nothing} /\ part' \in 1 .. 2 /\ part' = 1
             /\ wpc' = to
  BY <1>7, HeadTail, CapacityAssumption, LenProperties DEF Recv, TypeInv
<1>8. ASSUME RecvMessage PROVE TypeInv'
  <2>1. Recv({"notify", "burst", "request"}, "write")
    BY <1>8 DEF RecvMessage
  <2>2. cur' = Head(chan)
    BY <2>1 DEF Recv
  <2>3. Head(chan) \in Messages /\ Head(chan).kind \in {"notify", "burst", "request"}
    BY <1>7, <2>1
  <2>4. Len(Head(chan).frames) \in 1 .. 2
    BY <2>3, FrameCounts DEF Messages
  <2>5. /\ chan' \in Seq(Messages) /\ Len(chan') <= Capacity
        /\ cur' \in Messages /\ part' = 1 /\ part' <= Len(cur'.frames) /\ wpc' = "write"
    BY <1>7, <2>1, <2>2, <2>3, <2>4
  <2>6. QED
    BY <1>8, <2>5 DEF RecvMessage, TypeInv
<1>9. ASSUME RecvFlush PROVE TypeInv'
  BY <1>7, <1>9 DEF RecvFlush, TypeInv
<1>10. ASSUME RecvCloseNow PROVE TypeInv'
  BY <1>7, <1>10 DEF RecvCloseNow, TypeInv
<1>11. ASSUME RecvCloseAfterFlush PROVE TypeInv'
  BY <1>7, <1>11 DEF RecvCloseAfterFlush, TypeInv, Exits
<1>12. ASSUME RecvEnd PROVE TypeInv'
  BY <1>12 DEF RecvEnd, TypeInv
<1>13. ASSUME WriteFrame PROVE TypeInv'
  <2>1. wire' \in Seq(Frames)
    BY <1>13, NextPartType, AppendProperties DEF WriteFrame, TypeInv
  <2>2. QED
    BY <1>13, <2>1, NextPartType DEF WriteFrame, TypeInv
<1>14. ASSUME WriteFails PROVE TypeInv'
  BY <1>14 DEF WriteFails, TypeInv, Exits
<1>15. ASSUME RequestDropped PROVE TypeInv'
  BY <1>15, NextPartType DEF RequestDropped, TypeInv
<1>16. ASSUME Flush PROVE TypeInv'
  BY <1>16 DEF Flush, TypeInv, Exits
<1>17. ASSUME CloseTransport PROVE TypeInv'
  BY <1>17 DEF CloseTransport, TypeInv, Exits
<1>18. ASSUME CloseAtExit PROVE TypeInv'
  BY <1>18 DEF CloseAtExit, TypeInv
<1>19. ASSUME MarkExpired PROVE TypeInv'
  BY <1>19 DEF MarkExpired, TypeInv
<1>20. ASSUME Abort PROVE TypeInv'
  BY <1>20 DEF Abort, TypeInv
<1>21. ASSUME DropReceiver \/ WeakenReceiver PROVE TypeInv'
  <2>1. closed' \in BOOLEAN
    BY <1>21, Zenon DEF DropReceiver, WeakenReceiver, ReleaseCore
  <2>2. expired' \in BOOLEAN
    <3>1. CASE DropReceiver
      BY <3>1, Zenon DEF DropReceiver
    <3>2. CASE WeakenReceiver
      BY <3>2 DEF WeakenReceiver, TypeInv
    <3>3. QED
      BY <1>21, <3>1, <3>2
  <2>3. QED
    BY <1>21, <2>1, <2>2 DEF DropReceiver, WeakenReceiver, ReleaseCore, TypeInv
<1>22. CASE UNCHANGED vars
  BY <1>22 DEF vars, TypeInv
<1>23. QED
  BY <1>1, <1>2, <1>3, <1>4, <1>5, <1>6, <1>8, <1>9, <1>10, <1>11, <1>12, <1>13, <1>14,
     <1>15, <1>16, <1>17, <1>18, <1>19, <1>20, <1>21, <1>22 DEF Next, Runner, Handle

\* The channel is closed where the code closes it, and stays so.
LEMMA NextControlInv == TypeInv /\ ControlInv /\ [Next]_vars => ControlInv'
<1> SUFFICES ASSUME TypeInv, ControlInv, [Next]_vars PROVE ControlInv'
  OBVIOUS
<1> USE DEF ControlInv, Waiting, Graceful, CoreAlive, handleVars, runnerVars
<1>1. ASSUME NEW h \in Handles, Handle(h) PROVE ControlInv'
  <2>1. CASE DropHandle(h)
    BY <2>1 DEF DropHandle
  <2>2. CASE \/ \E kind \in Kinds : Send(h, kind)
             \/ Accept(h) \/ Refuse(h) \/ GiveUp(h) \/ CloseChannel(h)
    BY <2>2 DEF Send, Accept, Refuse, GiveUp, CloseChannel
  <2>3. QED
    BY <1>1, <2>1, <2>2 DEF Handle
<1>2. CASE RecvMessage \/ RecvFlush \/ RecvCloseNow \/ RecvCloseAfterFlush
  BY <1>2 DEF RecvMessage, RecvFlush, RecvCloseNow, RecvCloseAfterFlush, Recv
<1>3. CASE RecvEnd
  BY <1>3 DEF RecvEnd
<1>4. CASE WriteFrame \/ RequestDropped
  BY <1>4 DEF WriteFrame, RequestDropped, NextPart
<1>5. CASE WriteFails \/ Flush \/ CloseTransport
  BY <1>5 DEF WriteFails, Flush, CloseTransport
<1>6. CASE CloseAtExit \/ MarkExpired \/ Abort
  BY <1>6 DEF CloseAtExit, MarkExpired, Abort
<1>7. CASE DropReceiver \/ WeakenReceiver
  <2>1. closed => closed'
    BY <1>7, Zenon DEF DropReceiver, WeakenReceiver, ReleaseCore
  <2>2. expired => expired'
    BY <1>7, Zenon DEF DropReceiver, WeakenReceiver
  <2>3. ~CoreAlive' => closed'
    BY <1>7, Zenon DEF DropReceiver, WeakenReceiver, ReleaseCore
  <2>4. CoreAlive /\ UNCHANGED <<shutdown, wpc, exit>>
    BY <1>7 DEF DropReceiver, WeakenReceiver, ReleaseCore
  <2>5. QED
    BY <2>1, <2>2, <2>3, <2>4
<1>8. CASE UNCHANGED vars
  BY <1>8 DEF vars
<1>9. QED
  BY <1>1, <1>2, <1>3, <1>4, <1>5, <1>6, <1>7, <1>8 DEF Next, Runner

\* Taking the first directive leaves the others in their places.
LEMMA ChainTail ==
    ASSUME NEW q \in Seq(Messages), q # << >>, NEW from, NEW log, Chained(q, from, log)
    PROVE  /\ InPlace(q[1], log) /\ q[1].at = from
           /\ Chained(Tail(q), q[1].at + Len(q[1].frames), log)
<1> DEFINE t == Tail(q)
<1>1. /\ t \in Seq(Messages) /\ Len(t) = Len(q) - 1
      /\ \A k \in 1 .. Len(q) - 1 : t[k] = q[k + 1]
      /\ Len(q) \in Nat \ {0}
  BY HeadTail
<1>2. t = << >> <=> Len(q) = 1
  <2>1. t = << >> <=> Len(t) = 0
    BY <1>1, EmptySeq
  <2>2. QED
    BY <1>1, <2>1
<1> HIDE DEF t
<1>3. \A k \in 1 .. Len(t) : InPlace(t[k], log)
  BY <1>1 DEF Chained
<1>4. CASE Len(q) = 1
  <2>1. t = << >> /\ Len(t) = 0
    BY <1>1, <1>2, <1>4
  <2>2. InPlace(q[1], log) /\ q[1].at = from /\ q[1].at + Len(q[1].frames) = Len(log)
    BY <1>4 DEF Chained
  <2>3. Chained(t, q[1].at + Len(q[1].frames), log)
    BY <1>3, <2>1, <2>2 DEF Chained
  <2>4. QED
    BY <2>2, <2>3 DEF t
<1>5. CASE Len(q) # 1
  <2>1. t[1] = q[2] /\ t[Len(t)] = q[Len(q)] /\ t # << >>
    BY <1>1, <1>2, <1>5
  <2>2. t[1].at = q[1].at + Len(q[1].frames)
    BY <1>1, <1>5, <2>1 DEF Chained
  <2>3. \A k \in 1 .. Len(t) - 1 : t[k + 1].at = t[k].at + Len(t[k].frames)
    BY <1>1 DEF Chained
  <2>4. InPlace(q[1], log) /\ q[1].at = from
    BY <1>1 DEF Chained
  <2>5. Chained(t, q[1].at + Len(q[1].frames), log)
    BY <1>3, <2>1, <2>2, <2>3 DEF Chained
  <2>6. QED
    BY <2>4, <2>5 DEF t
<1>6. QED
  BY <1>4, <1>5

\* A directive whose frames are added at the end takes its place behind the
\* others, which keep theirs.
LEMMA PlaceKept ==
    ASSUME NEW log \in Seq(Frames), NEW fs \in Seq(Frames),
           NEW d \in Messages, InPlace(d, log)
    PROVE  InPlace(d, log \o fs)
<1>1. d.at \in Nat /\ Len(d.frames) \in Nat
  BY LenProperties DEF Messages
<1>2. \A j \in 1 .. Len(d.frames) : d.at + j \in 1 .. Len(log)
  BY <1>1, Concatenated DEF InPlace
<1>3. QED
  BY <1>1, <1>2, Concatenated DEF InPlace

LEMMA ChainAppend ==
    ASSUME NEW q \in Seq(Messages), NEW from, NEW log \in Seq(Frames),
           Chained(q, from, log),
           NEW d \in Messages, d.at = Len(log)
    PROVE  Chained(Append(q, d), from, log \o d.frames)
<1> DEFINE r == Append(q, d)
           more == log \o d.frames
<1>1. /\ r \in Seq(Messages) /\ Len(r) = Len(q) + 1 /\ r[Len(q) + 1] = d
      /\ \A k \in 1 .. Len(q) : r[k] = q[k]
      /\ Len(q) \in Nat
  BY Appended
<1>2. d.frames \in Seq(Frames)
  BY DEF Messages
<1>3. /\ Len(more) = Len(log) + Len(d.frames) /\ Len(log) \in Nat /\ Len(d.frames) \in Nat
      /\ \A k \in 1 .. Len(d.frames) : more[Len(log) + k] = d.frames[k]
  BY <1>2, Concatenated
<1>4. InPlace(d, more)
  BY <1>3 DEF InPlace
<1>5. ASSUME NEW k \in 1 .. Len(q) PROVE InPlace(q[k], more)
  BY <1>2, PlaceKept, ElementOfSeq DEF Chained
<1>6. r # << >>
  BY <1>1, EmptySeq
<1> HIDE DEF r, more
<1>7. \A k \in 1 .. Len(r) : InPlace(r[k], more)
  BY <1>1, <1>4, <1>5
<1>8. r[1].at = from
  <2>1. CASE q = << >>
    BY <1>1, <2>1, EmptySeq DEF Chained
  <2>2. CASE q # << >>
    BY <1>1, <2>2, EmptySeq DEF Chained
  <2>3. QED
    BY <2>1, <2>2
<1>9. r[Len(r)].at + Len(r[Len(r)].frames) = Len(more)
  BY <1>1, <1>3
<1>10. ASSUME NEW k \in 1 .. Len(r) - 1
       PROVE  r[k + 1].at = r[k].at + Len(r[k].frames)
  <2>1. CASE k = Len(q)
    <3>1. q # << >> /\ r[k + 1] = d /\ r[k] = q[Len(q)]
      BY <1>1, <2>1, EmptySeq
    <3>2. QED
      BY <3>1 DEF Chained
  <2>2. CASE k # Len(q)
    <3>1. k \in 1 .. Len(q) - 1 /\ r[k + 1] = q[k + 1] /\ r[k] = q[k]
      BY <1>1, <2>2
    <3>2. QED
      BY <3>1 DEF Chained
  <2>3. QED
    BY <2>1, <2>2
<1>11. QED
  BY <1>6, <1>7, <1>8, <1>9, <1>10 DEF Chained, r, more

\* One more frame has been dealt with.
LEMMA NextPartPlace ==
    ASSUME TypeInv, PlaceInv, wpc = "write", NextPart,
           Taken' = Taken + 1, chan' = chan, accepted' = accepted
    PROVE  PlaceInv'
<1>1. cur.at \in Nat /\ Len(cur.frames) \in 0 .. 2 /\ part \in 1 .. 2 /\ Taken \in Nat
  <2>1. cur \in Messages /\ part \in 1 .. 2 /\ Len(wire) \in Nat /\ lost \in Nat
    BY LenProperties DEF TypeInv
  <2>2. cur.at \in Nat /\ Len(cur.frames) \in 0 .. 2
    BY <2>1, FrameCounts DEF Messages
  <2>3. Taken \in Nat
    BY <2>1 DEF Taken
  <2>4. QED
    BY <2>1, <2>2, <2>3
<1>2. /\ InPlace(cur, accepted) /\ cur.at + part = Taken + 1
      /\ Chained(chan, cur.at + Len(cur.frames), accepted)
  BY DEF PlaceInv, Front
<1>3. CASE part' = part + 1 /\ UNCHANGED <<cur, wpc>>
  <2>1. cur'.at + part' = Taken' + 1 /\ Front' = cur.at + Len(cur.frames)
    BY <1>1, <1>2, <1>3 DEF Front
  <2>2. QED
    BY <1>2, <1>3, <2>1 DEF PlaceInv
<1>4. CASE part = Len(cur.frames) /\ part' = 1 /\ cur' = Nothing /\ wpc' = "recv"
  <2>1. Front' = cur.at + Len(cur.frames)
    BY <1>1, <1>2, <1>4 DEF Front
  <2>2. QED
    BY <1>2, <1>4, <2>1 DEF PlaceInv
<1>5. QED
  BY <1>3, <1>4 DEF NextPart

\* Taking a directive in hand, or being done with it at once.
LEMMA RecvPlace ==
    ASSUME TypeInv, PlaceInv, NEW kinds, NEW to, Recv(kinds, to),
           \/ to = "write" /\ kinds = {"notify", "burst", "request"}
           \/ to \in {"recv", "flush", "close"} /\ kinds \subseteq {"flush", "closeAfterFlush", "closeNow"},
           UNCHANGED <<wire, lost, accepted>>
    PROVE  PlaceInv'
<1>1. chan \in Seq(Messages) /\ chan # << >> /\ wpc = "recv" /\ part = 1 /\ chan' = Tail(chan)
      /\ wpc' = to /\ part' = 1 /\ accepted' = accepted /\ Taken' = Taken
      /\ Chained(chan, Taken, accepted) /\ Head(chan).kind \in kinds
  BY DEF Recv, TypeInv, PlaceInv, Front, Taken
<1>2. chan[1] = Head(chan) /\ chan[1] \in Messages /\ Taken \in Nat
  BY <1>1, HeadTail, LenProperties DEF TypeInv, Taken
<1>3. /\ InPlace(chan[1], accepted) /\ chan[1].at = Taken
      /\ Chained(chan', chan[1].at + Len(chan[1].frames), accepted')
  BY <1>1, ChainTail
<1>4. CASE to = "write" /\ kinds = {"notify", "burst", "request"}
  <2>1. cur' = chan[1]
    BY <1>2, <1>4 DEF Recv
  <2>2. cur'.at + part' = Taken' + 1 /\ Front' = chan[1].at + Len(chan[1].frames)
    BY <1>1, <1>2, <1>3, <1>4, <2>1 DEF Front
  <2>3. QED
    BY <1>1, <1>3, <1>4, <2>1, <2>2 DEF PlaceInv
<1>5. CASE to \in {"recv", "flush", "close"} /\ kinds \subseteq {"flush", "closeAfterFlush", "closeNow"}
  <2>1. Len(chan[1].frames) = 0
    BY <1>1, <1>2, <1>5, FrameCounts DEF Messages
  <2>2. Front' = chan[1].at + Len(chan[1].frames)
    BY <1>1, <1>2, <1>3, <1>5, <2>1 DEF Front
  <2>3. QED
    BY <1>1, <1>3, <1>5, <2>2 DEF PlaceInv
<1>6. QED
  BY <1>4, <1>5

LEMMA NextPlaceInv == TypeInv /\ PlaceInv /\ [Next]_vars => PlaceInv'
<1> SUFFICES ASSUME TypeInv, PlaceInv, [Next]_vars PROVE PlaceInv'
  OBVIOUS
<1>1. ASSUME NEW h \in Handles, Accept(h) PROVE PlaceInv'
  <2> DEFINE d == [msg[h] EXCEPT !.at = Len(accepted)]
  <2>1. msg[h] \in Messages /\ Len(accepted) \in Nat
    BY <1>1, LenProperties DEF Accept, TypeInv
  <2>2. d \in Messages /\ d.at = Len(accepted) /\ d.frames = msg[h].frames
    BY <2>1 DEF Messages
  <2>3. chan' = Append(chan, d) /\ accepted' = accepted \o d.frames
    BY <1>1, <2>2 DEF Accept
  <2> HIDE DEF d
  <2>4. Front' = Front /\ UNCHANGED <<wpc, cur, part, wire, lost>> /\ Taken' = Taken
    BY <1>1 DEF Accept, runnerVars, Front, Taken
  <2>5. ASSUME wpc = "write", InPlace(cur, accepted) PROVE InPlace(cur, accepted')
    <3>1. cur \in Messages /\ accepted \in Seq(Frames) /\ d.frames \in Seq(Frames)
      BY <2>2, <2>5 DEF TypeInv, Messages
    <3>2. QED
      BY <2>3, <2>5, <3>1, PlaceKept
  <2>6. ASSUME Chained(chan, Front, accepted) PROVE Chained(chan', Front', accepted')
    <3>1. chan \in Seq(Messages) /\ accepted \in Seq(Frames)
      BY DEF TypeInv
    <3>2. QED
      BY <2>2, <2>3, <2>4, <2>6, <3>1, ChainAppend
  <2>7. QED
    BY <2>4, <2>5, <2>6 DEF PlaceInv
<1>2. ASSUME NEW h \in Handles,
             \/ \E kind \in Kinds : Send(h, kind)
             \/ Refuse(h) \/ GiveUp(h) \/ CloseChannel(h) \/ DropHandle(h)
      PROVE  PlaceInv'
  <2>1. UNCHANGED <<chan, wpc, cur, part, wire, lost, accepted>>
    BY <1>2 DEF Send, Refuse, GiveUp, CloseChannel, DropHandle, runnerVars
  <2>2. QED
    BY <2>1 DEF PlaceInv, Front, Taken
<1>3. CASE RecvMessage
  BY <1>3, RecvPlace DEF RecvMessage
<1>4. CASE RecvFlush
  BY <1>4, RecvPlace DEF RecvFlush
<1>5. CASE RecvCloseNow
  BY <1>5, RecvPlace DEF RecvCloseNow
<1>6. CASE RecvCloseAfterFlush
  BY <1>6, RecvPlace DEF RecvCloseAfterFlush
<1>7. CASE WriteFrame
  <2>1. Taken' = Taken + 1
    <3>1. wire' = Append(wire, cur.frames[part]) /\ wire \in Seq(Frames) /\ lost' = lost
          /\ cur.frames[part] \in Frames /\ lost \in Nat
      BY <1>7, NextPartType DEF WriteFrame, TypeInv
    <3>2. Len(wire') = Len(wire) + 1 /\ Len(wire) \in Nat
      BY <3>1, AppendProperties, LenProperties
    <3>3. QED
      BY <3>1, <3>2 DEF Taken
  <2>2. QED
    BY <1>7, <2>1, NextPartPlace DEF WriteFrame
<1>8. CASE RequestDropped
  <2>1. Taken' = Taken + 1
    <3>1. wire' = wire /\ lost' = lost + 1 /\ lost \in Nat /\ Len(wire) \in Nat
      BY <1>8, LenProperties DEF RequestDropped, TypeInv
    <3>2. QED
      BY <3>1 DEF Taken
  <2>2. QED
    BY <1>8, <2>1, NextPartPlace DEF RequestDropped
<1>9. CASE Flush
  BY <1>9 DEF Flush, PlaceInv, Front, Taken
<1>10. CASE WriteFails \/ CloseTransport \/ CloseAtExit \/ MarkExpired \/ Abort \/ RecvEnd
  BY <1>10 DEF WriteFails, CloseTransport, CloseAtExit, MarkExpired, Abort, RecvEnd, PlaceInv
<1>11. CASE DropReceiver \/ WeakenReceiver
  BY <1>11 DEF DropReceiver, WeakenReceiver, ReleaseCore, PlaceInv, Front, Taken
<1>12. CASE UNCHANGED vars
  BY <1>12 DEF vars, runnerVars, PlaceInv, Front, Taken
<1>13. QED
  BY <1>1, <1>2, <1>3, <1>4, <1>5, <1>6, <1>7, <1>8, <1>9, <1>10, <1>11, <1>12 DEF Next, Runner, Handle

LEMMA Invariant == Spec => []IInv
<1>1. IInv /\ [Next]_vars => IInv'
  BY NextTypeInv, NextControlInv, NextPlaceInv DEF IInv
<1>2. QED
  BY <1>1, InitIInv, PTL DEF Spec

-----------------------------------------------------------------------------
(* Theorems                                                                *)

\* Type correctness: the variables stay in their ranges, and the channel never
\* holds more than writer_channel_capacity directives.
THEOREM TypeCorrect == Spec => []TypeOK
<1>1. IInv => TypeOK
  <2> SUFFICES ASSUME TypeInv PROVE TypeOK
    BY DEF IInv
  <2>1. \A k \in 1 .. Len(chan) : chan[k].kind \in Kinds
    BY ElementOfSeq DEF TypeInv, Messages
  <2>2. cur.kind \in Kinds \cup {"nothing"}
    BY DEF TypeInv, Messages, Nothing
  <2>3. DOMAIN msg = Handles
    BY DEF TypeInv
  <2>4. closed \in BOOLEAN /\ expired \in BOOLEAN /\ shutdown \in BOOLEAN
    BY DEF TypeInv
  <2>5. QED
    BY <2>1, <2>2, <2>3, <2>4 DEF TypeInv, TypeOK, Waiting
<1>2. QED
  BY <1>1, Invariant, PTL

\* However the runner stops, nobody can queue a message, and when it has ended
\* nobody is left to wait for an answer.
THEOREM SealCorrect == Spec => []ExitSeals
<1>1. IInv => ExitSeals
  BY DEF IInv, ControlInv, ExitSeals, Stopped
<1>2. QED
  BY <1>1, Invariant, PTL

\* The channel takes nothing once a shutdown_writer has returned.
THEOREM ShutdownCorrect == Spec => ShutdownIsFinal
<1>1. ASSUME IInv, [Next]_vars, shutdown
      PROVE  accepted' = accepted /\ Len(chan') <= Len(chan)
  <2> USE DEF handleVars, runnerVars
  <2>1. closed /\ chan \in Seq(Messages) /\ Len(chan) \in Nat
    BY <1>1, LenProperties DEF IInv, TypeInv, ControlInv
  <2>2. ASSUME NEW h \in Handles, Handle(h) PROVE accepted' = accepted /\ chan' = chan
    BY <2>1, <2>2 DEF Handle, Send, Accept, Refuse, GiveUp, CloseChannel, DropHandle
  <2>3. CASE RecvMessage \/ RecvFlush \/ RecvCloseNow \/ RecvCloseAfterFlush
    <3>1. accepted' = accepted /\ chan' = Tail(chan) /\ chan # << >>
      BY <2>3 DEF RecvMessage, RecvFlush, RecvCloseNow, RecvCloseAfterFlush, Recv
    <3>2. Len(Tail(chan)) = Len(chan) - 1
      BY <2>1, <3>1, HeadTail
    <3>3. QED
      BY <2>1, <3>1, <3>2
  <2>4. CASE \/ RecvEnd \/ WriteFrame \/ WriteFails \/ RequestDropped \/ Flush
             \/ CloseTransport \/ CloseAtExit \/ MarkExpired \/ Abort
             \/ DropReceiver \/ WeakenReceiver \/ UNCHANGED vars
    <3>1. accepted' = accepted /\ chan' = chan
      BY <2>4 DEF RecvEnd, WriteFrame, WriteFails, RequestDropped, Flush,
         CloseTransport, CloseAtExit, MarkExpired, Abort, DropReceiver, WeakenReceiver,
         ReleaseCore, vars
    <3>2. QED
      BY <2>1, <3>1
  <2>5. QED
    BY <1>1, <2>1, <2>2, <2>3, <2>4 DEF Next, Runner
<1>2. QED
  BY <1>1, Invariant, PTL DEF Spec, ShutdownIsFinal

\* The requests expire with the Receiver, while the writer may write on, or
\* behind a closed channel; and a runner that is done takes and writes no frame
\* of a call that was told Closed.
THEOREM ExpiryCorrect == Spec => ExpiryInOrder
<1>1. ASSUME IInv, [Next]_vars, expired', ~expired
      PROVE  closed \/ (Receiver \in alive /\ Receiver \notin alive')
  <2> USE DEF handleVars, runnerVars
  <2>1. CASE MarkExpired
    BY <1>1, <2>1 DEF MarkExpired, IInv, ControlInv
  <2>2. CASE DropReceiver
    BY <2>2 DEF DropReceiver, ReleaseCore
  <2>3. ASSUME NEW h \in Handles, Handle(h) PROVE FALSE
    BY <1>1, <2>3 DEF Handle, Send, Accept, Refuse, GiveUp, CloseChannel, DropHandle
  <2>4. CASE WeakenReceiver \/ Abort \/ UNCHANGED vars
    BY <1>1, <2>4 DEF WeakenReceiver, Abort, vars
  <2>5. CASE Runner
    BY <1>1, <2>1, <2>5 DEF Runner, RecvMessage, RecvFlush, RecvCloseNow,
       RecvCloseAfterFlush, RecvEnd, WriteFrame, WriteFails, RequestDropped, Flush,
       CloseTransport, CloseAtExit
  <2>6. QED
    BY <1>1, <2>2, <2>3, <2>4, <2>5 DEF Next
<1>2. ASSUME IInv, [Next]_vars, wpc = "done" PROVE UNCHANGED <<accepted, wire>>
  <2> USE DEF handleVars, runnerVars
  <2>1. closed
    BY <1>2 DEF IInv, ControlInv
  <2>2. ASSUME NEW h \in Handles, Handle(h) PROVE UNCHANGED <<accepted, wire>>
    BY <2>1, <2>2 DEF Handle, Send, Accept, Refuse, GiveUp, CloseChannel, DropHandle
  <2>3. ~Runner /\ ~Abort
    BY <1>2 DEF Runner, RecvMessage, RecvFlush, RecvCloseNow, RecvCloseAfterFlush, Recv,
       RecvEnd, WriteFrame, WriteFails, RequestDropped, Flush, CloseTransport,
       CloseAtExit, MarkExpired, Abort
  <2>4. CASE DropReceiver \/ WeakenReceiver \/ UNCHANGED vars
    BY <2>4 DEF DropReceiver, WeakenReceiver, ReleaseCore, vars
  <2>5. QED
    BY <1>2, <2>2, <2>3, <2>4 DEF Next
<1>3. QED
  BY <1>1, <1>2, Invariant, PTL DEF Spec, ExpiryInOrder

-----------------------------------------------------------------------------
(* The refinement                                                          *)

LEMMA BoxInit == Init => Box!Init
<1>1. Init => accepted = << >> /\ wire = << >> /\ Len(wire) + lost = 0 /\ ~closed /\ CoreAlive
  <2>1. << >> \in Seq(Frames)
    BY EmptySeq
  <2>2. Len(<< >>) = 0
    BY <2>1, EmptySeq
  <2>3. QED
    BY <2>2, HandlesAssumption DEF Init, CoreAlive
<1>2. Init => OutboxEnd = "running"
  BY DEF Init, OutboxEnd, Graceful
<1>3. QED
  BY <1>1, <1>2 DEF Box!Init, Init, CoreAlive

\* What a handle does is an Accept, a Close, an Orphan or a stutter.
LEMMA BoxHandle ==
    ASSUME IInv, NEW h \in Handles, Handle(h)
    PROVE  [Box!Next]_(Box!ovars)
<1> USE DEF handleVars, runnerVars
<1>1. UNCHANGED <<wpc, exit, wire, lost>>
  BY DEF Handle, Send, Accept, Refuse, GiveUp, CloseChannel, DropHandle
<1>2. OutboxEnd' = OutboxEnd /\ (Len(wire) + lost)' = Len(wire) + lost
  BY <1>1 DEF OutboxEnd, Graceful
<1>3. CASE \/ \E kind \in Kinds : Send(h, kind)
           \/ Refuse(h) \/ GiveUp(h)
  <2>1. UNCHANGED <<closed, alive, accepted>>
    BY <1>3 DEF Send, Refuse, GiveUp
  <2>2. QED
    BY <1>1, <1>2, <2>1 DEF Box!ovars, CoreAlive
<1>4. CASE Accept(h)
  <2> DEFINE fs == msg[h].frames
  <2>1. msg[h] \in Messages /\ accepted \in Seq(Frames)
    BY <1>4 DEF IInv, TypeInv, Accept
  <2>2. fs \in Seq(Frames) /\ Len(fs) \in 0 .. 2
    BY <2>1, FrameCounts DEF Messages
  <2>3. ~closed /\ UNCHANGED <<closed, alive>> /\ accepted' = accepted \o fs
    BY <1>4 DEF Accept
  <2> HIDE DEF fs
  <2>4. CASE Len(fs) = 0
    <3>1. accepted' = accepted
      BY <2>1, <2>2, <2>3, <2>4, ConcatEmptySeq, EmptySeq
    <3>2. QED
      BY <1>1, <1>2, <2>3, <3>1 DEF Box!ovars, CoreAlive
  <2>5. CASE Len(fs) # 0
    <3>1. Len(fs) \in 1 .. 2 /\ fs \in [1 .. Len(fs) -> Frames]
      BY <2>2, <2>5, LenProperties
    <3>2. fs \in UNION {[1 .. n -> Frames] : n \in 1 .. 2}
      BY <3>1
    <3>3. Box!Accept
      BY <1>1, <1>2, <2>3, <3>2 DEF Box!Accept, CoreAlive
    <3>4. QED
      BY <3>3 DEF Box!Next
  <2>6. QED
    BY <2>4, <2>5
<1>5. CASE CloseChannel(h)
  <2>1. closed' = TRUE /\ UNCHANGED <<alive, accepted>>
    BY <1>5 DEF CloseChannel
  <2>2. QED
    <3>1. closed \in BOOLEAN /\ CoreAlive' = CoreAlive
      BY <2>1 DEF IInv, TypeInv, CoreAlive
    <3>2. QED
      BY <1>1, <1>2, <2>1, <3>1 DEF Box!Next, Box!Close, Box!ovars
<1>6. CASE DropHandle(h)
  <2>1. CoreAlive /\ accepted' = accepted
    BY <1>6 DEF DropHandle, CoreAlive
  <2>2. CASE alive' = {}
    <3>1. closed' = TRUE /\ ~CoreAlive'
      BY <1>6, <2>2 DEF DropHandle, CoreAlive
    <3>2. QED
      BY <1>1, <1>2, <2>1, <3>1 DEF Box!Next, Box!Orphan
  <2>3. CASE alive' # {}
    <3>1. closed' = closed
      <4>1. closed' = (closed \/ FALSE)
        BY <1>6, <2>3, Zenon DEF DropHandle
      <4>2. QED
        BY <4>1 DEF IInv, TypeInv
    <3>2. CoreAlive'
      BY <2>3 DEF CoreAlive
    <3>3. QED
      BY <1>1, <1>2, <2>1, <3>1, <3>2 DEF Box!ovars
  <2>4. QED
    BY <2>2, <2>3
<1>7. QED
  BY <1>3, <1>4, <1>5, <1>6 DEF Handle

\* The Receiver lets go of the core: an Orphan, when it was the last to hold it,
\* or a stutter.
LEMMA BoxReceiver ==
    ASSUME IInv, ReleaseCore
    PROVE  [Box!Next]_(Box!ovars)
<1>1. UNCHANGED <<wpc, exit, wire, lost, accepted>> /\ CoreAlive
  BY DEF ReleaseCore, CoreAlive
<1>2. OutboxEnd' = OutboxEnd /\ (Len(wire) + lost)' = Len(wire) + lost
  BY <1>1 DEF OutboxEnd, Graceful
<1>3. CASE alive' = {}
  <2>1. closed' = TRUE /\ ~CoreAlive'
    BY <1>3 DEF ReleaseCore, CoreAlive
  <2>2. QED
    BY <1>1, <1>2, <2>1 DEF Box!Next, Box!Orphan
<1>4. CASE alive' # {}
  <2>1. closed' = closed
    <3>1. closed' = (closed \/ FALSE)
      BY <1>4, Zenon DEF ReleaseCore
    <3>2. QED
      BY <3>1 DEF IInv, TypeInv
  <2>2. CoreAlive'
    BY <1>4 DEF CoreAlive
  <2>3. QED
    BY <1>1, <1>2, <2>1, <2>2 DEF Box!ovars
<1>5. QED
  BY <1>3, <1>4

\* So is what the runner does a Deliver, a Skip, a Close, a Drain, a Cut or a
\* stutter.
LEMMA BoxRunner ==
    ASSUME IInv, Runner \/ Abort
    PROVE  [Box!Next]_(Box!ovars)
<1> USE DEF handleVars, runnerVars, Waiting
<1>1. UNCHANGED <<alive, accepted>> /\ CoreAlive' = CoreAlive
  BY DEF Runner, RecvMessage, RecvFlush, RecvCloseNow, RecvCloseAfterFlush, RecvEnd,
     WriteFrame, WriteFails, RequestDropped, Flush, CloseTransport, CloseAtExit,
     MarkExpired, Abort, CoreAlive
<1>2. Taken = Len(wire) + lost /\ Taken \in Nat /\ Len(accepted) \in Nat /\ closed \in BOOLEAN
  BY LenProperties DEF IInv, TypeInv, Taken
<1>3. wpc \in {"recv", "write", "flush"} => OutboxEnd = "running"
  BY DEF IInv, ControlInv, OutboxEnd
<1>4. wpc = "write" => Taken < Len(accepted) /\ accepted[Taken + 1] = cur.frames[part]
  <2> SUFFICES ASSUME wpc = "write"
               PROVE  Taken < Len(accepted) /\ accepted[Taken + 1] = cur.frames[part]
    OBVIOUS
  <2>1. cur \in Messages /\ part \in 1 .. 2 /\ part <= Len(cur.frames)
    BY DEF IInv, TypeInv
  <2>2. cur.at \in Nat /\ Len(cur.frames) \in Nat
    BY <2>1, LenProperties DEF Messages
  <2>3. InPlace(cur, accepted) /\ cur.at + part = Taken + 1
    BY DEF IInv, PlaceInv
  <2>4. part \in 1 .. Len(cur.frames)
    BY <2>1, <2>2
  <2>5. accepted[cur.at + part] = cur.frames[part] /\ cur.at + part <= Len(accepted)
    BY <2>1, <2>2, <2>3, <2>4 DEF InPlace
  <2>6. QED
    BY <1>2, <2>3, <2>5
<1>5. CASE RecvMessage \/ RecvFlush
  <2>1. wpc = "recv" /\ wpc' \in {"write", "flush"} /\ UNCHANGED <<closed, exit, wire, lost>>
    BY <1>5 DEF RecvMessage, RecvFlush, Recv
  <2>2. OutboxEnd' = OutboxEnd
    BY <2>1 DEF OutboxEnd, Graceful
  <2>3. QED
    BY <1>1, <2>1, <2>2 DEF Box!ovars
<1>6. CASE RecvCloseNow
  <2>1. wpc = "recv" /\ wpc' = "close" /\ closed' = TRUE /\ UNCHANGED <<exit, wire, lost>>
    BY <1>6 DEF RecvCloseNow, Recv
  <2>2. OutboxEnd = "running" /\ OutboxEnd' = "cut"
    BY <1>3, <2>1 DEF OutboxEnd
  <2>3. Box!Cut
    BY <1>1, <2>1, <2>2 DEF Box!Cut
  <2>4. QED
    BY <2>3 DEF Box!Next
<1>7. CASE RecvCloseAfterFlush
  <2>1. wpc = "recv" /\ wpc' = "recv" /\ closed' = TRUE /\ exit' = "ManualClose"
        /\ UNCHANGED <<wire, lost>>
    BY <1>7 DEF RecvCloseAfterFlush, Recv
  <2>2. OutboxEnd = "running" /\ OutboxEnd' = "running"
    BY <1>3, <2>1 DEF OutboxEnd, Graceful
  <2>3. QED
    BY <1>1, <1>2, <2>1, <2>2 DEF Box!Next, Box!Close, Box!ovars
<1>8. CASE RecvEnd
  <2>1. wpc = "recv" /\ wpc' = "exit" /\ closed /\ chan = << >> /\ UNCHANGED <<closed, exit, wire, lost>>
    BY <1>8 DEF RecvEnd
  <2>2. Taken = Len(accepted)
    BY <2>1 DEF IInv, PlaceInv, Chained, Front
  <2>3. OutboxEnd = "running" /\ OutboxEnd' = "drained"
    BY <1>3, <2>1 DEF OutboxEnd, Graceful, IInv, ControlInv
  <2>4. Box!Drain
    BY <1>1, <1>2, <2>1, <2>2, <2>3 DEF Box!Drain
  <2>5. QED
    BY <2>4 DEF Box!Next
<1>9. CASE WriteFrame
  <2>1. wpc = "write" /\ wpc' \in {"write", "recv"} /\ UNCHANGED <<closed, exit, lost>>
        /\ wire' = Append(wire, cur.frames[part])
    BY <1>9 DEF WriteFrame, NextPart
  <2>2. (Len(wire) + lost)' = Len(wire) + lost + 1
    <3>1. wire \in Seq(Frames) /\ cur.frames[part] \in Frames /\ lost \in Nat
      BY <1>9, NextPartType DEF WriteFrame, IInv, TypeInv
    <3>2. Len(wire') = Len(wire) + 1 /\ Len(wire) \in Nat
      BY <2>1, <3>1, AppendProperties, LenProperties
    <3>3. QED
      BY <2>1, <3>1, <3>2
  <2>3. OutboxEnd = "running" /\ OutboxEnd' = "running"
    BY <1>3, <2>1 DEF OutboxEnd, Graceful, IInv, ControlInv
  <2>4. Box!Deliver
    BY <1>1, <1>2, <1>4, <2>1, <2>2, <2>3 DEF Box!Deliver
  <2>5. QED
    BY <2>4 DEF Box!Next
<1>10. CASE RequestDropped
  <2>1. wpc = "write" /\ wpc' \in {"write", "recv"} /\ UNCHANGED <<closed, exit, wire>>
        /\ lost' = lost + 1 /\ ~CoreAlive
    BY <1>10 DEF RequestDropped, NextPart
  <2>2. (Len(wire) + lost)' = Len(wire) + lost + 1
    <3>1. Len(wire) \in Nat /\ lost \in Nat
      BY LenProperties DEF IInv, TypeInv
    <3>2. QED
      BY <2>1, <3>1
  <2>3. OutboxEnd = "running" /\ OutboxEnd' = "running"
    BY <1>3, <2>1 DEF OutboxEnd, Graceful, IInv, ControlInv
  <2>4. Box!Skip
    BY <1>1, <1>2, <1>4, <2>1, <2>2, <2>3 DEF Box!Skip
  <2>5. QED
    BY <2>4 DEF Box!Next
<1>11. CASE WriteFails \/ Flush \/ Abort
  <2>1. UNCHANGED <<wire, lost>> /\ closed' \in {closed, FALSE, TRUE}
    BY <1>11 DEF WriteFails, Flush, Abort
  <2>2. CASE wpc = "close"
    <3>1. closed /\ closed' = TRUE /\ wpc' = "aborted"
      BY <1>11, <2>2 DEF WriteFails, Flush, Abort, IInv, ControlInv
    <3>2. OutboxEnd = "cut" /\ OutboxEnd' = "cut"
      BY <2>2, <3>1 DEF OutboxEnd
    <3>3. QED
      BY <1>1, <1>2, <2>1, <3>1, <3>2 DEF Box!ovars
  <2>3. CASE wpc = "flush" /\ wpc' = "recv"
    <3>1. UNCHANGED <<closed, exit>>
      BY <1>11, <2>3 DEF WriteFails, Flush, Abort
    <3>2. OutboxEnd' = OutboxEnd
      BY <2>3, <3>1 DEF OutboxEnd, Graceful
    <3>3. QED
      BY <1>1, <2>1, <3>1, <3>2 DEF Box!ovars
  <2>4. CASE wpc # "close" /\ wpc' # "recv"
    <3>1. OutboxEnd = "running"
      BY <1>3, <1>11, <2>4 DEF WriteFails, Flush, Abort
    <3>2. OutboxEnd' = "cut" /\ (closed' = closed \/ closed' = TRUE)
      BY <1>11, <2>4 DEF WriteFails, Flush, Abort, OutboxEnd, Graceful
    <3>3. Box!Cut
      BY <1>1, <1>2, <2>1, <3>1, <3>2 DEF Box!Cut
    <3>4. QED
      BY <3>3 DEF Box!Next
  <2>5. QED
    BY <1>11, <2>2, <2>3, <2>4 DEF WriteFails, Flush, Abort
<1>12. CASE CloseTransport \/ CloseAtExit \/ MarkExpired
  <2>1. UNCHANGED <<wire, lost>> /\ OutboxEnd' = OutboxEnd
    BY <1>12 DEF CloseTransport, CloseAtExit, MarkExpired, OutboxEnd, Graceful
  <2>2. closed' = closed \/ closed' = TRUE
    BY <1>12 DEF CloseTransport, CloseAtExit, MarkExpired
  <2>3. QED
    BY <1>1, <1>2, <2>1, <2>2 DEF Box!Next, Box!Close, Box!ovars
<1>13. QED
  BY <1>5, <1>6, <1>7, <1>8, <1>9, <1>10, <1>11, <1>12 DEF Runner

\* The write half implements the outbox: accepted frames go out once, in their
\* order; what is passed over is a request of a connection without handles; a
\* graceful end leaves nothing behind.
THEOREM OutboxCorrect == Spec => OutboxKept
<1>1. IInv /\ [Next]_vars => [Box!Next]_(Box!ovars)
  <2> SUFFICES ASSUME IInv, [Next]_vars PROVE [Box!Next]_(Box!ovars)
    OBVIOUS
  <2>1. CASE UNCHANGED vars
    BY <2>1 DEF vars, handleVars, runnerVars, Box!ovars, OutboxEnd, Graceful, CoreAlive
  <2>2. QED
    BY <2>1, BoxHandle, BoxRunner, BoxReceiver DEF Next, DropReceiver, WeakenReceiver
<1>2. QED
  BY <1>1, BoxInit, Invariant, PTL DEF Spec, OutboxKept, Box!Spec
=============================================================================
