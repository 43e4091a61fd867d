---------------------------- MODULE Inbound_proofs ---------------------------
(***************************************************************************)
(* Theorems about the receiving side for any set of requests, inbounds and *)
(* threads, any capacity, and any codec.                                   *)
(***************************************************************************)
EXTENDS Inbound, Codec_proofs, SequenceTheorems

\* What has been made of a request, and that nothing has of one not yet read.
ReadInv ==
    /\ IF rpc = "push" THEN hand \in Items ELSE hand = None
    /\ drainer # None => rpc \in {"drain", "done"}
    /\ \A o \in Inbounds : o \in queue \cup {hand} => o \in made
    /\ \A r \in Requests : r \in net => Status(r) = "unread" /\ \A o \in made : o[1] # r

IInv == TypeOK /\ ReadInv /\ OneOwner

-----------------------------------------------------------------------------
(* Lemmas                                                                  *)

LEMMA Constants ==
    /\ \A r \in Requests : Original(r) \in Inbounds /\ Original(r)[1] = r
    /\ \A o \in Inbounds : o[1] \in Requests
    /\ None \notin Requests /\ Eof \notin Requests /\ Unhandled \in Said
    /\ None \notin Inbounds /\ Eof \notin Inbounds /\ Frames \cap Inbounds = {}
<1>1. \A r \in Requests : Original(r) \in Requests \X {0} /\ Original(r)[1] = r
  BY DEF Original
<1>2. QED
  BY <1>1, InboundsAssumption, NoneAssumption, FramesAssumption DEF Said, Frames

LEMMA JobType ==
    ASSUME TypeOK, NEW a \in Actors
    PROVE  /\ job[a] \in Jobs
           /\ job[a] # Idle => job[a].req \in Requests /\ job[a].res \in Said
           /\ job[a] = Idle => job[a].req = None
BY DEF TypeOK, Jobs, Idle

LEMMA StatusUnread ==
    ASSUME NEW r, Status(r) = "unread"
    PROVE  r \notin lost \cup dropped /\ ~Answering(r) /\ ~Answered(r) /\ ~Open(r) /\ Unread(r)
BY DEF Status

-----------------------------------------------------------------------------
(* The invariant                                                           *)

LEMMA InitIInv == Init => IInv
<1> SUFFICES ASSUME Init PROVE IInv
  OBVIOUS
<1>1. job \in [Actors -> Jobs] /\ \A a \in Actors : job[a] = Idle /\ job[a].req = None
  BY DEF Init, Jobs, Idle
<1>2. log \in Seq(Entries) /\ Len(log) = 0 /\ written = 0
  <2>1. << >> \in Seq(Entries)
    BY EmptySeq
  <2>2. QED
    BY <2>1, EmptySeq DEF Init
<1>3. /\ net = Frames /\ ended = FALSE /\ rpc = "recv" /\ hand = None /\ queue = {}
      /\ rxOpen = TRUE /\ drainer = None /\ live = {} /\ made = {} /\ outOpen = TRUE
      /\ token = [o \in Inbounds |-> FALSE] /\ dropped = {} /\ lost = {} /\ codec \in CodecsUsed
  BY DEF Init
<1>4. TypeOK
  <2>1. Len(log) - written <= Capacity /\ written \in 0 .. Len(log)
    BY <1>2, BoundsAssumption
  <2>2. token \in [Inbounds -> BOOLEAN]
    BY <1>3
  <2>3. QED
    BY <1>1, <1>2, <1>3, <2>1, <2>2 DEF TypeOK
<1>5. \A r \in Requests : ~Answering(r) /\ ~Answered(r) /\ Unread(r)
  BY <1>1, <1>2, <1>3, Constants DEF Answering, Answered, Unread
<1>6. \A r \in Requests : Status(r) = "unread"
  BY <1>3, <1>5 DEF Status, Open
<1>7. ReadInv
  BY <1>3, <1>6, Constants DEF ReadInv
<1>8. OneOwner
  BY <1>1, <1>2, <1>3, <1>5, <1>6 DEF OneOwner
<1>9. QED
  BY <1>4, <1>7, <1>8 DEF IInv

Places == live \cup queue \cup {hand}

\* What the status of a request is made of.
LEMMA StatusValue ==
    ASSUME NEW r
    PROVE  /\ r \in lost /\ r \notin dropped /\ ~Answering(r) /\ ~Answered(r) /\ ~Open(r)
                => Status(r) = "lost"
           /\ r \notin lost /\ r \in dropped /\ ~Answering(r) /\ ~Answered(r) /\ ~Open(r)
                => Status(r) = "dropped"
           /\ r \notin lost /\ r \notin dropped /\ Answering(r) /\ ~Answered(r) /\ ~Open(r)
                => Status(r) = "answering"
           /\ r \notin lost /\ r \notin dropped /\ ~Answering(r) /\ Answered(r) /\ ~Open(r)
                => Status(r) = "answered"
           /\ r \notin lost /\ r \notin dropped /\ ~Answering(r) /\ ~Answered(r) /\ Open(r)
                => Status(r) = "open"
           /\ r \notin lost /\ r \notin dropped /\ ~Answering(r) /\ ~Answered(r) /\ ~Open(r)
                /\ Unread(r) => Status(r) = "unread"
BY DEF Status

LEMMA StatusValueNext ==
    ASSUME NEW r
    PROVE  /\ r \in lost' /\ r \notin dropped' /\ ~Answering(r)' /\ ~Answered(r)' /\ ~Open(r)'
                => Status(r)' = "lost"
           /\ r \notin lost' /\ r \in dropped' /\ ~Answering(r)' /\ ~Answered(r)' /\ ~Open(r)'
                => Status(r)' = "dropped"
           /\ r \notin lost' /\ r \notin dropped' /\ Answering(r)' /\ ~Answered(r)' /\ ~Open(r)'
                => Status(r)' = "answering"
           /\ r \notin lost' /\ r \notin dropped' /\ ~Answering(r)' /\ Answered(r)' /\ ~Open(r)'
                => Status(r)' = "answered"
           /\ r \notin lost' /\ r \notin dropped' /\ ~Answering(r)' /\ ~Answered(r)' /\ Open(r)'
                => Status(r)' = "open"
BY DEF Status

LEMMA StatusSame ==
    ASSUME NEW r, r \in lost' <=> r \in lost, r \in dropped' <=> r \in dropped,
           Answering(r)' <=> Answering(r), Answered(r)' <=> Answered(r),
           Open(r)' <=> Open(r), Unread(r)' <=> Unread(r)
    PROVE  Status(r)' = Status(r)
BY DEF Status

\* The parts of OneOwner.
TokenAlone(o) ==
    token[o] =>
        /\ o \in Places
        /\ o[1] \notin lost \cup dropped /\ ~Answering(o[1]) /\ ~Answered(o[1])
        /\ \A p \in Inbounds : token[p] /\ p[1] = o[1] => p = o

JobAlone(a) ==
    job[a] # Idle =>
        /\ job[a].req \notin lost \cup dropped /\ ~Answered(job[a].req)
        /\ \A b \in Actors : job[b].req = job[a].req => b = a

LogOnce == \A i, j \in 1 .. Len(log) : log[i].req = log[j].req => i = j

Settled(r) ==
    /\ Answered(r) => r \notin lost \cup dropped
    /\ r \notin lost \cap dropped
    /\ Status(r) # "vanished"

LEMMA Parts ==
    OneOwner <=> /\ \A o \in Inbounds : TokenAlone(o)
                 /\ \A a \in Actors : JobAlone(a)
                 /\ LogOnce
                 /\ \A r \in Requests : Settled(r)
BY DEF OneOwner, TokenAlone, JobAlone, LogOnce, Settled, Places

LEMMA PartsNext ==
    ASSUME \A o \in Inbounds : TokenAlone(o)', \A a \in Actors : JobAlone(a)',
           LogOnce', \A r \in Requests : Settled(r)'
    PROVE  OneOwner'
BY DEF OneOwner, TokenAlone, JobAlone, LogOnce, Settled, Places

\* Nothing happens to the right to answer; inbounds change hands.
LEMMA RightsStay ==
    ASSUME OneOwner, UNCHANGED <<made, token, job, log, dropped, lost>>,
           \A o \in Inbounds : token[o] /\ o \in Places => o \in Places'
    PROVE  OneOwner'
<1>1. \A r : /\ (Answering(r)' <=> Answering(r)) /\ (Answered(r)' <=> Answered(r))
             /\ Status(r)' = Status(r)
  BY DEF Answering, Answered, Status, Open, Unread
<1>2. QED
  BY <1>1 DEF OneOwner, Places

\* The inbounds other than o that hold a token still have a place.
OthersStay(o) == \A p \in Inbounds : p # o /\ token[p] /\ p \in Places => p \in Places'

\* One request moves from one status to another, and no other one does.
Moved(q, from, to) ==
    /\ Status(q) = from /\ Status(q)' = to
    /\ \A r \in Requests : r # q => Status(r)' = Status(r)

\* Once an answer is encoded, or could not be, the token is gone.
LEMMA EncodeRights ==
    ASSUME TypeOK, OneOwner, NEW a \in Actors, NEW o \in Inbounds, NEW res \in Said,
           job[a] = Idle, EncodeAnswer(a, o, res), UNCHANGED <<made, log, dropped>>,
           OthersStay(o)
    PROVE  /\ OneOwner' /\ token' \in [Inbounds -> BOOLEAN] /\ job' \in [Actors -> Jobs]
           /\ lost' \subseteq Requests
           /\ Moved(o[1], "open", "answering") \/ Moved(o[1], "open", "lost")
<1> DEFINE q == o[1]
           job2 == [by |-> o, req |-> q, res |-> res]
<1>1. /\ q \in Requests /\ token[o] /\ token' = [token EXCEPT ![o] = FALSE]
      /\ token \in [Inbounds -> BOOLEAN] /\ job \in [Actors -> Jobs] /\ lost \subseteq Requests
      /\ q # None
  BY Constants DEF EncodeAnswer, TypeOK
<1>0. made' = made /\ log' = log /\ dropped' = dropped
  OBVIOUS
<1>2. q \notin lost \cup dropped /\ ~Answering(q) /\ ~Answered(q)
      /\ \A p \in Inbounds : token[p] /\ p[1] = q => p = o
  BY <1>1 DEF OneOwner
<1>3. \A p \in Inbounds : token'[p] <=> token[p] /\ p # o
  BY <1>1
<1>4. \A r : (Answered(r)' <=> Answered(r))
  BY DEF Answered
<1>5. \A r : r # q => (Open(r)' <=> Open(r))
  BY <1>3 DEF Open
<1>9. Open(q)
  BY <1>1 DEF Open
<1>6. CASE Encodable(q)
  <2>1. job' = [job EXCEPT ![a] = job2] /\ lost' = lost
    BY <1>6 DEF EncodeAnswer
  <2>2. job2 \in Jobs /\ job2 # Idle /\ job2.req = q
    BY <1>1 DEF Jobs, Idle
  <2> HIDE DEF job2
  <2>3. \A b \in Actors : job'[b] = IF b = a THEN job2 ELSE job[b]
    BY <1>1, <2>1
  <2>4. job[a].req # q /\ \A b \in Actors : job[b].req # q
    BY <1>2 DEF Answering
  <2>5. \A r \in Requests : Answering(r)' <=> r = q \/ Answering(r)
    BY <1>1, <2>2, <2>3, Constants, JobType DEF Answering
  <2>6. \A r \in Requests : r # q => Status(r)' = Status(r)
    <3>1. \A r \in Requests : r # q => /\ (Answering(r)' <=> Answering(r)) /\ (Open(r)' <=> Open(r))
                                       /\ (Answered(r)' <=> Answered(r)) /\ (Unread(r)' <=> Unread(r))
      BY <1>0, <1>4, <1>5, <2>1, <2>5 DEF Unread, Original
    <3>2. QED
      BY <1>0, <2>1, <3>1, StatusSame
  <2>7. Status(q) = "open" /\ Status(q)' = "answering"
    <3>1. ~Open(q)'
      BY <1>2, <1>3 DEF Open
    <3>2. QED
      BY <1>0, <1>1, <1>2, <1>4, <1>9, <2>1, <2>5, <3>1, StatusValue, StatusValueNext
  <2>8. job' \in [Actors -> Jobs] /\ lost' \subseteq Requests
    BY <1>1, <2>1, <2>2
  <2>9. OneOwner'
    <3>1. \A p \in Inbounds : TokenAlone(p)'
      BY <1>2, <1>3, <1>4, <2>1, <2>5, Constants, Parts DEF TokenAlone, OthersStay
    <3>2. \A b \in Actors : JobAlone(b)'
      BY <1>2, <2>1, <2>2, <2>3, <2>4, Parts DEF JobAlone, Answered
    <3>3. LogOnce'
      BY DEF LogOnce, OneOwner
    <3>4. \A r \in Requests : Settled(r)'
      BY <1>4, <2>1, <2>6, <2>7, Parts DEF Settled
    <3>5. QED
      BY <3>1, <3>2, <3>3, <3>4, PartsNext
  <2>10. QED
    BY <1>3, <2>6, <2>7, <2>8, <2>9, <1>1 DEF Moved
<1>7. CASE ~Encodable(q)
  <2>1. job' = job /\ lost' = lost \cup {q}
    BY <1>7 DEF EncodeAnswer
  <2>2. \A r : (Answering(r)' <=> Answering(r))
    BY <2>1 DEF Answering
  <2>3. \A r \in Requests : r # q => Status(r)' = Status(r)
    <3>1. \A r \in Requests : r # q => (Open(r)' <=> Open(r)) /\ (Unread(r)' <=> Unread(r))
      BY <1>0, <1>5, <2>1 DEF Unread, Original
    <3>2. QED
      BY <1>0, <1>4, <2>1, <2>2, <3>1, StatusSame
  <2>4. Status(q) = "open" /\ Status(q)' = "lost"
    <3>1. ~Open(q)'
      BY <1>2, <1>3 DEF Open
    <3>2. QED
      BY <1>0, <1>1, <1>2, <1>4, <1>9, <2>1, <2>2, <3>1, StatusValue, StatusValueNext
  <2>5. OneOwner'
    <3>1. \A p \in Inbounds : TokenAlone(p)'
      BY <1>2, <1>3, <1>4, <2>1, <2>2, Parts DEF TokenAlone, OthersStay
    <3>2. \A b \in Actors : JobAlone(b)'
      BY <1>2, <2>1, Parts DEF JobAlone, Answering, Answered
    <3>3. LogOnce'
      BY DEF LogOnce, OneOwner
    <3>4. \A r \in Requests : Settled(r)'
      BY <1>2, <1>4, <2>1, <2>3, <2>4, Parts DEF Settled
    <3>5. QED
      BY <3>1, <3>2, <3>3, <3>4, PartsNext
  <2>6. QED
    BY <1>1, <1>3, <2>1, <2>3, <2>4, <2>5 DEF Moved
<1>8. QED
  BY <1>6, <1>7

\* An answer under way leaves, into the log or not.
LEMMA SendRights ==
    ASSUME TypeOK, OneOwner, NEW a \in Actors, NEW q, q = job[a].req,
           Accept(a) \/ LoseAnswer(a)
    PROVE  /\ OneOwner' /\ q \in Requests
           /\ Accept(a) => Moved(q, "answering", "answered")
           /\ LoseAnswer(a) => Moved(q, "answering", "lost")
<1> DEFINE entry == [req |-> q, res |-> job[a].res]
<1>0. /\ UNCHANGED <<live, queue, hand, made, token, dropped>> /\ job' = [job EXCEPT ![a] = Idle]
      /\ job[a] # Idle /\ job \in [Actors -> Jobs] /\ log \in Seq(Entries)
  BY DEF Accept, LoseAnswer, readVars, queueVars, objVars, TypeOK
<1>1. q \in Requests /\ job[a].res \in Said /\ Idle.req = None /\ None \notin Requests
  BY <1>0, JobType, Constants DEF Idle
<1>2. \A b \in Actors : job'[b] = IF b = a THEN Idle ELSE job[b]
  BY <1>0
<1>3. q \notin lost \cup dropped /\ ~Answered(q) /\ \A b \in Actors : job[b].req = q => b = a
  BY <1>0, Parts DEF JobAlone
<1>4. \A r \in Requests : Answering(r)' <=> Answering(r) /\ r # q
  BY <1>1, <1>2, <1>3 DEF Answering
<1>5. Answering(q)
  BY DEF Answering
<1>6. \A p \in Inbounds : token[p] => p[1] # q
  BY <1>5, Parts DEF TokenAlone
<1>7. ~Open(q) /\ ~Open(q)'
  BY <1>0, <1>6 DEF Open
<1>8. \A r : Open(r)' <=> Open(r)
  BY <1>0 DEF Open
<1>9. entry \in Entries /\ entry.req = q
  BY <1>1 DEF Entries
<1> HIDE DEF entry
<1>10. CASE Accept(a)
  <2>1. log' = Append(log, entry) /\ lost' = lost
    BY <1>10 DEF Accept, entry
  <2>2. /\ log' \in Seq(Entries) /\ Len(log') = Len(log) + 1 /\ Len(log) \in Nat
        /\ log'[Len(log) + 1] = entry /\ \A i \in 1 .. Len(log) : log'[i] = log[i]
    BY <1>0, <1>9, <2>1, AppendProperties, LenProperties
  <2>3. \A r : Answered(r)' <=> Answered(r) \/ r = q
    BY <1>9, <2>2 DEF Answered
  <2>4. \A r \in Requests : r # q => Status(r)' = Status(r)
    <3>1. \A r \in Requests : Unread(r)' <=> Unread(r)
      BY <1>0, <2>1 DEF Unread, Original
    <3>2. QED
      BY <1>0, <1>4, <1>8, <2>1, <2>3, <3>1, StatusSame
  <2>5. Status(q) = "answering" /\ Status(q)' = "answered"
    BY <1>0, <1>1, <1>3, <1>4, <1>5, <1>7, <2>1, <2>3, StatusValue, StatusValueNext
  <2>6. \A p \in Inbounds : TokenAlone(p)'
    BY <1>0, <1>4, <1>6, <2>1, <2>3, Constants, Parts DEF TokenAlone, Places
  <2>7. ASSUME NEW b \in Actors PROVE JobAlone(b)'
    <3>1. ASSUME job'[b] # Idle PROVE job[b].req \in Requests /\ b # a /\ job'[b] = job[b]
      BY <1>2, <3>1, JobType
    <3>2. ASSUME job'[b] # Idle PROVE ~Answered(job[b].req)'
      BY <1>1, <1>2, <1>3, <1>9, <2>2, <3>1, <3>2, JobType, Parts DEF JobAlone, Answered
    <3>3. QED
      BY <1>0, <1>1, <1>2, <1>3, <2>1, <3>1, <3>2, JobType, Parts DEF JobAlone
  <2>8. LogOnce'
    BY <1>3, <1>9, <2>2, Parts DEF LogOnce, Answered
  <2>9. \A r \in Requests : Settled(r)'
    BY <1>0, <1>3, <2>1, <2>3, <2>4, <2>5, Parts DEF Settled
  <2>10. ~LoseAnswer(a)
    BY <1>10 DEF Accept, LoseAnswer
  <2>11. QED
    BY <1>1, <2>4, <2>5, <2>6, <2>7, <2>8, <2>9, <2>10, PartsNext DEF Moved
<1>11. CASE LoseAnswer(a)
  <2>1. log' = log /\ lost' = lost \cup {q}
    BY <1>11 DEF LoseAnswer
  <2>2. \A r : Answered(r)' <=> Answered(r)
    BY <2>1 DEF Answered
  <2>3. \A r \in Requests : r # q => Status(r)' = Status(r)
    <3>1. \A r \in Requests : r # q => (Unread(r)' <=> Unread(r))
      BY <1>0, <2>1 DEF Unread, Original
    <3>2. QED
      BY <1>0, <1>4, <1>8, <2>1, <2>2, <3>1, StatusSame
  <2>4. Status(q) = "answering" /\ Status(q)' = "lost"
    BY <1>0, <1>1, <1>3, <1>4, <1>5, <1>7, <2>1, <2>2, StatusValue, StatusValueNext
  <2>5. \A p \in Inbounds : TokenAlone(p)'
    BY <1>0, <1>4, <1>6, <2>1, <2>2, Constants, Parts DEF TokenAlone, Places
  <2>6. ASSUME NEW b \in Actors PROVE JobAlone(b)'
    BY <1>0, <1>1, <1>2, <1>3, <2>1, JobType, Parts DEF JobAlone, Answered
  <2>7. LogOnce'
    BY <2>1, Parts DEF LogOnce
  <2>8. \A r \in Requests : Settled(r)'
    BY <1>0, <1>3, <2>1, <2>2, <2>3, <2>4, Parts DEF Settled
  <2>9. ~Accept(a)
    BY <2>1, <1>0, <1>9, AppendProperties, LenProperties DEF Accept, entry
  <2>10. QED
    BY <1>1, <2>3, <2>4, <2>5, <2>6, <2>7, <2>8, <2>9, PartsNext DEF Moved
<1>12. QED
  BY <1>10, <1>11

\* drop_request gives the token up.
LEMMA DropRights ==
    ASSUME TypeOK, OneOwner, NEW h \in Handlers, NEW o \in Inbounds, DropRequest(h, o)
    PROVE  OneOwner' /\ o[1] \in Requests /\ Moved(o[1], "open", "dropped")
<1> DEFINE q == o[1]
<1>0. /\ UNCHANGED <<live, queue, hand, made, log, lost, job>> /\ dropped' = dropped \cup {q}
      /\ token[o] /\ token' = [token EXCEPT ![o] = FALSE] /\ token \in [Inbounds -> BOOLEAN]
      /\ q \in Requests
  BY Constants DEF DropRequest, readVars, queueVars, TypeOK
<1>1. /\ q \notin lost \cup dropped /\ ~Answering(q) /\ ~Answered(q)
      /\ \A p \in Inbounds : token[p] /\ p[1] = q => p = o
  BY <1>0, Parts DEF TokenAlone
<1>2. \A p \in Inbounds : token'[p] <=> token[p] /\ p # o
  BY <1>0
<1>3. \A r : (Answered(r)' <=> Answered(r)) /\ (Answering(r)' <=> Answering(r))
             /\ (Unread(r)' <=> Unread(r)) /\ (r # q => (Open(r)' <=> Open(r)))
  BY <1>0, <1>2 DEF Answered, Answering, Unread, Original, Open
<1>4. \A r \in Requests : r # q => Status(r)' = Status(r)
  BY <1>0, <1>3, StatusSame
<1>5. Status(q) = "open" /\ Status(q)' = "dropped"
  <2>1. Open(q) /\ ~Open(q)'
    BY <1>0, <1>1, <1>2 DEF Open
  <2>2. QED
    BY <1>0, <1>1, <1>3, <2>1, StatusValue, StatusValueNext
<1>6. \A p \in Inbounds : TokenAlone(p)'
  BY <1>0, <1>1, <1>2, <1>3, Parts DEF TokenAlone, Places
<1>7. \A a \in Actors : JobAlone(a)'
  BY <1>0, <1>1, Parts DEF JobAlone, Answering, Answered
<1>8. LogOnce'
  BY <1>0, Parts DEF LogOnce
<1>9. \A r \in Requests : Settled(r)'
  BY <1>0, <1>1, <1>3, <1>4, <1>5, Parts DEF Settled
<1>10. QED
  BY <1>0, <1>4, <1>5, <1>6, <1>7, <1>8, <1>9, PartsNext DEF Moved

\* take and clone_message leave the token with the inbound or move it to the
\* new one.
LEMMA CloneRights ==
    ASSUME IInv, NEW h \in Handlers, NEW o \in Inbounds, NEW c \in Inbounds,
           NewInbound(h, o, c)
    PROVE  /\ OneOwner' /\ token' \in [Inbounds -> BOOLEAN]
           /\ \A r \in Requests : Status(r)' = Status(r)
<1>0. /\ UNCHANGED <<queue, hand, log, lost, dropped, job>>
      /\ live' = live \cup {c} /\ made' = made \cup {c}
      /\ c \notin made /\ c[1] = o[1] /\ c[2] # 0 /\ o \in live /\ o # c
      /\ token \in [Inbounds -> BOOLEAN] /\ OneOwner
  BY DEF NewInbound, readVars, queueVars, IInv, TypeOK
<1>1. ~token[c]
  <2>1. c \notin Places
    BY <1>0 DEF Places, IInv, TypeOK, ReadInv
  <2>2. QED
    BY <1>0, <2>1, Parts DEF TokenAlone
<1>2. /\ token' \in [Inbounds -> BOOLEAN]
      /\ \/ \A p \in Inbounds : token'[p] <=> (token[p] /\ p # o) \/ (p = c /\ token[o])
         \/ \A p \in Inbounds : token'[p] <=> token[p]
  BY <1>0, <1>1 DEF NewInbound, MoveToken
<1>3. \A r : (Answered(r)' <=> Answered(r)) /\ (Answering(r)' <=> Answering(r))
  BY <1>0 DEF Answered, Answering
<1>4. \A r : (Open(r)' <=> Open(r))
  BY <1>0, <1>1, <1>2 DEF Open
<1>5. \A r \in Requests : (Unread(r)' <=> Unread(r))
  <2>1. \A r \in Requests : Original(r) # c
    BY <1>0 DEF Original
  <2>2. QED
    BY <1>0, <2>1 DEF Unread, Original
<1>6. \A r \in Requests : Status(r)' = Status(r)
  BY <1>0, <1>3, <1>4, <1>5, StatusSame
<1>7. \A p \in Inbounds : TokenAlone(p)'
  BY <1>0, <1>1, <1>2, <1>3, Parts DEF TokenAlone, Places
<1>8. \A a \in Actors : JobAlone(a)'
  BY <1>0, Parts DEF JobAlone, Answered
<1>9. LogOnce'
  BY <1>0, Parts DEF LogOnce
<1>10. \A r \in Requests : Settled(r)'
  BY <1>0, <1>3, <1>6, Parts DEF Settled
<1>11. QED
  BY <1>2, <1>6, <1>7, <1>8, <1>9, <1>10, PartsNext

\* A request that is read for the first time has one token.
LEMMA RecvRights ==
    ASSUME IInv, NEW q \in Requests, RecvRequest(q)
    PROVE  OneOwner' /\ token' \in [Inbounds -> BOOLEAN] /\ Moved(q, "unread", "open")
<1> DEFINE o == Original(q)
<1>0. /\ UNCHANGED <<live, queue, log, lost, dropped, job>> /\ q \in net /\ rpc = "recv"
      /\ hand' = o /\ made' = made \cup {o} /\ token' = [token EXCEPT ![o] = TRUE]
      /\ token \in [Inbounds -> BOOLEAN] /\ OneOwner /\ o \in Inbounds /\ o[1] = q
  BY Constants DEF RecvRequest, Take, Push, queueVars, IInv, TypeOK
<1>1. q \notin lost \cup dropped /\ ~Answering(q) /\ ~Answered(q) /\ \A p \in made : p[1] # q
  BY <1>0, StatusUnread DEF IInv, ReadInv
<1>2. \A p \in Inbounds : token[p] => p \in made /\ p \in Places
  BY Parts DEF IInv, TokenAlone, Places, TypeOK, ReadInv
<1>3. \A p \in Inbounds : token'[p] <=> token[p] \/ p = o
  BY <1>0
<1>4. \A r : (Answered(r)' <=> Answered(r)) /\ (Answering(r)' <=> Answering(r))
  BY <1>0 DEF Answered, Answering
<1>5. \A r \in Requests : r # q => (Open(r)' <=> Open(r)) /\ (Unread(r)' <=> Unread(r))
  <2>1. \A r \in Requests : r # q => Original(r) # o
    BY DEF Original
  <2>2. QED
    BY <1>0, <1>3, <2>1 DEF Open, Unread, Original
<1>6. \A r \in Requests : r # q => Status(r)' = Status(r)
  BY <1>0, <1>4, <1>5, StatusSame
<1>7. Status(q) = "unread" /\ Status(q)' = "open"
  <2>1. ~Open(q) /\ Open(q)' /\ Unread(q)
    BY <1>0, <1>1, <1>2, <1>3 DEF Open, Unread
  <2>2. QED
    BY <1>0, <1>1, <1>4, <2>1, StatusValue, StatusValueNext
<1>8. \A p \in Inbounds : TokenAlone(p)'
  <2>1. \A p \in Inbounds : p # hand
    BY <1>0, Constants DEF IInv, ReadInv
  <2>2. QED
    BY <1>0, <1>1, <1>2, <1>3, <1>4, <2>1, Constants, Parts DEF IInv, TokenAlone, Places
<1>9. \A a \in Actors : JobAlone(a)'
  BY <1>0, Parts DEF IInv, JobAlone, Answered
<1>10. LogOnce'
  BY <1>0, Parts DEF IInv, LogOnce
<1>11. \A r \in Requests : Settled(r)'
  BY <1>0, <1>1, <1>4, <1>6, <1>7, Parts DEF IInv, Settled
<1>12. QED
  BY <1>0, <1>6, <1>7, <1>8, <1>9, <1>10, <1>11, PartsNext DEF Moved

\* A request whose method is not UTF-8 is given up when it is read; any other
\* bad frame is nobody's.
LEMMA BadFrameRights ==
    ASSUME IInv, NEW f \in Frames, RecvBadFrame(f)
    PROVE  /\ OneOwner'
           /\ f \in Requests => Moved(f, "unread", "lost")
           /\ f \notin Requests => \A r \in Requests : Status(r)' = Status(r)
<1>0. /\ UNCHANGED <<live, queue, made, token, job, log, dropped>> /\ f \in net /\ rpc = "recv"
      /\ hand' = f /\ lost' = lost \cup ({f} \cap Requests) /\ OneOwner
  BY DEF RecvBadFrame, Take, Push, queueVars, objVars, IInv
<1>1. \A p \in Inbounds : p # hand /\ p # f
  BY <1>0, Constants DEF IInv, ReadInv
<1>2. \A p \in Inbounds : token[p] => p \in Places'
  BY <1>0, <1>1, Parts DEF TokenAlone, Places
<1>3. CASE f \notin Requests
  <2>1. lost' = lost
    BY <1>0, <1>3
  <2>2. \A r \in Requests : Status(r)' = Status(r)
    BY <1>0, <2>1 DEF Status, Answering, Answered, Open, Unread, Original
  <2>3. QED
    BY <1>0, <1>2, <1>3, <2>1, <2>2, RightsStay
<1>4. CASE f \in Requests
  <2>1. lost' = lost \cup {f}
    BY <1>0, <1>4
  <2>2. /\ f \notin lost \cup dropped /\ ~Answering(f) /\ ~Answered(f)
        /\ \A p \in made : p[1] # f
    BY <1>0, <1>4, StatusUnread DEF IInv, ReadInv
  <2>3. \A p \in Inbounds : token[p] => p[1] # f
    BY <2>2, Parts DEF IInv, TokenAlone, Places, TypeOK, ReadInv
  <2>4. \A r : /\ (Answered(r)' <=> Answered(r)) /\ (Answering(r)' <=> Answering(r))
               /\ (Open(r)' <=> Open(r)) /\ (r # f => (Unread(r)' <=> Unread(r)))
    BY <1>0, <2>1 DEF Answered, Answering, Open, Unread, Original
  <2>5. \A r \in Requests : r # f => Status(r)' = Status(r)
    BY <1>0, <2>1, <2>4, StatusSame
  <2>6. Status(f) = "unread" /\ Status(f)' = "lost"
    <3>1. ~Open(f) /\ Unread(f)
      BY <1>4, <2>2, <2>3, Constants DEF Open, Unread
    <3>2. QED
      BY <1>0, <2>1, <2>2, <2>4, <3>1, StatusValue, StatusValueNext
  <2>7. \A p \in Inbounds : TokenAlone(p)'
    BY <1>0, <1>2, <2>1, <2>3, <2>4, Parts DEF TokenAlone
  <2>8. \A a \in Actors : JobAlone(a)'
    BY <1>0, <2>1, <2>2, Parts DEF JobAlone, Answering, Answered
  <2>9. LogOnce'
    BY <1>0, Parts DEF LogOnce
  <2>10. \A r \in Requests : Settled(r)'
    BY <1>0, <2>1, <2>2, <2>4, <2>5, <2>6, Parts DEF Settled
  <2>11. QED
    BY <1>4, <2>5, <2>6, <2>7, <2>8, <2>9, <2>10, PartsNext DEF Moved
<1>5. QED
  BY <1>3, <1>4

-----------------------------------------------------------------------------
(* One step                                                                *)

\* What an encoded answer or a silent drop does when inbound o leaves a place.
LEMMA EncodeStep ==
    ASSUME IInv, NEW h \in Handlers, NEW o \in Inbounds, NEW res \in Answers,
           Respond(h, o, res)
    PROVE  /\ OneOwner' /\ token' \in [Inbounds -> BOOLEAN] /\ job' \in [Actors -> Jobs]
           /\ lost' \subseteq Requests
           /\ Moved(o[1], "open", "answering") \/ Moved(o[1], "open", "lost")
<1>1. /\ UNCHANGED <<live, queue, hand, made, log, dropped>> /\ job[h] = Idle
      /\ EncodeAnswer(h, o, res) /\ h \in Actors /\ res \in Said /\ TypeOK /\ OneOwner
  BY DEF Respond, Free, Actors, Said, readVars, queueVars, IInv
<1>2. OthersStay(o)
  BY <1>1 DEF OthersStay, Places
<1>3. o[1] \in Requests
  BY Constants
<1>4. QED
  BY <1>1, <1>2, <1>3, EncodeRights

\* The drop of an inbound, by a handler or with the queue.
LEMMA DropStep ==
    ASSUME IInv, NEW a \in Actors, NEW o \in Inbounds, DropInbound(a, o) \/ DrainItem(a, o)
    PROVE  /\ OneOwner' /\ token' \in [Inbounds -> BOOLEAN] /\ job' \in [Actors -> Jobs]
           /\ lost' \subseteq Requests
           /\ \/ \A r \in Requests : Status(r)' = Status(r)
              \/ Moved(o[1], "open", "answering") \/ Moved(o[1], "open", "lost")
<1>1. /\ UNCHANGED <<hand, made, log, dropped>> /\ job[a] = Idle /\ TypeOK /\ OneOwner
      /\ token[o] => EncodeAnswer(a, o, Unhandled)
      /\ ~token[o] => UNCHANGED <<token, job, lost>>
      /\ \/ live' = live \ {o} /\ queue' = queue
         \/ queue' = queue \ {o} /\ live' = live
  <2>1. CASE DropInbound(a, o)
    BY <2>1 DEF DropInbound, Free, readVars, queueVars, IInv
  <2>2. CASE DrainItem(a, o)
    BY <2>2 DEF DrainItem, readVars, IInv
  <2>3. QED
    BY <2>1, <2>2
<1>2. CASE token[o]
  <2>1. /\ EncodeAnswer(a, o, Unhandled) /\ Unhandled \in Said
        /\ OthersStay(o)
    BY <1>1, <1>2, Constants DEF OthersStay, Places
  <2>2. QED
    BY <1>1, <2>1, EncodeRights
<1>3. CASE ~token[o]
  <2>1. /\ UNCHANGED <<token, job, lost>>
        /\ \A p \in Inbounds : token[p] /\ p \in Places => p \in Places'
    BY <1>1, <1>3 DEF Places
  <2>2. OneOwner'
    BY <1>1, <2>1, RightsStay
  <2>3. \A r \in Requests : Status(r)' = Status(r)
    BY <1>1, <2>1 DEF Status, Answering, Answered, Open, Unread, Original
  <2>4. QED
    BY <1>1, <2>1, <2>2, <2>3 DEF TypeOK
<1>4. QED
  BY <1>2, <1>3

\* The steps that leave every right where it is.
Aside ==
    \/ StreamEnds \/ RecvEof \/ PushItem \/ PushFails \/ Receive \/ Write \/ CloseWriter
    \/ \E f \in Frames : RecvResponse(f)
    \/ \E h \in Handlers : DropReceiver(h)
    \/ \E a \in Actors : DrainEnds(a)
    \/ \E a \in Actors, item \in Items \ Inbounds : DrainItem(a, item)

LEMMA AsideStep ==
    ASSUME IInv, Aside \/ UNCHANGED vars
    PROVE  /\ UNCHANGED <<made, token, job, log, dropped, lost>> /\ OneOwner'
           /\ \A r \in Requests : Status(r)' = Status(r)
<1> USE DEF readVars, queueVars, objVars, outVars
<1>1. UNCHANGED <<made, token, job, log, dropped, lost>>
  BY DEF Aside, StreamEnds, RecvEof, PushItem, PushFails, Receive, Write, CloseWriter,
     RecvResponse, DropReceiver, DrainEnds, DrainItem, vars
<1>2. \A p \in Inbounds : token[p] /\ p \in Places => p \in Places'
  <2>1. CASE RecvEof
    <3>1. \A p \in Inbounds : p # hand
      BY <2>1, Constants DEF RecvEof, IInv, ReadInv
    <3>2. QED
      BY <2>1, <3>1 DEF RecvEof, Places
  <2>2. CASE PushItem \/ PushFails
    BY <2>2 DEF PushItem, PushFails, Places
  <2>3. CASE Receive
    BY <2>3 DEF Receive, Places
  <2>4. CASE \E a \in Actors, item \in Items \ Inbounds : DrainItem(a, item)
    BY <2>4 DEF DrainItem, Places
  <2>5. CASE \/ StreamEnds \/ Write \/ CloseWriter \/ UNCHANGED vars
             \/ \E f \in Frames : RecvResponse(f)
             \/ \E h \in Handlers : DropReceiver(h)
             \/ \E a \in Actors : DrainEnds(a)
    BY <2>5 DEF StreamEnds, Write, CloseWriter, RecvResponse, DropReceiver, DrainEnds,
       vars, Places
  <2>6. QED
    BY <2>1, <2>2, <2>3, <2>4, <2>5 DEF Aside
<1>3. \A r \in Requests : Status(r)' = Status(r)
  BY <1>1 DEF Status, Answering, Answered, Open, Unread, Original
<1>4. QED
  BY <1>1, <1>2, <1>3, RightsStay DEF IInv

\* Every step is one of these.
LEMMA Steps ==
    ASSUME [Next]_vars
    PROVE  \/ Aside \/ UNCHANGED vars
           \/ \E q \in Requests : RecvRequest(q)
           \/ \E f \in Frames : RecvBadFrame(f)
           \/ \E a \in Actors : Accept(a) \/ LoseAnswer(a)
           \/ \E a \in Actors, o \in Inbounds : DropInbound(a, o) \/ DrainItem(a, o)
           \/ \E h \in Handlers, o \in Inbounds, res \in Answers : Respond(h, o, res)
           \/ \E h \in Handlers, o \in Inbounds : DropRequest(h, o)
           \/ \E h \in Handlers, o, c \in Inbounds : NewInbound(h, o, c)
<1>1. CASE StreamEnds \/ ReadFrame \/ PushItem \/ Receive \/ Write \/ CloseWriter
  BY <1>1 DEF ReadFrame, Aside, RecvRequest
<1>2. CASE \E a \in Actors : Send(a) \/ Drain(a)
  BY <1>2 DEF Send, Drain, Aside
<1>3. CASE \E h \in Handlers : Handle(h)
  <2>1. Handlers \subseteq Actors
    BY DEF Actors
  <2>2. QED
    BY <1>3, <2>1 DEF Handle, Aside
<1>4. QED
  BY <1>1, <1>2, <1>3 DEF Next

\* Who is where, and in which range, after a step.
LEMMA NextTypeOK == IInv /\ [Next]_vars => TypeOK'
<1> SUFFICES ASSUME IInv, [Next]_vars PROVE TypeOK'
  OBVIOUS
<1> USE DEF readVars, queueVars, objVars, outVars
<1>0. TypeOK /\ ReadInv
  BY DEF IInv
<1>1. ASSUME NEW q \in Requests, RecvRequest(q) PROVE TypeOK'
  <2>1. token' \in [Inbounds -> BOOLEAN] /\ Original(q) \in Inbounds
    BY <1>1, RecvRights, Constants
  <2>2. QED
    BY <1>0, <1>1, <2>1 DEF TypeOK, RecvRequest, Take, Push, Items
<1>2. ASSUME NEW f \in Frames, RecvBadFrame(f) PROVE TypeOK'
  BY <1>0, <1>2 DEF TypeOK, RecvBadFrame, Take, Push, Items
<1>3. ASSUME NEW a \in Actors, Accept(a) PROVE TypeOK'
  <2>1. log \in Seq(Entries) /\ [req |-> job[a].req, res |-> job[a].res] \in Entries
        /\ Len(log) \in Nat /\ written \in 0 .. Len(log)
    BY <1>0, <1>3, JobType, LenProperties DEF TypeOK, Accept, Entries
  <2>2. log' \in Seq(Entries) /\ Len(log') = Len(log) + 1 /\ written' = written
        /\ Len(log) - written < Capacity
    BY <1>3, <2>1, AppendProperties DEF Accept
  <2>3. written' \in 0 .. Len(log') /\ Len(log') - written' <= Capacity
    BY <2>1, <2>2, BoundsAssumption
  <2>4. job' \in [Actors -> Jobs]
    BY <1>0, <1>3 DEF TypeOK, Accept, Jobs
  <2>5. QED
    BY <1>0, <1>3, <2>2, <2>3, <2>4 DEF TypeOK, Accept
<1>4. ASSUME NEW a \in Actors, LoseAnswer(a) PROVE TypeOK'
  <2>1. job[a].req \in Requests /\ job' \in [Actors -> Jobs]
    BY <1>0, <1>4, JobType DEF TypeOK, LoseAnswer, Jobs
  <2>2. QED
    BY <1>0, <1>4, <2>1 DEF TypeOK, LoseAnswer
<1>5. ASSUME NEW a \in Actors, NEW o \in Inbounds, DropInbound(a, o) \/ DrainItem(a, o)
      PROVE  TypeOK'
  <2>1. token' \in [Inbounds -> BOOLEAN] /\ job' \in [Actors -> Jobs] /\ lost' \subseteq Requests
    BY <1>5, DropStep
  <2>2. CASE DropInbound(a, o)
    BY <1>0, <2>1, <2>2 DEF TypeOK, DropInbound
  <2>3. CASE DrainItem(a, o)
    BY <1>0, <2>1, <2>3 DEF TypeOK, DrainItem
  <2>4. QED
    BY <1>5, <2>2, <2>3
<1>6. ASSUME NEW h \in Handlers, NEW o \in Inbounds, NEW res \in Answers, Respond(h, o, res)
      PROVE  TypeOK'
  <2>1. token' \in [Inbounds -> BOOLEAN] /\ job' \in [Actors -> Jobs] /\ lost' \subseteq Requests
    BY <1>6, EncodeStep
  <2>2. QED
    BY <1>0, <1>6, <2>1 DEF TypeOK, Respond
<1>7. ASSUME NEW h \in Handlers, NEW o \in Inbounds, DropRequest(h, o) PROVE TypeOK'
  BY <1>0, <1>7, Constants DEF TypeOK, DropRequest
<1>8. ASSUME NEW h \in Handlers, NEW o \in Inbounds, NEW c \in Inbounds, NewInbound(h, o, c)
      PROVE  TypeOK'
  <2>1. token' \in [Inbounds -> BOOLEAN]
    BY <1>8, CloneRights
  <2>2. QED
    BY <1>0, <1>8, <2>1 DEF TypeOK, NewInbound
<1>9. CASE Aside
  <2>1. CASE StreamEnds \/ RecvEof \/ CloseWriter \/ \E f \in Frames : RecvResponse(f)
    BY <1>0, <2>1 DEF TypeOK, StreamEnds, RecvEof, CloseWriter, RecvResponse, Take, Push, Items
  <2>2. CASE PushItem \/ PushFails
    BY <1>0, <2>2 DEF TypeOK, ReadInv, PushItem, PushFails, Actors
  <2>3. CASE Receive
    <3>1. \A item \in queue : {item} \cap Inbounds \subseteq made
      BY <1>0 DEF ReadInv
    <3>2. QED
      BY <1>0, <2>3, <3>1 DEF TypeOK, Receive
  <2>4. CASE Write
    <3>1. written' \in 0 .. Len(log) /\ Len(log) - written' <= Capacity
      BY <1>0, <2>4, LenProperties, BoundsAssumption DEF TypeOK, Write
    <3>2. QED
      BY <1>0, <2>4, <3>1 DEF TypeOK, Write
  <2>5. CASE \/ \E h \in Handlers : DropReceiver(h)
             \/ \E a \in Actors : DrainEnds(a)
             \/ \E a \in Actors, item \in Items \ Inbounds : DrainItem(a, item)
    BY <1>0, <2>5 DEF TypeOK, DropReceiver, DrainEnds, DrainItem, Actors
  <2>6. QED
    BY <1>9, <2>1, <2>2, <2>3, <2>4, <2>5 DEF Aside
<1>10. CASE UNCHANGED vars
  BY <1>0, <1>10 DEF TypeOK, vars
<1>11. QED
  BY <1>1, <1>2, <1>3, <1>4, <1>5, <1>6, <1>7, <1>8, <1>9, <1>10, Steps

\* What a step does to the status of the requests and to the log: nothing, or
\* one request moves on; it is read in the same step, or was read before.
StatusOf == [r \in Requests |-> Status(r)]

LEMMA NextStatus ==
    ASSUME IInv, [Next]_vars
    PROVE  /\ OneOwner'
           /\ \/ log' = log /\ \A r \in Requests : Status(r)' = Status(r)
              \/ \E q \in Requests :
                  \/ /\ q \notin net' /\ log' = log
                     /\ Moved(q, "unread", "open") \/ Moved(q, "unread", "lost")
                  \/ /\ log' = log
                     /\ \/ Moved(q, "open", "answering") \/ Moved(q, "open", "lost")
                        \/ Moved(q, "open", "dropped") \/ Moved(q, "answering", "lost")
                  \/ /\ Moved(q, "answering", "answered")
                     /\ \E e \in Entries : e.req = q /\ log' = Append(log, e)
<1>1. ASSUME NEW q \in Requests, RecvRequest(q)
      PROVE  OneOwner' /\ Moved(q, "unread", "open") /\ log' = log /\ q \notin net'
  BY <1>1, RecvRights DEF RecvRequest, Take
<1>2. ASSUME NEW f \in Frames, RecvBadFrame(f)
      PROVE  /\ OneOwner' /\ log' = log
             /\ \/ f \in Requests /\ Moved(f, "unread", "lost") /\ f \notin net'
                \/ \A r \in Requests : Status(r)' = Status(r)
  BY <1>2, BadFrameRights DEF RecvBadFrame, Take
<1>3. ASSUME NEW a \in Actors, Accept(a) \/ LoseAnswer(a)
      PROVE  /\ OneOwner'
             /\ \E q \in Requests :
                  \/ Moved(q, "answering", "lost") /\ log' = log
                  \/ /\ Moved(q, "answering", "answered")
                     /\ \E e \in Entries : e.req = q /\ log' = Append(log, e)
  <2> DEFINE e == [req |-> job[a].req, res |-> job[a].res]
  <2>0. PICK q : q = job[a].req
    OBVIOUS
  <2>1. /\ OneOwner' /\ q \in Requests
        /\ Accept(a) => Moved(q, "answering", "answered")
        /\ LoseAnswer(a) => Moved(q, "answering", "lost")
    BY <1>3, <2>0, SendRights DEF IInv
  <2>2. Accept(a) => e \in Entries /\ e.req = q /\ log' = Append(log, e)
    BY <2>0, <2>1, JobType DEF Accept, Entries, IInv
  <2>3. LoseAnswer(a) => log' = log
    BY DEF LoseAnswer
  <2>4. QED
    BY <1>3, <2>1, <2>2, <2>3
<1>4. ASSUME NEW a \in Actors, NEW o \in Inbounds, DropInbound(a, o) \/ DrainItem(a, o)
      PROVE  /\ OneOwner' /\ log' = log /\ o[1] \in Requests
             /\ \/ \A r \in Requests : Status(r)' = Status(r)
                \/ Moved(o[1], "open", "answering") \/ Moved(o[1], "open", "lost")
  BY <1>4, DropStep, Constants DEF DropInbound, DrainItem
<1>5. ASSUME NEW h \in Handlers, NEW o \in Inbounds, NEW res \in Answers, Respond(h, o, res)
      PROVE  /\ OneOwner' /\ log' = log /\ o[1] \in Requests
             /\ Moved(o[1], "open", "answering") \/ Moved(o[1], "open", "lost")
  BY <1>5, EncodeStep, Constants DEF Respond
<1>6. ASSUME NEW h \in Handlers, NEW o \in Inbounds, DropRequest(h, o)
      PROVE  OneOwner' /\ log' = log /\ o[1] \in Requests /\ Moved(o[1], "open", "dropped")
  BY <1>6, DropRights DEF DropRequest, IInv
<1>7. ASSUME NEW h \in Handlers, NEW o \in Inbounds, NEW c \in Inbounds, NewInbound(h, o, c)
      PROVE  OneOwner' /\ log' = log /\ \A r \in Requests : Status(r)' = Status(r)
  BY <1>7, CloneRights DEF NewInbound
<1>8. ASSUME Aside \/ UNCHANGED vars
      PROVE  OneOwner' /\ log' = log /\ \A r \in Requests : Status(r)' = Status(r)
  BY <1>8, AsideStep
<1>9. QED
  BY <1>1, <1>2, <1>3, <1>4, <1>5, <1>6, <1>7, <1>8, Steps

LEMMA NextReadInv == IInv /\ [Next]_vars => ReadInv'
<1> SUFFICES ASSUME IInv, [Next]_vars PROVE ReadInv'
  OBVIOUS
<1> USE DEF readVars, queueVars, objVars, outVars
<1>1. net' \subseteq net
  BY Steps DEF Aside, StreamEnds, RecvEof, PushItem, PushFails, Receive, Write, CloseWriter,
     RecvResponse, RecvRequest, RecvBadFrame, Take, DropReceiver, DrainEnds, DrainItem,
     Accept, LoseAnswer, DropInbound, Respond, DropRequest, NewInbound, vars
<1>2. \A r \in Requests : r \in net' => Status(r)' = "unread"
  <2>1. \A r \in Requests : r \in net' => Status(r) = "unread"
    BY <1>1 DEF IInv, ReadInv
  <2>2. QED
    BY <2>1, NextStatus DEF Moved
<1>3. \A r \in Requests : r \in net' => \A o \in made' : o[1] # r
  <2>0. \A r \in Requests : r \in net' => \A o \in made : o[1] # r
    BY <1>1 DEF IInv, ReadInv
  <2>1. ASSUME NEW q \in Requests, RecvRequest(q)
        PROVE  made' = made \cup {Original(q)} /\ Original(q)[1] = q /\ q \notin net'
    BY <2>1, Constants DEF RecvRequest, Take
  <2>2. ASSUME NEW h \in Handlers, NEW o \in Inbounds, NEW c \in Inbounds, NewInbound(h, o, c)
        PROVE  made' = made \cup {c} /\ c[1] = o[1] /\ o \in made
    BY <2>2 DEF NewInbound, IInv, TypeOK
  <2>3. ASSUME ~\E q \in Requests : RecvRequest(q),
               ~\E h \in Handlers, o, c \in Inbounds : NewInbound(h, o, c)
        PROVE  made' = made
    BY <2>3, Steps DEF Aside, StreamEnds, RecvEof, PushItem, PushFails, Receive, Write,
       CloseWriter, RecvResponse, RecvBadFrame, DropReceiver, DrainEnds, DrainItem,
       Accept, LoseAnswer, DropInbound, Respond, DropRequest, vars
  <2>4. QED
    BY <2>0, <2>1, <2>2, <2>3
<1>4. /\ IF rpc' = "push" THEN hand' \in Items ELSE hand' = None
      /\ drainer' # None => rpc' \in {"drain", "done"}
      /\ \A o \in Inbounds : o \in queue' \cup {hand'} => o \in made'
  <2>0. ReadInv /\ made \subseteq made'
    BY Steps DEF Aside, StreamEnds, RecvEof, PushItem, PushFails, Receive, Write,
       CloseWriter, RecvResponse, RecvRequest, RecvBadFrame, DropReceiver, DrainEnds,
       DrainItem, Accept, LoseAnswer, DropInbound, Respond, DropRequest, NewInbound, vars, IInv
  <2>1. CASE \/ \E q \in Requests : RecvRequest(q)
             \/ \E f \in Frames : RecvBadFrame(f)
             \/ RecvEof
    BY <2>0, <2>1, Constants DEF ReadInv, RecvRequest, RecvBadFrame, RecvEof, Push, Take, Items
  <2>2. CASE PushItem \/ PushFails
    BY <2>0, <2>2, ActorsAssumption, Constants DEF ReadInv, PushItem, PushFails
  <2>3. CASE \/ \E a \in Actors : DrainEnds(a)
             \/ \E h \in Handlers : DropReceiver(h)
    BY <2>0, <2>3, ActorsAssumption DEF ReadInv, DrainEnds, DropReceiver, Actors
  <2>4. CASE \/ StreamEnds \/ Receive \/ Write \/ CloseWriter \/ UNCHANGED vars
             \/ \E f \in Frames : RecvResponse(f)
             \/ \E a \in Actors : Accept(a) \/ LoseAnswer(a)
             \/ \E a \in Actors, item \in Items : DrainItem(a, item)
             \/ \E h \in Handlers, o \in Inbounds, res \in Answers : Respond(h, o, res)
             \/ \E h \in Handlers, o \in Inbounds : DropRequest(h, o)
             \/ \E a \in Actors, o \in Inbounds : DropInbound(a, o)
             \/ \E h \in Handlers, o, c \in Inbounds : NewInbound(h, o, c)
    <3>1. UNCHANGED <<rpc, hand, drainer>> /\ queue' \subseteq queue
      BY <2>4 DEF StreamEnds, Receive, Write, CloseWriter, RecvResponse, Take, Accept,
         LoseAnswer, DrainItem, Respond, DropRequest, DropInbound, NewInbound, vars
    <3>2. QED
      BY <2>0, <3>1 DEF ReadInv
  <2>5. QED
    BY <2>1, <2>2, <2>3, <2>4, Steps DEF Aside, Items
<1>5. QED
  BY <1>2, <1>3, <1>4 DEF ReadInv

LEMMA Invariant == Spec => []IInv
<1>1. IInv /\ [Next]_vars => IInv'
  BY NextTypeOK, NextReadInv, NextStatus DEF IInv
<1>2. QED
  BY <1>1, InitIInv, PTL DEF Spec

-----------------------------------------------------------------------------
(* Theorems                                                                *)

\* Type correctness: in particular neither channel grows beyond its capacity.
THEOREM TypeCorrect == Spec => []TypeOK
<1>1. IInv => TypeOK
  BY DEF IInv
<1>2. QED
  BY <1>1, Invariant, PTL

\* The right to answer a request is in one place, whatever copies are made of
\* an inbound and whoever drops or answers which of them.
THEOREM OwnerCorrect == Spec => []OneOwner
<1>1. IInv => OneOwner
  BY DEF IInv
<1>2. QED
  BY <1>1, Invariant, PTL

\* What is sent in answer to a request is read by its caller as it was said, for
\* ids that can be repeated and with the two exceptions of AnswerReadBack.
THEOREM AnswerCorrect == Spec => []AnswerReadBack
<1>1. TypeOK => AnswerReadBack
  <2> SUFFICES ASSUME TypeOK, NEW i \in 1 .. Len(log), NEW c \in Codecs, NEW res \in Results,
                      CanAnswer(c, RawIdOf(c, log[i].req)), ~ReadAsSuccess(c, res)
               PROVE  Says(c, DecodeResponse(c, EncodeResponse(c, RawIdOf(c, log[i].req), res)),
                           RequestId(c, IdOf[log[i].req]), res)
    BY DEF AnswerReadBack
  <2>1. log[i].req \in Requests
    <3>1. log \in Seq(Entries)
      BY DEF TypeOK
    <3>2. log[i] \in Entries
      BY <3>1, ElementOfSeq
    <3>3. QED
      BY <3>2 DEF Entries
  <2>2. IdOf[log[i].req] \in Ids
    BY <2>1, IdAssumption
  <2>3. QED
    BY <2>2, ReadBack DEF RawIdOf
<1>2. QED
  BY <1>1, TypeCorrect, PTL

\* A request that was read is answered at most once, and remains unanswered
\* only where the code gives it up: the receiving side implements AnswerOnce.
THEOREM AnswerOnceCorrect == Spec => AnswerOnceKept
<1>1. Init => Once!Init
  <2> SUFFICES ASSUME Init PROVE Once!Init
    OBVIOUS
  <2>1. \A r \in Requests : Status(r) = "unread"
    BY InitIInv DEF IInv, ReadInv, Init, Frames
  <2>2. QED
    BY <2>1 DEF Init, Once!Init
<1>2. ASSUME IInv, [Next]_vars PROVE [Once!Next]_<<StatusOf, log>>
  <2>1. ASSUME NEW q \in Requests, NEW from, NEW to, Moved(q, from, to)
        PROVE  Once!Move(q, from, to)
    BY <2>1 DEF Moved, Once!Move
  <2>2. CASE log' = log /\ \A r \in Requests : Status(r)' = Status(r)
    BY <2>2 DEF StatusOf
  <2>3. ASSUME NEW q \in Requests, log' = log,
               \/ Moved(q, "unread", "open") \/ Moved(q, "unread", "lost")
        PROVE  Once!Next
    BY <2>1, <2>3 DEF Once!Next, Once!Read
  <2>4. ASSUME NEW q \in Requests, log' = log,
               \/ Moved(q, "open", "answering") \/ Moved(q, "open", "lost")
               \/ Moved(q, "open", "dropped") \/ Moved(q, "answering", "lost")
        PROVE  Once!Next
    BY <2>1, <2>4 DEF Once!Next, Once!Claim, Once!Drop, Once!Lose
  <2>5. ASSUME NEW q \in Requests, Moved(q, "answering", "answered"),
               \E e \in Entries : e.req = q /\ log' = Append(log, e)
        PROVE  Once!Next
    BY <2>1, <2>5 DEF Once!Next, Once!Answer
  <2>6. QED
    BY <1>2, <2>2, <2>3, <2>4, <2>5, NextStatus
<1>3. QED
  BY <1>1, <1>2, Invariant, PTL DEF Spec, AnswerOnceKept, Once!Spec, StatusOf
=============================================================================
