------------------------------- MODULE Inbound ------------------------------
(***************************************************************************)
(* The receiving side of a connection (rpc/receiver.rs): the task of       *)
(* split_recv_task reads frames, hands responses to the pending calls and  *)
(* queues inbound messages; handlers on several threads answer, take,      *)
(* copy and drop them; answers leave through the bounded directive         *)
(* channel.  An Inbound holds the range of the request's id, an atomic     *)
(* that is swapped with 0 by whoever means to answer: the token.           *)
(*                                                                         *)
(* A thread is an actor.  The order of the queue matters to no property,   *)
(* so it is a set.  What happens to the pending calls is the business of   *)
(* RequestContext, what the writer does that of WriteRunner.               *)
(***************************************************************************)
EXTENDS Codec, Sequences, FiniteSets

CONSTANTS
    Requests,       \* the request frames of the peer
    BadNames,       \* those whose method is not UTF-8
    Responses,      \* the responses of the peer to calls that wait
    BadFrames,      \* frames that cannot be decoded, and other responses
    Inbounds,       \* bound: the inbound read from a request, and those take and
                    \* clone_message can make of it, numbered from 0
    Handlers,       \* the threads that handle inbounds
    Reader,         \* the task of split_recv_task
    None, Eof,
    QueueCapacity,  \* the capacity given to split_recv_task
    Capacity,       \* writer_channel_capacity
    CodecsUsed,     \* the codecs a connection may have
    Answers,        \* what the handlers answer
    IdOf            \* the id the peer drew for a request

ASSUME FramesAssumption ==
    /\ BadNames \subseteq Requests
    /\ Requests \cap Responses = {} /\ Requests \cap BadFrames = {} /\ Responses \cap BadFrames = {}
    /\ Eof \notin Requests \cup Responses \cup BadFrames
ASSUME ActorsAssumption == Reader \notin Handlers /\ None \notin Handlers \cup {Reader}
ASSUME NoneAssumption == None \notin Requests \cup Responses \cup BadFrames \cup {Eof}
ASSUME BoundsAssumption ==
    QueueCapacity \in Nat \ {0} /\ Capacity \in Nat \ {0}
ASSUME InboundsAssumption ==
    /\ Inbounds \subseteq Requests \X Nat /\ Requests \X {0} \subseteq Inbounds
    /\ Inbounds \cap (Requests \cup Responses \cup BadFrames \cup {Eof, None}) = {}
ASSUME AnswersAssumption == Answers \subseteq Results /\ CodecsUsed \subseteq Codecs
ASSUME IdAssumption == IdOf \in [Requests -> Ids]

Frames == Requests \cup Responses \cup BadFrames
Actors == Handlers \cup {Reader}

\* The Inbound read from a frame.
Original(r) == <<r, 0>>

\* What the queue carries: an Inbound, or an error with the frame that caused it.
Items == Inbounds \cup Frames \cup {Eof}

VARIABLES
    codec,      \* the codec of the connection
    net,        \* the frames the peer sends and the reader has not read
    ended,      \* the stream has ended
    rpc,        \* where the reader is: "recv", "push", "drain", "done"
    hand,       \* the item it waits to push
    queue,      \* the channel of the MessageReceiver
    rxOpen,     \* the MessageReceiver has not been dropped
    drainer,    \* who drops what is left in the queue
    live,       \* the inbounds in the hands of the handlers
    made,       \* the inbounds that have ever existed
    token,      \* token[o]: the req_id of inbound o is not 0
    job,        \* the answer an actor has encoded and not sent
    outOpen,    \* the directive channel takes messages
    log,        \* the answers the channel has taken
    written,    \* how many of them write_runner has received
    dropped,    \* history: requests given up by drop_request
    lost        \* history: requests given up for lack of an answer

readVars == <<net, ended, rpc, hand>>
queueVars == <<queue, rxOpen, drainer>>
objVars == <<live, made, token>>
outVars == <<outOpen, written>>
vars == <<codec, readVars, queueVars, objVars, job, outVars, log, dropped, lost>>

\* The bytes of the id in request r, and whether an answer can repeat them.
RawIdOf(c, r) == RawId(c, RequestId(c, IdOf[r]))
Encodable(r) == CanAnswer(codec, RawIdOf(codec, r))

Idle == [by |-> None, req |-> None, res |-> Unhandled]

Init ==
    /\ codec \in CodecsUsed
    /\ net = Frames /\ ended = FALSE
    /\ rpc = "recv" /\ hand = None
    /\ queue = {} /\ rxOpen = TRUE /\ drainer = None
    /\ live = {} /\ made = {} /\ token = [o \in Inbounds |-> FALSE]
    /\ job = [a \in Actors |-> Idle]
    /\ outOpen = TRUE /\ log = << >> /\ written = 0
    /\ dropped = {} /\ lost = {}

-----------------------------------------------------------------------------
(* The peer                                                                *)

\* The stream ends, or fails: what the peer has not sent by then, or what was
\* under way, is never read.
StreamEnds ==
    /\ ~ended
    /\ ended' = TRUE
    /\ net' = {}
    /\ UNCHANGED <<codec, rpc, hand, queueVars, objVars, job, outVars, log, dropped, lost>>

-----------------------------------------------------------------------------
(* split_recv_task                                                         *)

Take(f) == rpc = "recv" /\ f \in net /\ net' = net \ {f}

\* The item goes to the queue next, in a step that may wait.
Push(item) == hand' = item /\ rpc' = "push"

\* An inbound request, with its token.
RecvRequest(r) ==
    /\ r \in Requests \ BadNames
    /\ Take(r)
    /\ Push(Original(r))
    /\ made' = made \cup {Original(r)}
    /\ token' = [token EXCEPT ![Original(r)] = TRUE]
    /\ UNCHANGED <<codec, ended, queueVars, live, job, outVars, log, dropped, lost>>

\* A response is handed to its call, and the loop goes on.
RecvResponse(f) ==
    /\ f \in Responses
    /\ Take(f)
    /\ UNCHANGED <<codec, ended, rpc, hand, queueVars, objVars, job, outVars, log, dropped, lost>>

\* Slip: an undecodable frame ends the loop like an end of stream.
RecvBadFrameEnds(f) ==
    /\ f \in BadFrames \cup BadNames
    /\ Take(f)
    /\ rpc' = "done"
    /\ UNCHANGED <<codec, ended, hand, queueVars, objVars, job, outVars, log,
                   dropped, lost>>

\* A frame that cannot be decoded is reported with its bytes, and so are a
\* response nobody waits for and a request whose method is not UTF-8: no
\* Inbound is made of it, hence nobody answers.
RecvBadFrame(f) ==
    /\ f \in BadFrames \cup BadNames
    /\ Take(f)
    /\ Push(f)
    /\ lost' = lost \cup ({f} \cap Requests)
    /\ UNCHANGED <<codec, ended, queueVars, objVars, job, outVars, log, dropped>>

\* The end is reported like any other error.
RecvEof ==
    /\ rpc = "recv" /\ net = {} /\ ended
    /\ Push(Eof)
    /\ UNCHANGED <<codec, net, ended, queueVars, objVars, job, outVars, log, dropped, lost>>

\* tx.send(msg): waits for room.  After the end of the stream the loop is left.
PushItem ==
    /\ rpc = "push" /\ rxOpen
    /\ Cardinality(queue) < QueueCapacity
    /\ queue' = queue \cup {hand}
    /\ hand' = None
    /\ rpc' = IF hand = Eof THEN "done" ELSE "recv"
    /\ UNCHANGED <<codec, net, ended, rxOpen, drainer, objVars, job, outVars, log,
                   dropped, lost>>

\* Slip: the loop looks at the end of the stream only.
PushFailsGoOn ==
    /\ rpc = "push" /\ ~rxOpen
    /\ rpc' = "recv" /\ hand' = None
    /\ UNCHANGED <<codec, net, ended, queueVars, objVars, job, outVars, log, dropped, lost>>

\* Nobody receives any more: the message comes back and is dropped, the loop
\* is left and the sending end goes, with what the queue still holds.
PushFails ==
    /\ rpc = "push" /\ ~rxOpen
    /\ rpc' = "drain"
    /\ drainer' = Reader
    /\ queue' = queue \cup {hand}
    /\ hand' = None
    /\ UNCHANGED <<codec, net, ended, rxOpen, objVars, job, outVars, log, dropped, lost>>

-----------------------------------------------------------------------------
(* Answering                                                               *)

Free(a) == job[a] = Idle /\ drainer # a

\* Nobody uses inbound o by reference: its owner may mutate or drop it.
Unborrowed(o) == \A a \in Actors : job[a].by # o

\* Slip: the token is looked at and left in place.
EncodeAndKeep(a, o, res) ==
    /\ token[o]
    /\ UNCHANGED token
    /\ IF Encodable(o[1])
         THEN /\ job' = [job EXCEPT ![a] = [by |-> o, req |-> o[1], res |-> res]]
              /\ UNCHANGED lost
         ELSE lost' = lost \cup {o[1]} /\ UNCHANGED job

\* encode_response: the token is swapped out before anything else, and is not
\* put back when the codec fails.
EncodeAnswer(a, o, res) ==
    /\ token[o]
    /\ token' = [token EXCEPT ![o] = FALSE]
    /\ IF Encodable(o[1])
         THEN /\ job' = [job EXCEPT ![a] = [by |-> o, req |-> o[1], res |-> res]]
              /\ UNCHANGED lost
         ELSE lost' = lost \cup {o[1]} /\ UNCHANGED job

\* Slip: the capacity is not looked at.
AcceptAlways(a) ==
    /\ job[a] # Idle /\ outOpen
    /\ log' = Append(log, [req |-> job[a].req, res |-> job[a].res])
    /\ job' = [job EXCEPT ![a] = Idle]
    /\ UNCHANGED <<codec, readVars, queueVars, objVars, outVars, dropped, lost>>

\* The channel takes the answer.
Accept(a) ==
    /\ job[a] # Idle
    /\ outOpen /\ Len(log) - written < Capacity
    /\ log' = Append(log, [req |-> job[a].req, res |-> job[a].res])
    /\ job' = [job EXCEPT ![a] = Idle]
    /\ UNCHANGED <<codec, readVars, queueVars, objVars, outVars, dropped, lost>>

\* The channel is closed, or it is full and this is the try_ form, or the
\* future of `response` is dropped while it waits: the answer is gone, and the
\* token with it.
LoseAnswer(a) ==
    /\ job[a] # Idle
    /\ ~outOpen \/ Len(log) - written >= Capacity
    /\ lost' = lost \cup {job[a].req}
    /\ job' = [job EXCEPT ![a] = Idle]
    /\ UNCHANGED <<codec, readVars, queueVars, objVars, outVars, log, dropped>>

-----------------------------------------------------------------------------
(* Handlers                                                                *)

\* MessageReceiver::recv.
Receive ==
    /\ rxOpen /\ queue # {}
    /\ \E item \in queue :
        /\ queue' = queue \ {item}
        /\ live' = live \cup ({item} \cap Inbounds)
    /\ UNCHANGED <<codec, readVars, rxOpen, drainer, made, token, job, outVars, log, dropped, lost>>

\* The MessageReceiver is dropped.  While the task has the sending end the
\* queue keeps what it holds; after that it goes as well.
DropReceiver(h) ==
    /\ rxOpen /\ Free(h)
    /\ rxOpen' = FALSE
    /\ drainer' = IF rpc = "done" THEN h ELSE drainer
    /\ UNCHANGED <<codec, readVars, queue, objVars, job, outVars, log, dropped, lost>>

\* response, try_response: through a shared reference, so others may be at it.
Respond(h, o, res) ==
    /\ Free(h) /\ o \in live
    /\ EncodeAnswer(h, o, res)
    /\ UNCHANGED <<codec, readVars, queueVars, live, made, outVars, log, dropped>>

DropRequest(h, o) ==
    /\ Free(h) /\ o \in live
    /\ token[o]
    /\ token' = [token EXCEPT ![o] = FALSE]
    /\ dropped' = dropped \cup {o[1]}
    /\ UNCHANGED <<codec, readVars, queueVars, live, made, job, outVars, log, lost>>

\* The token moves to a new inbound, swapped out of the old one.
MoveToken(o, c) == token' = [token EXCEPT ![o] = FALSE, ![c] = token[o]]

\* take, through an exclusive reference, leaves an empty notification behind;
\* clone_message(true) takes the token through a shared one, and
\* clone_message(false) leaves it.
NewInbound(h, o, c) ==
    /\ Free(h) /\ o \in live
    /\ c \in Inbounds \ made /\ c[1] = o[1] /\ c[2] # 0
    /\ live' = live \cup {c}
    /\ made' = made \cup {c}
    /\ \/ MoveToken(o, c)
       \/ UNCHANGED token
    /\ UNCHANGED <<codec, readVars, queueVars, job, outVars, log, dropped, lost>>

\* Slip: the drop of a request is silent.
DropSilently(h, o) ==
    /\ Free(h) /\ o \in live /\ Unborrowed(o)
    /\ live' = live \ {o}
    /\ token' = [token EXCEPT ![o] = FALSE]
    /\ UNCHANGED <<codec, readVars, queueVars, made, job, outVars, log, dropped, lost>>

\* Drop for Inbound: what is still a request is answered Unhandled.
DropInbound(h, o) ==
    /\ Free(h) /\ o \in live /\ Unborrowed(o)
    /\ live' = live \ {o}
    /\ IF token[o] THEN EncodeAnswer(h, o, Unhandled) ELSE UNCHANGED <<token, job, lost>>
    /\ UNCHANGED <<codec, readVars, queueVars, made, outVars, log, dropped>>

\* The same for an item that is dropped with the queue.
DrainItem(a, item) ==
    /\ drainer = a /\ job[a] = Idle
    /\ item \in queue
    /\ queue' = queue \ {item}
    /\ IF item \in Inbounds /\ token[item]
         THEN EncodeAnswer(a, item, Unhandled)
         ELSE UNCHANGED <<token, job, lost>>
    /\ UNCHANGED <<codec, readVars, rxOpen, drainer, live, made, outVars, log, dropped>>

DrainEnds(a) ==
    /\ drainer = a /\ job[a] = Idle
    /\ queue = {}
    /\ drainer' = None
    /\ rpc' = "done"
    /\ UNCHANGED <<codec, net, ended, hand, queue, rxOpen, objVars, job, outVars, log,
                   dropped, lost>>

-----------------------------------------------------------------------------
(* The writer, as far as answers see it                                    *)

Write ==
    /\ written < Len(log)
    /\ written' = written + 1
    /\ UNCHANGED <<codec, readVars, queueVars, objVars, job, outOpen, log, dropped, lost>>

\* shutdown_writer, or the end of write_runner.
CloseWriter ==
    /\ outOpen
    /\ outOpen' = FALSE
    /\ UNCHANGED <<codec, readVars, queueVars, objVars, job, written, log, dropped, lost>>

-----------------------------------------------------------------------------
ReadFrame ==
    \/ \E f \in Frames : RecvRequest(f) \/ RecvResponse(f) \/ RecvBadFrame(f)
    \/ RecvEof \/ PushFails

Send(a) == Accept(a) \/ LoseAnswer(a)

Drain(a) == DrainEnds(a) \/ \E item \in Items : DrainItem(a, item)

Handle(h) ==
    \/ DropReceiver(h)
    \/ \E o \in Inbounds :
        \/ \E res \in Answers : Respond(h, o, res)
        \/ DropRequest(h, o) \/ DropInbound(h, o)
        \/ \E c \in Inbounds : NewInbound(h, o, c)

Next ==
    \/ StreamEnds \/ ReadFrame \/ PushItem \/ Receive
    \/ \E a \in Actors : Send(a) \/ Drain(a)
    \/ \E h \in Handlers : Handle(h)
    \/ Write \/ CloseWriter

Spec == Init /\ [][Next]_vars

\* The task of split_recv_task is spawned, and what the peer sends arrives
\* unless the stream ends first.  A waiting push or answer finds room that
\* appears again and again, since the channels serve their waiters in turn; a
\* refused one returns, and a drop does not wait.  Nobody has to receive,
\* handle or answer anything, and the writer need not write.
Fairness ==
    /\ WF_vars(ReadFrame) /\ SF_vars(PushItem)
    /\ WF_vars(Send(Reader)) /\ WF_vars(Drain(Reader))
    /\ \A h \in Handlers :
        /\ SF_vars(Accept(h)) /\ WF_vars(~outOpen /\ LoseAnswer(h))
        /\ WF_vars(drainer = h /\ Send(h)) /\ WF_vars(Drain(h))

FairSpec == Spec /\ Fairness

-----------------------------------------------------------------------------
(* Properties                                                              *)

Said == Answers \cup {Unhandled}
Entries == [req : Requests, res : Said]
Jobs == [by : Inbounds, req : Requests, res : Said] \cup {Idle}

\* Every variable stays in its range, and both channels within their capacity.
TypeOK ==
    /\ codec \in CodecsUsed
    /\ net \subseteq Frames /\ ended \in BOOLEAN
    /\ rpc \in {"recv", "push", "drain", "done"} /\ hand \in Items \cup {None}
    /\ queue \subseteq Items /\ rxOpen \in BOOLEAN /\ drainer \in Actors \cup {None}
    /\ live \subseteq made /\ made \subseteq Inbounds /\ token \in [Inbounds -> BOOLEAN]
    /\ job \in [Actors -> Jobs]
    /\ outOpen \in BOOLEAN
    /\ log \in Seq(Entries) /\ written \in 0 .. Len(log) /\ Len(log) - written <= Capacity
    /\ dropped \subseteq Requests /\ lost \subseteq Requests

\* Where the right to answer request r is.
Unread(r) == Original(r) \notin made /\ r \notin lost
Open(r) == \E o \in Inbounds : o[1] = r /\ token[o]
Answering(r) == \E a \in Actors : job[a].req = r
Answered(r) == \E i \in 1 .. Len(log) : log[i].req = r

Status(r) ==
    IF r \in lost THEN "lost"
    ELSE IF r \in dropped THEN "dropped"
    ELSE IF Answering(r) THEN "answering"
    ELSE IF Answered(r) THEN "answered"
    ELSE IF Open(r) THEN "open"
    ELSE IF Unread(r) THEN "unread" ELSE "vanished"

\* However many inbounds are made of a request, and whichever threads are at
\* them, the right to answer it is in one place, and never in an inbound that
\* has been dropped; so the request is answered once at most, and none gets
\* lost on the way.
OneOwner ==
    /\ \A o \in Inbounds : token[o] =>
        /\ o \in live \cup queue \cup {hand}
        /\ o[1] \notin lost \cup dropped /\ ~Answering(o[1]) /\ ~Answered(o[1])
        /\ \A p \in Inbounds : token[p] /\ p[1] = o[1] => p = o
    /\ \A a \in Actors : job[a] # Idle =>
        /\ job[a].req \notin lost \cup dropped /\ ~Answered(job[a].req)
        /\ \A b \in Actors : job[b].req = job[a].req => b = a
    /\ \A i, j \in 1 .. Len(log) : log[i].req = log[j].req => i = j
    /\ \A r \in Requests :
        /\ Answered(r) => r \notin lost \cup dropped
        /\ r \notin lost \cap dropped
        /\ Status(r) # "vanished"

\* What the peer reads from the answer to a request, whatever the answer and
\* the codec they share: it comes under the id the caller registered, and a
\* value, an error code and an error object arrive as they were sent.  Left out
\* are ids that encode_response cannot repeat (CanAnswer: those a MessagePack
\* peer encodes in fewer than 32 bits) and the answers of ReadAsSuccess (an
\* error object that serializes to nil, in MessagePack); and JSON-RPC has one
\* number for three codes, so that NonUtf8MethodName and Unauthorized are read
\* as InvalidArgument (SameErrc).
AnswerReadBack ==
    \A i \in 1 .. Len(log), c \in Codecs, res \in Results :
        LET r == log[i].req IN
        CanAnswer(c, RawIdOf(c, r)) /\ ~ReadAsSuccess(c, res)
            => Says(c, DecodeResponse(c, EncodeResponse(c, RawIdOf(c, r), res)),
                    RequestId(c, IdOf[r]), res)

\* A request that was read is answered, or nobody got to answer it.
Once == INSTANCE AnswerOnce
          WITH status <- [r \in Requests |-> Status(r)], Answers <- Entries

AnswerOnceKept == Once!Spec

\* Responses are not held up by more than the inbounds in front of them: if
\* the queue has room again and again, each one reaches its call, whatever
\* undecodable frames come in between.
ResponsesPass ==
    []<>(Cardinality(queue) < QueueCapacity)
        => \A f \in Responses : f \in net ~> f \notin net \/ ended \/ ~rxOpen

\* When the MessageReceiver is gone and the stream ends, so does the task, and
\* no request is left behind in the queue.
TaskEnds == ~rxOpen /\ ended ~> rpc = "done" /\ queue = {} /\ drainer = None

-----------------------------------------------------------------------------
(* What the documentation says and the code does not keep                  *)

\* "If this value presents, it means that the response is an error response":
\* an error is read as an error.
ErrorReadAsError ==
    \A i \in 1 .. written :
        LET frame == EncodeResponse(codec, RawIdOf(codec, log[i].req), log[i].res) IN
        ~log[i].res.ok => DecodeResponse(codec, frame).errc # Absent
=============================================================================
