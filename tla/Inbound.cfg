\* Two requests, a response and a frame without an inbound, two handlers, a
\* queue of one and a directive channel of one, each codec.
SPECIFICATION FairSpec
CONSTANTS
    r1 = r1
    r2 = r2
    bad = bad
    c1 = c1
    h1 = h1
    h2 = h2
    obj = obj
    Nil = Nil
    Absent = Absent
    None = None
    Eof = Eof
    Reader = Reader
    Objects = {Nil, obj}
    ShortMax = 3
    WordMax = 15
    IdMax = 31
    Requests = {r1, r2, bad}
    BadNames = {bad}
    Responses = {c1}
    BadFrames = {}
    Inbounds <- InboundsOfAll
    Handlers = {h1, h2}
    QueueCapacity = 1
    Capacity = 1
    CodecsUsed = {"jsonrpc", "msgpack"}
    Answers <- OneAnswer
    IdOf <- IdOfAll
INVARIANTS
    TypeOK
    OneOwner
    AnswerReadBack
PROPERTIES
    AnswerOnceKept
    ResponsesPass
    TaskEnds
CHECK_DEADLOCK FALSE
