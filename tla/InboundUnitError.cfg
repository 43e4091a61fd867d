\* An error object without content, over MessagePack, comes back as a success.
SPECIFICATION Spec
CONSTANTS
    r1 = r1
    r2 = r2
    bad = bad
    c1 = c1
    h1 = h1
    h2 = h2
    obj = obj
    Nil = Nil
    Absent = Absent
    None = None
    Eof = Eof
    Reader = Reader
    Objects = {Nil, obj}
    ShortMax = 3
    WordMax = 15
    IdMax = 31
    Requests = {r1, r2, bad}
    BadNames = {bad}
    Responses = {c1}
    BadFrames = {}
    Inbounds <- InboundsOfAll
    Handlers = {h1, h2}
    QueueCapacity = 1
    Capacity = 1
    CodecsUsed = {"msgpack"}
    Answers <- UnitError
    IdOf <- IdOfAll
INVARIANT
    ErrorReadAsError
CHECK_DEADLOCK FALSE
