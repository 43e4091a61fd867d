----------------------------- MODULE Codec_proofs ---------------------------
(***************************************************************************)
(* An answer that a codec can encode is read as it was said, for every id, *)
(* every result and every width of ids.                                    *)
(***************************************************************************)
EXTENDS Codec, TLAPS

\* The byte of an error code gives the code back (ResponseError's conversion
\* to u8 and From<u8>).
LEMMA ByteRoundTrip ==
    ASSUME NEW ec \in Errcs
    PROVE  ErrcFromByte(ErrcToByte(ec)) = ec
BY DEF Errcs, ErrcFromByte, ErrcToByte

\* The JSON-RPC number of an error code gives the code back, or InvalidArgument
\* for the two that share a number with it.
LEMMA JsonRoundTrip ==
    ASSUME NEW ec \in Errcs
    PROVE  SameErrc("jsonrpc", ec, JsonToErrc(JsonFromErrc(ec)))
<1>1. CASE ec \in {"InvalidArgument", "MethodNotFound", "NonUtf8MethodName", "Unauthorized",
                   "ParseFailed"}
  BY <1>1 DEF SameErrc, JsonToErrc, JsonFromErrc
<1>2. CASE ec \in {"Unknown", "Busy", "Aborted", "Unhandled"}
  <2>1. ErrcToByte(ec) \in 0 .. 6
    BY <1>2 DEF ErrcToByte
  <2>2. JsonFromErrc(ec) = ErrcToByte(ec) + Offset
    BY <1>2 DEF JsonFromErrc
  <2>3. /\ JsonFromErrc(ec) \notin {-32600, -32601, -32602, -32700}
        /\ JsonFromErrc(ec) - Offset = ErrcToByte(ec)
    BY <2>1, <2>2 DEF Offset
  <2>4. JsonToErrc(JsonFromErrc(ec)) = ErrcFromByte(ErrcToByte(ec))
    BY <2>3 DEF JsonToErrc
  <2>5. QED
    BY <2>4, ByteRoundTrip DEF SameErrc
<1>3. QED
  BY <1>1, <1>2 DEF Errcs

\* encode_request registers a request under an id that is not 0 and no larger
\* than what it was given, and one of 32 bits in MessagePack.
THEOREM RequestIdRange ==
    ASSUME NEW c \in Codecs, NEW id \in Ids
    PROVE  /\ RequestId(c, id) \in Ids
           /\ c = "msgpack" => RequestId(c, id) \in 1 .. WordMax
<1>1. id \in Nat /\ id > 0 /\ id <= IdMax /\ WordMax \in Nat /\ IdMax \in Nat /\ 0 < WordMax
          /\ WordMax < IdMax
  BY WidthAssumption DEF Ids
<1>2. id % (WordMax + 1) \in 0 .. WordMax
  BY <1>1
<1>3. QED
  BY <1>1, <1>2 DEF RequestId, Ids

\* What is left of an id in MessagePack before 0 is made 1.
Low(id) == IF id <= WordMax THEN id ELSE id % (WordMax + 1)

LEMMA LowRange ==
    ASSUME NEW id \in Ids
    PROVE  /\ Low(id) \in 0 .. WordMax
           /\ Low(id) = 0 => id > WordMax
           /\ RequestId("msgpack", id) = IF Low(id) = 0 THEN 1 ELSE Low(id)
<1>1. id \in Nat /\ id > 0 /\ WordMax \in Nat
  BY WidthAssumption DEF Ids
<1>2. id % (WordMax + 1) \in 0 .. WordMax
  BY <1>1
<1>3. QED
  BY <1>1, <1>2 DEF Low, RequestId

\* Two ids that encode_request is given are registered as one only in
\* MessagePack, only when one of them is wider than 32 bits, and only when
\* they have the same lower half, or the halves 0 and 1.  So two neighbours
\* can collide, which try_allocate_new_request then has to notice.
THEOREM IdCollision ==
    ASSUME NEW c \in Codecs, NEW a \in Ids, NEW b \in Ids,
           a # b, RequestId(c, a) = RequestId(c, b)
    PROVE  /\ c = "msgpack"
           /\ a > WordMax \/ b > WordMax
           /\ Low(a) = Low(b) \/ {Low(a), Low(b)} = {0, 1}
<1>1. c = "msgpack"
  BY DEF RequestId
<1>2. /\ a \in Nat /\ b \in Nat /\ WordMax \in Nat /\ Low(a) \in Nat /\ Low(b) \in Nat
      /\ RequestId(c, a) = IF Low(a) = 0 THEN 1 ELSE Low(a)
      /\ RequestId(c, b) = IF Low(b) = 0 THEN 1 ELSE Low(b)
  BY <1>1, LowRange, WidthAssumption DEF Ids
<1>3. Low(a) = Low(b) \/ (Low(a) = 0 /\ Low(b) = 1) \/ (Low(a) = 1 /\ Low(b) = 0)
  BY <1>2
<1>4. a > WordMax \/ b > WordMax
  <2>1. SUFFICES ASSUME a <= WordMax, b <= WordMax PROVE FALSE
    BY <1>2
  <2>2. RequestId(c, a) = a /\ RequestId(c, b) = b
    BY <2>1 DEF RequestId
  <2>3. QED
    BY <2>2
<1>5. QED
  BY <1>1, <1>3, <1>4

\* Which requests can be answered at all: all of them, but in MessagePack only
\* those whose lower 32 bits need more than 16, since restore_request_id reads
\* one form of a number and rmp_serde writes the narrowest.
THEOREM AnswerableIds ==
    ASSUME NEW c \in Codecs, NEW id \in Ids
    PROVE  CanAnswer(c, RawId(c, RequestId(c, id))) <=> c # "msgpack" \/ Low(id) > ShortMax
<1>1. /\ WordMax \in Nat /\ ShortMax \in Nat /\ ShortMax > 0 /\ IdMax \in Nat
      /\ RequestId(c, id) \in Nat /\ RequestId(c, id) > 0
  BY RequestIdRange, WidthAssumption DEF Ids
<1>2. CASE c # "msgpack"
  BY <1>1, <1>2 DEF CanAnswer, RawId, RestoreId
<1>3. CASE c = "msgpack"
  <2>1. RequestId(c, id) > ShortMax <=> Low(id) > ShortMax
    BY <1>1, <1>3, LowRange
  <2>2. CanAnswer(c, RawId(c, RequestId(c, id))) <=> ~(RequestId(c, id) <= ShortMax)
    BY <1>1, <1>3 DEF CanAnswer, RawId, RestoreId
  <2>3. QED
    BY <1>1, <1>3, <2>1, <2>2
<1>4. QED
  BY <1>2, <1>3

\* A codec that can repeat the id of a request repeats the id its caller
\* registered.
LEMMA IdRepeated ==
    ASSUME NEW c \in Codecs, NEW id \in Ids, CanAnswer(c, RawId(c, RequestId(c, id)))
    PROVE  /\ RawId(c, RequestId(c, id)).value = RequestId(c, id)
           /\ c # "jsonrpc" => RestoreId(c, RawId(c, RequestId(c, id))) = RequestId(c, id)
BY DEF CanAnswer, RawId, RestoreId

LEMMA ResultsForm ==
    ASSUME NEW res \in Results
    PROVE  /\ res.ok \in BOOLEAN /\ res.errc \in Errcs /\ res.obj \in Objects \cup {Absent}
           /\ res.ok => res.obj \in Objects
<1>1. "Unknown" \in Errcs
  BY DEF Errcs
<1>2. QED
  BY <1>1 DEF Results

\* What each codec reads of an answer it has written.
LEMMA JsonSays ==
    ASSUME NEW id, NEW res \in Results
    PROVE  Says("jsonrpc", JsonDecode(JsonEncode(id, res)), id, res)
<1>1. CASE res.ok
  BY <1>1, ResultsForm, NilAssumption DEF Says, JsonDecode, JsonEncode, Response
<1>2. CASE ~res.ok
  <2> DEFINE code == IF Payload(res) = "ErrObjectOnly" THEN InternalError ELSE JsonFromErrc(res.errc)
  <2>1. JsonDecode(JsonEncode(id, res))
          = Response(id, JsonToErrc(code), IF res.obj = Absent THEN res.errc ELSE res.obj)
    BY <1>2 DEF JsonDecode, JsonEncode
  <2>2. SameErrc("jsonrpc", res.errc, JsonToErrc(code))
    <3>1. CASE Payload(res) = "ErrObjectOnly"
      <4>1. res.errc = "Unknown"
        BY <3>1, <1>2 DEF Payload
      <4>2. JsonToErrc(InternalError) = "Unknown"
        BY DEF JsonToErrc, InternalError, Offset, ErrcFromByte
      <4>3. QED
        BY <3>1, <4>1, <4>2 DEF SameErrc
    <3>2. CASE Payload(res) # "ErrObjectOnly"
      BY <3>2, JsonRoundTrip, ResultsForm
    <3>3. QED
      BY <3>1, <3>2
  <2> HIDE DEF code
  <2>3. QED
    BY <1>2, <2>1, <2>2 DEF Says, Response
<1>3. QED
  BY <1>1, <1>2

LEMMA MsgpackSays ==
    ASSUME NEW id, NEW res \in Results, ~ReadAsSuccess("msgpack", res)
    PROVE  Says("msgpack", MsgpackDecode(MsgpackEncode(id, res)), id, res)
<1> DEFINE f == MsgpackEncode(id, res)
<1>0. res.errc \in Errcs /\ ErrcToStr(res.errc) # Absent /\ (res.ok => res.obj # Absent)
  BY ResultsForm, AbsentAssumption, NilAssumption
<1>1. CASE res.ok
  <2>1. f.error = [code |-> Absent, obj |-> Nil] /\ f.id = id /\ f.result = res.obj
    BY <1>1 DEF MsgpackEncode, Payload
  <2>2. MsgpackDecode(f) = Response(id, Absent, res.obj)
    BY <2>1 DEF MsgpackDecode
  <2>3. QED
    BY <1>1, <2>2 DEF Says, Response
<1>2. CASE ~res.ok /\ res.obj = Absent
  <2>1. f.error = [code |-> ErrcToStr(res.errc), obj |-> Nil] /\ f.id = id
    BY <1>2 DEF MsgpackEncode, Payload
  <2>2. f.error # [code |-> Absent, obj |-> Nil]
    BY <2>1, <1>0
  <2>3. MsgpackDecode(f) = Response(id, res.errc, Nil)
    BY <2>1, <2>2, <1>0 DEF MsgpackDecode, ErrcToStr
  <2>4. QED
    BY <1>2, <2>3 DEF Says, Response, SameErrc
<1>3. CASE ~res.ok /\ res.obj # Absent /\ res.errc = "Unknown"
  <2>1. f.error = [code |-> Absent, obj |-> res.obj] /\ f.id = id /\ res.obj # Nil
    BY <1>3 DEF MsgpackEncode, Payload, ReadAsSuccess
  <2>2. MsgpackDecode(f) = Response(id, "Unknown", res.obj)
    BY <2>1 DEF MsgpackDecode
  <2>3. QED
    BY <1>3, <2>2 DEF Says, Response, SameErrc
<1>4. CASE ~res.ok /\ res.obj # Absent /\ res.errc # "Unknown"
  <2>1. f.error = [code |-> ErrcToStr(res.errc), obj |-> res.obj] /\ f.id = id
    BY <1>4 DEF MsgpackEncode, Payload
  <2>2. f.error # [code |-> Absent, obj |-> Nil]
    BY <2>1, <1>0
  <2>3. MsgpackDecode(f) = Response(id, res.errc, res.obj)
    BY <2>1, <2>2, <1>0 DEF MsgpackDecode, ErrcToStr
  <2>4. QED
    BY <1>4, <2>3 DEF Says, Response, SameErrc
<1>5. QED
  BY <1>1, <1>2, <1>3, <1>4, ResultsForm

LEMMA RawSays ==
    ASSUME NEW id, NEW res \in Results
    PROVE  Says("rawrpc", RawDecode(RawEncode(id, res)), id, res)
<1>1. CASE res.ok
  BY <1>1, ResultsForm, NilAssumption DEF Says, RawDecode, RawEncode, Response
<1>2. CASE ~res.ok
  <2>1. (IF Payload(res) = "ErrObjectOnly" THEN "Unknown" ELSE res.errc) = res.errc
    BY <1>2 DEF Payload
  <2>2. RawDecode(RawEncode(id, res))
          = Response(id, ErrcFromByte(ErrcToByte(res.errc)), IF res.obj = Absent THEN res.errc ELSE res.obj)
    BY <1>2, <2>1 DEF RawDecode, RawEncode
  <2>3. QED
    BY <1>2, <2>2, ByteRoundTrip, ResultsForm DEF Says, Response, SameErrc
<1>3. QED
  BY <1>1, <1>2

\* Whatever a peer answers, in whichever codec, the caller reads it under its
\* own id and as it was said (up to SameErrc: JSON-RPC has one number for three
\* of the codes), unless the codec cannot repeat the id at all (CanAnswer) or
\* takes a nil error for a success (ReadAsSuccess).
THEOREM ReadBack ==
    ASSUME NEW c \in Codecs, NEW id \in Ids, NEW res \in Results,
           CanAnswer(c, RawId(c, RequestId(c, id))),
           ~ReadAsSuccess(c, res)
    PROVE  Says(c, DecodeResponse(c, EncodeResponse(c, RawId(c, RequestId(c, id)), res)),
                RequestId(c, id), res)
<1>1. CASE c = "jsonrpc"
  <2>1. EncodeResponse(c, RawId(c, RequestId(c, id)), res) = JsonEncode(RequestId(c, id), res)
    BY <1>1, IdRepeated DEF EncodeResponse
  <2>2. QED
    BY <1>1, <2>1, JsonSays DEF DecodeResponse
<1>2. CASE c = "msgpack"
  <2>1. EncodeResponse(c, RawId(c, RequestId(c, id)), res) = MsgpackEncode(RequestId(c, id), res)
    BY <1>2, IdRepeated DEF EncodeResponse
  <2>2. QED
    BY <1>2, <2>1, MsgpackSays DEF DecodeResponse
<1>3. CASE c = "rawrpc"
  <2>1. EncodeResponse(c, RawId(c, RequestId(c, id)), res) = RawEncode(RequestId(c, id), res)
    BY <1>3, IdRepeated DEF EncodeResponse
  <2>2. QED
    BY <1>3, <2>1, RawSays DEF DecodeResponse
<1>4. QED
  BY <1>1, <1>2, <1>3 DEF Codecs
=============================================================================
