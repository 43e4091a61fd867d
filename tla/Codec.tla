------------------------------- MODULE Codec --------------------------------
(***************************************************************************)
(* What the three codecs (ext_codec/) do to a request id and to the answer *)
(* to a request on the way from one peer to the other: the id the caller   *)
(* registers, the id the frame carries, the frame of the answer, and what  *)
(* the caller reads out of it.  Frames are records of the parts a decoder  *)
(* looks at.  Id widths are scaled down: IdMax stands for 2^64 - 1,        *)
(* WordMax for 2^32 - 1 and ShortMax for 2^16 - 1.                         *)
(***************************************************************************)
EXTENDS Integers

CONSTANTS
    IdMax, WordMax, ShortMax,   \* the largest id of 64, 32 and 16 bits
    Objects,    \* what a method returns, or fails with
    Nil,        \* the unit value, an object; serialized as null or nil
    Absent      \* a field that is left out, or a None

ASSUME WidthAssumption ==
    /\ ShortMax \in Nat \ {0} /\ WordMax \in Nat /\ IdMax \in Nat
    /\ ShortMax < WordMax /\ WordMax < IdMax
ASSUME NilAssumption == Nil \in Objects /\ Absent \notin Objects

Codecs == {"jsonrpc", "msgpack", "rawrpc"}
Ids == 1 .. IdMax

-----------------------------------------------------------------------------
(* ResponseError                                                           *)

Errcs == {"Unknown", "InvalidArgument", "Unauthorized", "Busy", "MethodNotFound",
          "Aborted", "Unhandled", "NonUtf8MethodName", "ParseFailed"}

ErrcToByte(ec) ==
    CASE ec = "Unknown" -> 0
      [] ec = "InvalidArgument" -> 1
      [] ec = "Unauthorized" -> 2
      [] ec = "Busy" -> 3
      [] ec = "MethodNotFound" -> 4
      [] ec = "Aborted" -> 5
      [] ec = "Unhandled" -> 6
      [] ec = "NonUtf8MethodName" -> 7
      [] ec = "ParseFailed" -> 8

ErrcFromByte(byte) ==
    CASE byte = 1 -> "InvalidArgument"
      [] byte = 2 -> "Unauthorized"
      [] byte = 3 -> "Busy"
      [] byte = 4 -> "MethodNotFound"
      [] byte = 5 -> "Aborted"
      [] byte = 6 -> "Unhandled"
      [] byte = 7 -> "NonUtf8MethodName"
      [] byte = 8 -> "ParseFailed"
      [] OTHER -> "Unknown"

\* The string of an error code, told from the strings of objects by its tag.
ErrcToStr(ec) == [tag |-> "RPC_IT", name |-> ec]

ASSUME AbsentAssumption == \A ec \in Errcs : ErrcToStr(ec) # Absent

\* JSON-RPC has numbers of its own for some of the codes.
InternalError == -32603
Offset == -41000

JsonFromErrc(ec) ==
    CASE ec = "InvalidArgument" -> -32602
      [] ec = "MethodNotFound" -> -32601
      [] ec \in {"NonUtf8MethodName", "Unauthorized"} -> -32600
      [] ec = "ParseFailed" -> -32700
      [] OTHER -> ErrcToByte(ec) + Offset

\* Slip: the offset is subtracted the wrong way round.
JsonToErrcAbs(code) ==
    CASE code = -32600 -> "InvalidArgument"
      [] code = -32601 -> "MethodNotFound"
      [] code = -32602 -> "InvalidArgument"
      [] code = -32700 -> "ParseFailed"
      [] OTHER -> ErrcFromByte(Offset - code)

JsonToErrc(code) ==
    CASE code = -32600 -> "InvalidArgument"
      [] code = -32601 -> "MethodNotFound"
      [] code = -32602 -> "InvalidArgument"
      [] code = -32700 -> "ParseFailed"
      [] OTHER -> ErrcFromByte(code - Offset)

-----------------------------------------------------------------------------
(* Request ids                                                             *)

\* The id encode_request returns, under which the caller waits.  MessagePack
\* keeps 32 bits, and makes 1 of a 0.
RequestId(codec, id) ==
    IF codec # "msgpack" \/ id <= WordMax THEN id
    ELSE IF id % (WordMax + 1) = 0 THEN 1 ELSE id % (WordMax + 1)

\* The bytes of the id in a frame.  rmp_serde writes a number in the narrowest
\* form that holds it; hex text and eight bytes have one form.
RawId(codec, id) ==
    [value |-> id,
     marker |-> IF codec = "msgpack" /\ id <= ShortMax THEN "narrow" ELSE "whole"]

\* restore_request_id, or 0.  MessagePack reads the 32-bit form and no other.
RestoreId(codec, raw) ==
    IF codec = "msgpack" /\ raw.marker # "whole" THEN 0 ELSE raw.value

\* encode_response reads the id it is to repeat, except in JSON, where the
\* text is copied.
CanAnswer(codec, raw) == codec = "jsonrpc" \/ RestoreId(codec, raw) # 0

-----------------------------------------------------------------------------
(* Answers                                                                 *)

\* The argument of Inbound::response: a value, an error code, an error object
\* or both.
Results ==
    [ok : {TRUE}, errc : {"Unknown"}, obj : Objects]
      \cup [ok : {FALSE}, errc : Errcs, obj : Objects \cup {Absent}]

Unhandled == [ok |-> FALSE, errc |-> "Unhandled", obj |-> Absent]

\* Which EncodeResponsePayload becomes of it.
Payload(res) ==
    IF res.ok THEN "Ok"
    ELSE IF res.obj = Absent THEN "ErrCodeOnly"
    ELSE IF res.errc = "Unknown" THEN "ErrObjectOnly" ELSE "Err"

\* What a decoder finds: who is answered, an error code unless it is a
\* success, and the payload.
Response(id, errc, obj) == [request_id |-> id, errc |-> errc, payload |-> obj]

\* JSON-RPC: a result or an error; an error without an object carries the text
\* of its code.
JsonEncode(id, res) ==
    IF res.ok THEN [id |-> id, result |-> res.obj, code |-> Absent, data |-> Absent]
    ELSE [id |-> id, result |-> Absent,
          code |-> IF Payload(res) = "ErrObjectOnly" THEN InternalError ELSE JsonFromErrc(res.errc),
          data |-> IF res.obj = Absent THEN res.errc ELSE res.obj]

JsonDecode(f) ==
    IF f.result # Absent THEN Response(f.id, Absent, f.result)
    ELSE Response(f.id, JsonToErrc(f.code), f.data)

\* MessagePack: an error slot and a result slot, one of them nil.
MsgpackEncode(id, res) ==
    [id |-> id,
     error |-> CASE Payload(res) = "Ok" -> [code |-> Absent, obj |-> Nil]
                 [] Payload(res) = "ErrCodeOnly" -> [code |-> ErrcToStr(res.errc), obj |-> Nil]
                 [] Payload(res) = "ErrObjectOnly" -> [code |-> Absent, obj |-> res.obj]
                 [] OTHER -> [code |-> ErrcToStr(res.errc), obj |-> res.obj],
     result |-> IF res.ok THEN res.obj ELSE Nil]

\* An error slot that is nil means success; one that is a pair headed by the
\* string of a code is a code and an object; any other is the object.
MsgpackDecode(f) ==
    IF f.error = [code |-> Absent, obj |-> Nil] THEN Response(f.id, Absent, f.result)
    ELSE Response(f.id, IF f.error.code = Absent THEN "Unknown" ELSE f.error.code.name, f.error.obj)

\* rawrpc: the head says which of the two it is; a code alone is repeated as
\* the payload.
RawEncode(id, res) ==
    [id |-> id,
     head |-> IF res.ok THEN "Response" ELSE "ResponseErr",
     errc |-> ErrcToByte(IF Payload(res) = "ErrObjectOnly" THEN "Unknown" ELSE res.errc),
     payload |-> IF res.obj = Absent THEN res.errc ELSE res.obj]

RawDecode(f) ==
    Response(f.id, IF f.head = "Response" THEN Absent ELSE ErrcFromByte(f.errc), f.payload)

\* Codec::encode_response, for an id it can repeat, and decode_inbound of a
\* response.
EncodeResponse(codec, raw, res) ==
    CASE codec = "jsonrpc" -> JsonEncode(raw.value, res)
      [] codec = "msgpack" -> MsgpackEncode(RestoreId(codec, raw), res)
      [] codec = "rawrpc" -> RawEncode(RestoreId(codec, raw), res)

DecodeResponse(codec, frame) ==
    CASE codec = "jsonrpc" -> JsonDecode(frame)
      [] codec = "msgpack" -> MsgpackDecode(frame)
      [] codec = "rawrpc" -> RawDecode(frame)

-----------------------------------------------------------------------------
(* What is read of what was said                                           *)

\* The one answer that changes sides: an error object that serializes to nil,
\* in MessagePack.
ReadAsSuccess(codec, res) ==
    codec = "msgpack" /\ Payload(res) = "ErrObjectOnly" /\ res.obj = Nil

\* JSON-RPC has one number for three of the codes.
SameErrc(codec, sent, read) ==
    \/ read = sent
    \/ codec = "jsonrpc" /\ sent \in {"NonUtf8MethodName", "Unauthorized"}
                         /\ read = "InvalidArgument"

\* d is an answer to the request registered as id, and says what res said.
Says(codec, d, id, res) ==
    /\ d.request_id = id
    /\ res.ok => d.errc = Absent
    /\ ~res.ok => SameErrc(codec, res.errc, d.errc)
    /\ res.obj # Absent => d.payload = res.obj
=============================================================================
