------------------------------- MODULE Codec -------------------------------
(***************************************************************************)
(* What the two ends of the companion protocol read from the bytes of a    *)
(* payload: its fields (TLVs), and the values the fields carry.  The       *)
(* firmware (note4_companion_protocol.cc, note4_resource_gateway.cc) and   *)
(* the phone (CompanionProtocol.kt, ResourceGatewayProtocol.kt) each have  *)
(* an encoder and a decoder of their own.                                  *)
(*                                                                         *)
(* A byte has Base values, so that numbers wrap early; a word is 2 bytes   *)
(* and a long 4, as in the code.  A payload starts as something an encoder *)
(* wrote and is then edited, field by field and byte by byte: what a newer *)
(* peer, a broken one or a damaged buffer sends.                           *)
(***************************************************************************)
EXTENDS Integers, SequencesExt, TLC

CONSTANTS Base,         \* values of a byte
          MaxBytes,     \* kMaximumTlvValueSize, kResourceMaximumBodySize
          MaxFields,    \* bound on the fields of a payload
          MinTimeout, MaxTimeout, \* bounds of a request's timeout
          Requests,     \* the requests the firmware may encode
          Responses,    \* the responses the phone may encode
          MaxOffset,    \* 50400, the seconds of the widest UTC offset
          Clocks,       \* the clock samples the phone may take
          LastStatus,   \* kUnsupportedCapability
          IdBytes,      \* 16, the bytes of a token and of an identity
          Malformed,    \* what a decoder returns of a payload it refuses
          MaxEdits      \* bound on the edits

VARIABLES kind,    \* "request", "response", "ack", "clock" or "proof": what was encoded
          value,   \* what was encoded, before any edit
          fields,  \* the fields on the wire
          cut,     \* bytes missing at the end of the payload
          edits

vars == <<kind, value, fields, cut, edits>>

Bytes == 0 .. Base - 1
RequiredBit == (Base * Base) \div 2    \* kRequiredFieldBit
Kinds == {"request", "response", "ack", "clock", "proof"}

Long == Base ^ 4

(* PutUInt16, PutUInt32: little-endian, the low bytes of the value. *)
Put(n, v) == [i \in 1 .. n |-> (v \div Base ^ (i - 1)) % Base]

(* GetUInt16, GetUInt32: a word is a long without its high half. *)
Get(s) ==
    LET byte(i) == IF i \in DOMAIN s THEN s[i] * Base ^ (i - 1) ELSE 0
    IN  byte(1) + byte(2) + byte(3) + byte(4)

Field(type, required, bytes) == [type |-> type, required |-> required, bytes |-> bytes]

(* TlvWriter::Add. *)
Tlv(f) == Put(2, f.type + (IF f.required THEN RequiredBit ELSE 0)) \o Put(2, Len(f.bytes)) \o f.bytes

Payload == LET whole == FlattenSeq([i \in DOMAIN fields |-> Tlv(fields[i])])
           IN  SubSeq(whole, 1, Len(whole) - cut)

(* TlvReader::Next until there is no field left. *)
Fields(p) ==
    LET rest[at \in 1 .. Len(p) + 1] ==
          IF at = Len(p) + 1 THEN << >>
          ELSE IF Len(p) - at + 1 < 4 THEN Malformed
          ELSE LET raw == Get(SubSeq(p, at, at + 1))
                   size == Get(SubSeq(p, at + 2, at + 3))
               IN  IF size > MaxBytes \/ size > Len(p) - at - 3 THEN Malformed
                   ELSE LET more == rest[at + 4 + size]
                        IN  IF more = Malformed THEN Malformed
                            ELSE <<Field(raw % RequiredBit, raw >= RequiredBit,
                                         SubSeq(p, at + 4, at + 3 + size))>> \o more
    IN  rest[1]

(* decodeTlvs: a list that grows until the end, or until one does not fit. *)
PhoneFields(p) ==
    LET read(acc, at) ==
          IF at # acc.next THEN acc
          ELSE LET size == IF Len(p) - at >= 3 THEN Get(SubSeq(p, at + 2, at + 3)) ELSE Long
                   raw == Get(SubSeq(p, at, at + 1))
               IN  IF size > MaxBytes \/ at + 3 + size > Len(p) THEN [acc EXCEPT !.next = 0]
                   ELSE [next |-> at + 4 + size,
                         list |-> Append(acc.list, Field(raw % RequiredBit, raw >= RequiredBit,
                                                         SubSeq(p, at + 4, at + 3 + size)))]
        end == FoldLeft(read, [next |-> 1, list |-> << >>], [at \in DOMAIN p |-> at])
    IN  IF end.next = Len(p) + 1 THEN end.list ELSE Malformed

-----------------------------------------------------------------------------
(* Resource requests, firmware to phone.                                   *)

EncodeRequest(r) ==
    << Field(1, TRUE, Put(2, r.capability)), Field(2, TRUE, Put(2, r.maximum)),
       Field(3, TRUE, Put(4, r.timeout)), Field(4, FALSE, Put(4, r.cache)),
       Field(5, TRUE, <<IF r.durable THEN 1 ELSE 0>>) >>

At(fs, type) == {i \in DOMAIN fs : fs[i].type = type}
Seen(fs, type) == At(fs, type) # {}
BytesOf(fs, type) == fs[CHOOSE i \in At(fs, type) : TRUE].bytes

(* A field stands at most once, with the size its type has; a field nobody *)
(* knows may be there unless it is required.                               *)
WellFormed(fs, sizes) ==
    /\ \A i \in DOMAIN fs :
          IF fs[i].type \in DOMAIN sizes THEN Len(fs[i].bytes) \in sizes[fs[i].type]
                                         ELSE ~fs[i].required
    /\ \A i, j \in DOMAIN fs : fs[i].type = fs[j].type /\ fs[i].type \in DOMAIN sizes => i = j

RequestSizes == 1 :> {2} @@ 2 :> {2} @@ 3 :> {4} @@ 4 :> {4} @@ 5 :> {1}

RequestOf(fs) ==
    [capability |-> Get(BytesOf(fs, 1)), maximum |-> Get(BytesOf(fs, 2)),
     timeout |-> Get(BytesOf(fs, 3)),
     cache |-> IF Seen(fs, 4) THEN Get(BytesOf(fs, 4)) ELSE 0,
     durable |-> BytesOf(fs, 5) = <<1>>]

InRange(r) == r.maximum \in 1 .. MaxBytes /\ r.timeout \in MinTimeout .. MaxTimeout

(* DecodeResourceRequestPayload: field by field, then what must be there.  *)
NoteRequest(p) ==
    LET fs == Fields(p)
    IN  IF fs = Malformed \/ ~WellFormed(fs, RequestSizes) THEN Malformed
        ELSE IF ~(Seen(fs, 1) /\ Seen(fs, 2) /\ Seen(fs, 3) /\ Seen(fs, 5)) THEN Malformed
        ELSE IF BytesOf(fs, 5)[1] > 1 \/ ~InRange(RequestOf(fs)) THEN Malformed
        ELSE RequestOf(fs)

(* decodeRequest: a field is a nullable until it was read; null is an error. *)
PhoneRequest(p) ==
    LET fs == PhoneFields(p)
        readable(type, ok(_)) ==
            /\ \A i, j \in At(fs, type) : i = j
            /\ \A i \in At(fs, type) : ok(fs[i].bytes)
        long(b) == Len(b) = 4
        word(b) == Len(b) = 2
        flag(b) == Len(b) = 1 /\ b[1] <= 1
    IN  IF /\ fs # Malformed
           /\ readable(1, word) /\ readable(2, word) /\ readable(3, long)
           /\ readable(4, long) /\ readable(5, flag)
           /\ \A i \in DOMAIN fs : fs[i].type \in 1 .. 5 \/ ~fs[i].required
           /\ \A type \in {1, 2, 3, 5} : Seen(fs, type)
           /\ InRange(RequestOf(fs))
          THEN RequestOf(fs) ELSE Malformed

-----------------------------------------------------------------------------
(* Resource responses, phone to firmware.  Status 0 is success and has a   *)
(* body; content type 0 is none.                                           *)

Statuses == 0 .. LastStatus

(* encodeResponse. *)
EncodeResponse(r) ==
    <<Field(1, TRUE, <<r.status>>)>>
      \o (IF r.status = 0 THEN <<Field(2, TRUE, <<r.content>>), Field(3, TRUE, r.body)>> ELSE << >>)
      \o (IF r.retry # 0 THEN <<Field(4, FALSE, Put(4, r.retry))>> ELSE << >>)

ResponseSizes == 1 :> {1} @@ 2 :> {1} @@ 3 :> 1 .. MaxBytes @@ 4 :> {4}

ResponseOf(fs) ==
    [status |-> BytesOf(fs, 1)[1],
     content |-> IF Seen(fs, 2) THEN BytesOf(fs, 2)[1] ELSE 0,
     body |-> IF Seen(fs, 3) THEN BytesOf(fs, 3) ELSE << >>,
     retry |-> IF Seen(fs, 4) THEN Get(BytesOf(fs, 4)) ELSE 0]

(* Seeded fault: a body may come with a failure. *)
NoteResponseWithBody(p) ==
    LET fs == Fields(p)
    IN  IF fs = Malformed \/ ~WellFormed(fs, ResponseSizes) \/ ~Seen(fs, 1) THEN Malformed
        ELSE IF ResponseOf(fs).status \notin Statuses \/ ResponseOf(fs).content \notin {0, 1} THEN Malformed
        ELSE IF ResponseOf(fs).status = 0 /\ ~(Seen(fs, 3) /\ ResponseOf(fs).content # 0) THEN Malformed
        ELSE ResponseOf(fs)

(* DecodeResourceResponsePayload. *)
NoteResponse(p) ==
    LET fs == Fields(p)
    IN  IF fs = Malformed \/ ~WellFormed(fs, ResponseSizes) \/ ~Seen(fs, 1) THEN Malformed
        ELSE LET r == ResponseOf(fs)
             IN  IF r.status \notin Statuses \/ r.content \notin {0, 1} THEN Malformed
                 ELSE IF r.status = 0 /\ ~(Seen(fs, 3) /\ r.content # 0) THEN Malformed
                 ELSE IF r.status # 0 /\ (Seen(fs, 2) \/ Seen(fs, 3)) THEN Malformed
                 ELSE r

(* decodeResponse: a response is built only from what its status needs. *)
PhoneResponse(p) ==
    LET fs == PhoneFields(p)
        retry == IF Seen(fs, 4) THEN Get(BytesOf(fs, 4)) ELSE 0
    IN  IF fs = Malformed \/ ~WellFormed(fs, ResponseSizes) \/ ~Seen(fs, 1) THEN Malformed
        ELSE LET status == BytesOf(fs, 1)[1]
                 known == status \in Statuses /\ (Seen(fs, 2) => BytesOf(fs, 2)[1] \in {0, 1})
             IN  CASE known /\ status = 0 /\ Seen(fs, 2) /\ Seen(fs, 3) /\ BytesOf(fs, 2) # <<0>> ->
                          [status |-> 0, content |-> BytesOf(fs, 2)[1], body |-> BytesOf(fs, 3), retry |-> retry]
                   [] known /\ status # 0 /\ ~Seen(fs, 2) /\ ~Seen(fs, 3) ->
                          [status |-> status, content |-> 0, body |-> << >>, retry |-> retry]
                   [] OTHER -> Malformed

-----------------------------------------------------------------------------
(* The values of the handshake: the status of a HelloAck, firmware to      *)
(* phone, and the sample of the phone's clock in its Hello.                *)

EncodeAck(a) == <<a.status, a.authorized>> \o Put(2, a.reason)

(* DecodeHelloAckStatusValue and decodeHelloAckStatus say the same of a    *)
(* status: a rejection authorizes nothing, an acceptance has no reason.    *)
NoteAck(b) ==
    IF \/ Len(b) # 4
       \/ b[1] > 1 \/ b[2] > 1
       \/ b[1] = 1 /\ b[2] # 0
       \/ b[1] = 0 /\ Get(SubSeq(b, 3, 4)) # 0
      THEN Malformed
      ELSE [status |-> b[1], authorized |-> b[2], reason |-> Get(SubSeq(b, 3, 4))]

PhoneAck(b) ==
    IF /\ Len(b) = 4
       /\ b[1] \in {0, 1}
       /\ b[2] \in (IF b[1] = 1 THEN {0} ELSE {0, 1})
       /\ b[1] = 0 => b[3] = 0 /\ b[4] = 0
      THEN [status |-> b[1], authorized |-> b[2], reason |-> b[3] + Base * b[4]]
      ELSE Malformed

(* encodeClockSample: an offset west of Greenwich is its two's complement. *)
EncodeClock(c) == Put(4, c.unix) \o Put(4, c.offset % Long)

(* DecodeClockSampleValue. *)
NoteClock(b) ==
    IF Len(b) # 8 THEN Malformed
    ELSE LET raw == Get(SubSeq(b, 5, 8))
             offset == IF raw < Long \div 2 THEN raw ELSE raw - Long
             unix == Get(SubSeq(b, 1, 4))
         IN  IF unix >= Long \div 2 \/ offset < -MaxOffset \/ offset > MaxOffset THEN Malformed
             ELSE [unix |-> unix, offset |-> offset]

(* encodeHelloEnrollmentProof and DecodeEnrollmentProofValue: a generation,*)
(* a token and the identity the phone will come back with.                 *)
EncodeProof(v) == Put(4, v.generation) \o v.token \o v.companion

NoteProof(b) ==
    IF Len(b) # 4 + 2 * IdBytes THEN Malformed
    ELSE [generation |-> Get(SubSeq(b, 1, 4)), token |-> SubSeq(b, 5, 4 + IdBytes),
          companion |-> SubSeq(b, 5 + IdBytes, 4 + 2 * IdBytes)]

-----------------------------------------------------------------------------
Proofs == [generation : {1, Long - 1}, token : [1 .. IdBytes -> {1, 2}], companion : [1 .. IdBytes -> {3}]]

Acks == {a \in [status : {0, 1}, authorized : {0, 1}, reason : 0 .. Base] :
            /\ a.status = 1 => a.authorized = 0
            /\ a.status = 0 => a.reason = 0}

Encoded(k, v) ==
    CASE k = "request" -> EncodeRequest(v)
      [] k = "response" -> EncodeResponse(v)
      [] k = "ack" -> <<Field(3, TRUE, EncodeAck(v))>>
      [] k = "clock" -> <<Field(5, FALSE, EncodeClock(v))>>
      [] k = "proof" -> <<Field(1, TRUE, EncodeProof(v))>>

Init ==
    /\ kind \in Kinds
    /\ value \in CASE kind = "request" -> Requests
                   [] kind = "response" -> Responses
                   [] kind = "ack" -> Acks
                   [] kind = "clock" -> Clocks
                   [] kind = "proof" -> Proofs
    /\ fields = Encoded(kind, value)
    /\ cut = 0
    /\ edits = 0

Edited(fs) ==
    /\ edits < MaxEdits
    /\ edits' = edits + 1
    /\ fields' = fs
    /\ UNCHANGED <<kind, value, cut>>

DropField == \E i \in DOMAIN fields : Edited(RemoveAt(fields, i))

RepeatField == \E i \in DOMAIN fields :
    Len(fields) < MaxFields /\ Edited(Append(fields, fields[i]))

UnknownField == \E required \in BOOLEAN :
    Len(fields) < MaxFields /\ Edited(<<Field(6, required, <<1>>)>> \o fields)

ChangeByte == \E i \in DOMAIN fields : \E j \in DOMAIN fields[i].bytes, byte \in Bytes :
    Edited([fields EXCEPT ![i].bytes[j] = byte])

ResizeField == \E i \in DOMAIN fields :
    \/ Edited([fields EXCEPT ![i].bytes = Append(@, 0)])
    \/ fields[i].bytes # << >> /\ Edited([fields EXCEPT ![i].bytes = Front(@)])

LoseEnd ==
    /\ edits < MaxEdits
    /\ edits' = edits + 1
    /\ cut' \in (cut + 1) .. (cut + Len(Payload))
    /\ UNCHANGED <<kind, value, fields>>

Next == DropField \/ RepeatField \/ UnknownField \/ ChangeByte \/ ResizeField \/ LoseEnd

Spec == Init /\ [][Next]_vars

-----------------------------------------------------------------------------
(* The value in the bytes, when the payload still is that one field. *)
Carried == LET fs == Fields(Payload) IN IF fs # Malformed /\ Len(fs) = 1 THEN fs[1].bytes ELSE << >>

(* What the decoders of the two ends make of payload "p", whose only field *)
(* is "carried".                                                           *)
Reads(p, carried) ==
    CASE kind = "request" ->
            /\ NoteRequest(p) = PhoneRequest(p)
            /\ edits = 0 => PhoneRequest(p) = value
            /\ PhoneRequest(p) # Malformed => InRange(PhoneRequest(p))
      [] kind = "response" ->
            /\ NoteResponse(p) = PhoneResponse(p)
            /\ edits = 0 => NoteResponse(p) = value
            /\ NoteResponse(p) # Malformed =>
                  LET r == NoteResponse(p)
                  IN  Len(r.body) <= MaxBytes /\ (r.status = 0 <=> r.body # << >>)
      [] kind = "ack" ->
            /\ NoteAck(carried) = PhoneAck(carried)
            /\ edits = 0 => PhoneAck(carried) = value
      [] kind = "clock" ->
            /\ edits = 0 => NoteClock(carried) = value
            /\ NoteClock(carried) # Malformed => EncodeClock(NoteClock(carried)) = carried
      [] kind = "proof" ->
            /\ edits = 0 => NoteProof(carried) = value
            /\ NoteProof(carried) # Malformed => EncodeProof(NoteProof(carried)) = carried

(* The two ends read the same from the same bytes, whatever the bytes; the *)
(* encoder of one end is undone by the decoder of the other; and what is   *)
(* read is something the rest of the code can hold: a body within its      *)
(* buffer, a failure without one, a timeout it can wait for, an offset a   *)
(* clock can have.                                                         *)
SameMeaning == Reads(Payload, Carried)
=============================================================================
