---------------------------- MODULE SensorPayload ----------------------------
(***************************************************************************)
(* driveflow::protocol::encode_sensor_payload and decode_sensor_payload    *)
(* (src/protocol/sensor_payload.cpp).  A payload comes from a sender that  *)
(* uses the encoder, or from a foreign one that writes any fields, sizes   *)
(* and lengths.                                                            *)
(*                                                                         *)
(* A payload is its size, its fields and the number in its length field:   *)
(* the bytes of a field are written and read back by the functions of      *)
(* wire.hpp, which PacketCodec models.  Of a number only what the checks   *)
(* tell apart matters: that it is not finite, or on which side of a limit  *)
(* it is.  Fields without a check (frame_id, exposure_time_us, the extra   *)
(* bytes) are left out.                                                    *)
(***************************************************************************)
EXTENDS Integers, Sequences, FiniteSets

CONSTANTS
  NonFinite,        \* NaN and infinities
  Accelerations,    \* values tried for a component of an IMU sample
  Latitudes, Longitudes, Altitudes, Accuracies,
  Pixels,           \* values tried for width and height
  MaxPayload        \* kMaxPayloadSize

Types == {"imu", "gnss", "camera"}

\* kImuPayloadSize, kGnssPayloadSize and kCameraMetaFixedPayloadSize.
FixedSize == [imu |-> 24, gnss |-> 32, camera |-> 24]

MaxExtra == MaxPayload - FixedSize["camera"]

\* Every sensor payload fits into a packet.
ASSUME PayloadAssumption ==
  /\ MaxPayload \in Nat
  /\ \A t \in Types : FixedSize[t] <= MaxPayload

Extras == {0, 1, MaxExtra - 1, MaxExtra, MaxExtra + 1}

FieldsOf(t) ==
  CASE t = "imu"    -> [1..6 -> Accelerations]
    [] t = "gnss"   -> Latitudes \X Longitudes \X Altitudes
                         \X Accuracies \X Accuracies
    [] t = "camera" -> Pixels \X Pixels

ExtrasOf(t) == IF t = "camera" THEN Extras ELSE {0}

VARIABLES
  phase,            \* "encode", "received", "decoded" or "thrown"
  type,             \* the message type in the header
  sample,           \* the sample given to the encoder, as a set
  payload,          \* the payload on its way, as a set
  result            \* the DecodeSensorPayloadResult

vars == <<phase, type, sample, payload, result>>

Finite(x) == x \notin NonFinite

\* The three overloads of validate; comparisons are made on finite numbers.
Validate(t, fields, extra) ==
  CASE t \in {"imu", "gnss"} /\ \E i \in DOMAIN fields : ~Finite(fields[i]) ->
         "non_finite"
    [] t = "imu" /\ \A i \in DOMAIN fields : Finite(fields[i]) -> "none"
    [] t = "gnss" /\ \A i \in DOMAIN fields : Finite(fields[i]) ->
         IF /\ fields[1] >= -90 /\ fields[1] <= 90
            /\ fields[2] >= -180 /\ fields[2] <= 180
            /\ fields[4] >= 0 /\ fields[5] >= 0
         THEN "none" ELSE "out_of_range"
    [] t = "camera" ->
         IF fields[1] = 0 \/ fields[2] = 0 \/ extra > MaxExtra
         THEN "out_of_range" ELSE "none"

\* The bytes encode writes for a sample it does not refuse.
Encode(t, s) ==
  [size |-> FixedSize[t] + s.extra, fields |-> s.fields, length |-> s.extra]

Encodable(t, s) == Validate(t, s.fields, s.extra) = "none"

Outcome(error, t, p) ==
  [error |-> error,
   sample |-> IF error = "none"
              THEN {[fields |-> p.fields, extra |-> p.size - FixedSize[t]]}
              ELSE {}]

\* Faulty variant: bytes behind the extra data are taken for extra data.
ExtraSuffices(p) == p.size >= FixedSize["camera"] + p.length

ExtraFits(p) == p.size = FixedSize["camera"] + p.length

\* decode_imu, decode_gnss and decode_camera: the length field is read only
\* when it is there, and bounded before it is used.
Decode(t, p) ==
  CASE t \in {"imu", "gnss"} ->
         Outcome(IF p.size # FixedSize[t] THEN "size_mismatch"
                 ELSE Validate(t, p.fields, 0), t, p)
    [] t = "camera" ->
         Outcome(IF p.size < FixedSize[t] THEN "size_mismatch"
                 ELSE IF p.length > MaxExtra THEN "out_of_range"
                 ELSE IF ~ExtraFits(p) THEN "size_mismatch"
                 ELSE Validate(t, p.fields, p.size - FixedSize[t]), t, p)

-----------------------------------------------------------------------------
Init ==
  /\ phase = "encode"
  /\ type \in Types
  /\ sample \in {{}} \cup
       {{[fields |-> f, extra |-> e]} : f \in FieldsOf(type),
                                        e \in ExtrasOf(type)}
  /\ payload = {}
  /\ result = {}

EncodePayload ==
  /\ phase = "encode"
  /\ \E s \in sample : Encodable(type, s) /\ payload' = {Encode(type, s)}
  /\ phase' = "received"
  /\ UNCHANGED <<type, sample, result>>

\* length_error or invalid_argument.
EncodeThrows ==
  /\ phase = "encode"
  /\ \E s \in sample : ~Encodable(type, s)
  /\ phase' = "thrown"
  /\ UNCHANGED <<type, sample, payload, result>>

\* A payload somebody else wrote, of any size around those that are right.
ForeignPayload ==
  /\ phase = "encode"
  /\ sample = {}
  /\ \E f \in FieldsOf(type), n \in ExtrasOf(type), e \in ExtrasOf(type),
        d \in {-1, 0, 1} :
       payload' = {[size |-> FixedSize[type] + e + d, fields |-> f,
                    length |-> n]}
  /\ phase' = "received"
  /\ UNCHANGED <<type, sample, result>>

DecodePayload ==
  /\ phase = "received"
  /\ \E p \in payload : result' = {Decode(type, p)}
  /\ phase' = "decoded"
  /\ UNCHANGED <<type, sample, payload>>

Next == EncodePayload \/ EncodeThrows \/ ForeignPayload \/ DecodePayload

Spec == Init /\ [][Next]_vars
-----------------------------------------------------------------------------
\* The two ends agree on what a sensor sample is: what the encoder accepts is
\* decoded to the same sample, and what it refuses to encode the decoder
\* would refuse too, at every limit.
EncoderAndDecoderAgree ==
  /\ phase = "decoded" /\ sample # {} =>
       result = {[error |-> "none", sample |-> sample]}
  /\ phase = "thrown" => \A s \in sample :
       Decode(type, Encode(type, s)).error # "none"

\* Whoever wrote a payload, one that is accepted is exactly what the encoder
\* writes for the sample it is decoded to, and fits into a packet: no bytes
\* are ignored, and neither encode_packet nor the encoder would refuse it.
AcceptedIsEncodable ==
  phase = "decoded" => \A r \in result : \A s \in r.sample :
    /\ Encodable(type, s)
    /\ payload = {Encode(type, s)}
    /\ FixedSize[type] + s.extra <= MaxPayload

\* Both ends, and senders other than this encoder, have one idea of a sample.
SamplesAgree == EncoderAndDecoderAgree /\ AcceptedIsEncodable
=============================================================================
