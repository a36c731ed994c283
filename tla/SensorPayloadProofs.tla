-------------------------- MODULE SensorPayloadProofs --------------------------
(***************************************************************************)
(* Proofs about SensorPayload, for every set of values of the fields and   *)
(* every limit of a packet that the three payloads fit into.               *)
(***************************************************************************)
EXTENDS SensorPayload, TLAPS

Sample(f, e) == [fields |-> f, extra |-> e]
Payload(z, f, n) == [size |-> z, fields |-> f, length |-> n]

\* A sample is one the type has, a payload one that somebody writes for it.
TypedInv ==
  /\ phase \in {"encode", "received", "decoded", "thrown"}
  /\ type \in Types
  /\ sample # {} => \E f \in FieldsOf(type), e \in ExtrasOf(type) :
                      sample = {Sample(f, e)}
  /\ phase \in {"received", "decoded"} =>
       \E z \in Int, f \in FieldsOf(type), n \in ExtrasOf(type) :
         payload = {Payload(z, f, n)}

\* Each end does what its half of the codec says.
EndsInv ==
  /\ phase \in {"received", "decoded"} /\ sample # {} =>
       \E s \in sample : Encodable(type, s) /\ payload = {Encode(type, s)}
  /\ phase = "thrown" => \E s \in sample : ~Encodable(type, s)
  /\ phase = "decoded" => \E p \in payload : result = {Decode(type, p)}
-----------------------------------------------------------------------------
\* The sizes of the three payloads.
LEMMA Sizes ==
  /\ FixedSize["imu"] = 24 /\ FixedSize["gnss"] = 32
  /\ FixedSize["camera"] = 24
  /\ \A t \in Types : FixedSize[t] \in Nat /\ FixedSize[t] <= MaxPayload
  /\ MaxPayload \in Nat /\ MaxExtra = MaxPayload - 24 /\ MaxExtra >= 8
<1>1. /\ FixedSize["imu"] = 24 /\ FixedSize["gnss"] = 32
      /\ FixedSize["camera"] = 24
  BY DEF FixedSize
<1>2. \A t \in Types : FixedSize[t] \in Nat
  BY <1>1 DEF Types
<1>3. 32 <= MaxPayload
  BY <1>1, PayloadAssumption DEF Types
<1> QED
  BY <1>1, <1>2, <1>3, PayloadAssumption DEF MaxExtra

\* The decoders of the two payloads whose size is fixed.
LEMMA DecodeFixed ==
  ASSUME NEW t \in {"imu", "gnss"}, NEW p
  PROVE  Decode(t, p) =
           Outcome(IF p.size # FixedSize[t] THEN "size_mismatch"
                   ELSE Validate(t, p.fields, 0), t, p)
  BY DEF Decode

\* The decoder of the payload with extra data.
LEMMA DecodeCamera ==
  ASSUME NEW p
  PROVE  Decode("camera", p) =
           Outcome(IF p.size < FixedSize["camera"] THEN "size_mismatch"
                   ELSE IF p.length > MaxExtra THEN "out_of_range"
                   ELSE IF ~ExtraFits(p) THEN "size_mismatch"
                   ELSE Validate("camera", p.fields,
                                 p.size - FixedSize["camera"]),
                   "camera", p)
  BY DEF Decode

\* The encoder refuses camera samples with too much extra data.
LEMMA CameraBounded ==
  ASSUME NEW f, NEW e \in Int, Validate("camera", f, e) = "none"
  PROVE  e <= MaxExtra
<1>1. Validate("camera", f, e) =
        IF f[1] = 0 \/ f[2] = 0 \/ e > MaxExtra
        THEN "out_of_range" ELSE "none"
  BY DEF Validate
<1> QED
  BY <1>1, Sizes

\* The extra bytes tried are few or as many as fit, or one more.
LEMMA ExtrasTyped ==
  ASSUME NEW t \in Types, NEW e \in ExtrasOf(t)
  PROVE  /\ e \in Nat
         /\ t # "camera" => e = 0
  BY Sizes DEF ExtrasOf, Extras

\* What the encoder accepts is decoded to the same sample, and what it
\* refuses would be refused by the decoder.
LEMMA DecodeInverts ==
  ASSUME NEW t \in Types, NEW f, NEW e \in ExtrasOf(t)
  PROVE  /\ Encodable(t, Sample(f, e)) =>
              Decode(t, Encode(t, Sample(f, e))) =
                [error |-> "none", sample |-> {Sample(f, e)}]
         /\ ~Encodable(t, Sample(f, e)) =>
              Decode(t, Encode(t, Sample(f, e))).error # "none"
<1> DEFINE p == Encode(t, Sample(f, e))
<1>1. /\ p.size = FixedSize[t] + e
      /\ p.fields = f
      /\ p.length = e
  BY DEF Encode, Sample
<1>2. Encodable(t, Sample(f, e)) <=> Validate(t, f, e) = "none"
  BY DEF Encodable, Sample
<1>3. FixedSize[t] \in Nat /\ e \in Nat /\ MaxExtra \in Int
  BY Sizes, ExtrasTyped
<1>4. p.size - FixedSize[t] = e
  BY <1>1, <1>3
<1>5. Outcome("none", t, p) = [error |-> "none", sample |-> {Sample(f, e)}]
  BY <1>1, <1>4 DEF Outcome, Sample
<1>6. \A error : error # "none" => Outcome(error, t, p).error # "none"
  BY DEF Outcome
<1>7. CASE t \in {"imu", "gnss"}
  <2>1. e = 0
    BY <1>7, ExtrasTyped
  <2>2. Decode(t, p) = Outcome(Validate(t, f, e), t, p)
    BY <1>1, <1>3, <1>7, <2>1, DecodeFixed
  <2> QED
    BY <1>2, <1>5, <1>6, <2>2
<1>8. CASE t = "camera"
  <2>1. ~(p.size < FixedSize["camera"]) /\ ExtraFits(p)
    BY <1>1, <1>3, <1>8 DEF ExtraFits
  <2>2. CASE e > MaxExtra
    <3>1. Decode(t, p) = Outcome("out_of_range", t, p)
      BY <1>1, <1>8, <2>1, <2>2, DecodeCamera
    <3>2. Validate(t, f, e) # "none"
      BY <1>3, <1>8, <2>2, CameraBounded
    <3> QED
      BY <1>2, <1>6, <3>1, <3>2
  <2>3. CASE ~(e > MaxExtra)
    <3>1. Decode(t, p) = Outcome(Validate(t, f, e), t, p)
      BY <1>1, <1>4, <1>8, <2>1, <2>3, DecodeCamera
    <3> QED
      BY <1>2, <1>5, <1>6, <3>1
  <2> QED
    BY <2>2, <2>3
<1> QED
  BY <1>7, <1>8 DEF Types

\* What the decoder accepts is what the encoder writes.
LEMMA AcceptedIsEncoded ==
  ASSUME NEW t \in Types, NEW z \in Int, NEW f, NEW n \in ExtrasOf(t),
         NEW s \in Decode(t, Payload(z, f, n)).sample
  PROVE  /\ Encodable(t, s)
         /\ Payload(z, f, n) = Encode(t, s)
         /\ FixedSize[t] + s.extra <= MaxPayload
<1> DEFINE p == Payload(z, f, n)
<1>1. p.size = z /\ p.fields = f /\ p.length = n
  BY DEF Payload
<1>2. FixedSize[t] \in Nat /\ n \in Nat /\ MaxExtra \in Int
  BY Sizes, ExtrasTyped
<1>3. \A error : error # "none" => Outcome(error, t, p).sample = {}
  BY DEF Outcome
<1>4. \A error : s \in Outcome(error, t, p).sample =>
                   s = Sample(f, z - FixedSize[t])
  BY <1>1 DEF Outcome, Sample
<1>5. SUFFICES /\ s = Sample(f, n) /\ z = FixedSize[t] + n
               /\ Validate(t, f, n) = "none"
               /\ FixedSize[t] + n <= MaxPayload
  BY <1>5 DEF Encodable, Encode, Sample, Payload
<1>6. CASE t \in {"imu", "gnss"}
  <2>1. n = 0
    BY <1>6, ExtrasTyped
  <2>2. z = FixedSize[t]
    BY <1>1, <1>3, <1>6, DecodeFixed
  <2>3. Decode(t, p) = Outcome(Validate(t, f, 0), t, p)
    BY <1>1, <1>6, <2>2, DecodeFixed
  <2>4. Validate(t, f, 0) = "none"
    BY <1>3, <2>3
  <2>5. s = Sample(f, z - FixedSize[t])
    BY <1>4, <2>3
  <2> QED
    BY <1>2, <2>1, <2>2, <2>4, <2>5, Sizes
<1>7. CASE t = "camera"
  <2>1. ~(z < FixedSize["camera"]) /\ ~(n > MaxExtra) /\ ExtraFits(p)
    BY <1>1, <1>3, <1>7, DecodeCamera
  <2>2. z = FixedSize[t] + n
    BY <1>1, <1>7, <2>1 DEF ExtraFits
  <2>3. z - FixedSize[t] = n
    BY <1>2, <2>2
  <2>4. Decode(t, p) = Outcome(Validate(t, f, n), t, p)
    BY <1>1, <1>7, <2>1, <2>3, DecodeCamera
  <2>5. Validate(t, f, n) = "none"
    BY <1>3, <2>4
  <2>6. s = Sample(f, n)
    BY <1>4, <2>3, <2>4
  <2>7. FixedSize[t] + n <= MaxPayload
    BY <1>2, <1>7, <2>1, Sizes
  <2> QED
    BY <2>2, <2>5, <2>6, <2>7
<1> QED
  BY <1>6, <1>7 DEF Types
-----------------------------------------------------------------------------
\* Every sample is its type's, and there is a payload to decode.
LEMMA TypedStep ==
  ASSUME TypedInv, [Next]_vars
  PROVE  TypedInv'
<1> USE DEF TypedInv
<1>1. CASE EncodePayload
  <2>1. PICK s \in sample : Encodable(type, s) /\ payload' = {Encode(type, s)}
    BY <1>1 DEF EncodePayload
  <2>2. PICK f \in FieldsOf(type), e \in ExtrasOf(type) : s = Sample(f, e)
    BY <2>1
  <2>3. FixedSize[type] + e \in Int
    BY Sizes, ExtrasTyped
  <2>4. payload' = {Payload(FixedSize[type] + e, f, e)}
    BY <2>1, <2>2 DEF Encode, Sample, Payload
  <2> QED
    BY <1>1, <2>3, <2>4 DEF EncodePayload
<1>2. CASE EncodeThrows
  BY <1>2 DEF EncodeThrows
<1>3. CASE ForeignPayload
  <2>1. PICK f \in FieldsOf(type), n \in ExtrasOf(type), e \in ExtrasOf(type),
             d \in {-1, 0, 1} :
          payload' = {Payload(FixedSize[type] + e + d, f, n)}
    BY <1>3 DEF ForeignPayload, Payload
  <2>2. FixedSize[type] + e + d \in Int
    BY Sizes, ExtrasTyped
  <2> QED
    BY <1>3, <2>1, <2>2 DEF ForeignPayload
<1>4. CASE DecodePayload
  BY <1>4 DEF DecodePayload
<1>5. CASE UNCHANGED vars
  BY <1>5 DEF vars
<1> QED
  BY <1>1, <1>2, <1>3, <1>4, <1>5 DEF Next

\* Type correctness: the message type and the phase have their types, a
\* sample is one of the message type's, and whenever decode_sensor_payload
\* may be called there is one payload for it.
THEOREM PayloadTyping == Spec => []TypedInv
<1>1. Init => TypedInv
  BY DEF Init, TypedInv, Sample
<1> QED
  BY <1>1, TypedStep, PTL DEF Spec

\* A payload of the encoder's is that of the sample, also when it is decoded.
LEMMA EndsStep ==
  ASSUME TypedInv, EndsInv, [Next]_vars
  PROVE  EndsInv'
<1> USE DEF EndsInv
<1>1. CASE EncodePayload
  BY <1>1 DEF EncodePayload
<1>2. CASE EncodeThrows
  BY <1>2 DEF EncodeThrows
<1>3. CASE ForeignPayload
  BY <1>3 DEF ForeignPayload
<1>4. CASE DecodePayload
  BY <1>4 DEF DecodePayload
<1>5. CASE UNCHANGED vars
  BY <1>5 DEF vars
<1> QED
  BY <1>1, <1>2, <1>3, <1>4, <1>5 DEF Next

\* What the two halves do, and that they fit, is what the ends agree on.
LEMMA EndsImply ==
  ASSUME TypedInv, EndsInv
  PROVE  SamplesAgree
<1>1. EncoderAndDecoderAgree
  <2>1. ASSUME sample # {}
        PROVE  \E f \in FieldsOf(type), e \in ExtrasOf(type) :
                 sample = {Sample(f, e)}
    BY <2>1 DEF TypedInv
  <2>2. type \in Types
    BY DEF TypedInv
  <2>3. ASSUME phase = "decoded", sample # {}
        PROVE  result = {[error |-> "none", sample |-> sample]}
    <3>1. PICK f \in FieldsOf(type), e \in ExtrasOf(type) :
            sample = {Sample(f, e)}
      BY <2>1, <2>3
    <3>2. /\ Encodable(type, Sample(f, e))
          /\ payload = {Encode(type, Sample(f, e))}
      BY <2>3, <3>1 DEF EndsInv
    <3>3. result = {Decode(type, Encode(type, Sample(f, e)))}
      BY <2>3, <3>2 DEF EndsInv
    <3> QED
      BY <2>2, <3>1, <3>2, <3>3, DecodeInverts
  <2>4. ASSUME phase = "thrown"
        PROVE  \A s \in sample : Decode(type, Encode(type, s)).error # "none"
    <3>1. PICK t \in sample : ~Encodable(type, t)
      BY <2>4 DEF EndsInv
    <3>2. PICK f \in FieldsOf(type), e \in ExtrasOf(type) :
            sample = {Sample(f, e)}
      BY <2>1, <3>1
    <3> QED
      BY <2>2, <3>1, <3>2, DecodeInverts
  <2> QED
    BY <2>3, <2>4 DEF EncoderAndDecoderAgree
<1>2. AcceptedIsEncodable
  <2> SUFFICES ASSUME phase = "decoded", NEW r \in result, NEW s \in r.sample
               PROVE  /\ Encodable(type, s)
                      /\ payload = {Encode(type, s)}
                      /\ FixedSize[type] + s.extra <= MaxPayload
    BY DEF AcceptedIsEncodable
  <2>1. PICK z \in Int, f \in FieldsOf(type), n \in ExtrasOf(type) :
          payload = {Payload(z, f, n)}
    BY DEF TypedInv
  <2>2. r = Decode(type, Payload(z, f, n))
    BY <2>1 DEF EndsInv
  <2>3. type \in Types
    BY DEF TypedInv
  <2> QED
    BY <2>1, <2>2, <2>3, AcceptedIsEncoded
<1> QED
  BY <1>1, <1>2 DEF SamplesAgree

\* For every set of values and every limit: the encoder's samples come out as
\* they went in, what it refuses the decoder refuses too, and no foreign
\* payload is accepted but the one the encoder writes for its sample.
THEOREM SamplesProved == Spec => []SamplesAgree
<1>1. Init => EndsInv
  BY DEF Init, EndsInv
<1> QED
  BY <1>1, PayloadTyping, EndsStep, EndsImply, PTL DEF Spec
=============================================================================
