----------------------------- MODULE PacketCodec -----------------------------
(***************************************************************************)
(* driveflow::protocol::encode_packet and decode_packet                    *)
(* (src/protocol/packet.cpp, wire.hpp) at the two ends of a UDP path that  *)
(* may harm a datagram.  The wire format is scaled: bytes of ByteBits bits *)
(* and shorter fields, in the order and byte order of the code, with the   *)
(* checksum between the other header fields and the payload.  The source   *)
(* timestamp, an integer written like the sequence number, is left out.    *)
(*                                                                         *)
(* A byte, and any other bit string, is the set of its one bits: shifting  *)
(* moves its members, a mask keeps those inside, "or" is the union and     *)
(* exclusive or the symmetric difference.                                  *)
(***************************************************************************)
EXTENDS Integers, Sequences, FiniteSets

CONSTANTS
  ByteBits,         \* 8, the bits of a byte
  CrcBytes,         \* 4, the bytes of the checksum
  CrcPolynomial,    \* kCrcPolynomial, reflected
  Magic,            \* kPacketMagic
  Version,          \* kProtocolVersion
  KnownTypes,       \* the values of MessageType
  MaxPayload,       \* kMaxPayloadSize
  Types,            \* raw message types a sender tries
  Numbers,          \* sequence numbers sent
  Contents,         \* bytes payloads are made of
  LongestPayload,   \* bound: bytes of the longest payload a sender tries
  MaxFlips          \* bound: bits the path inverts in one datagram

Bits == 0..(ByteBits - 1)
Byte == SUBSET Bits
CrcBits == CrcBytes * ByteBits
AllOnes == 0..(CrcBits - 1)

\* The number that a byte stands for, and the byte for a number.
NumberOf(byte) ==
  LET above[i \in 0..ByteBits] ==
        IF i = ByteBits THEN 0
        ELSE 2 * above[i + 1] + (IF i \in byte THEN 1 ELSE 0)
  IN  above[0]

ByteFor(number) == CHOOSE byte \in Byte : NumberOf(byte) = number

\* Sizes of the header, with a sequence number of two bytes.
CrcOffset == 6
HeaderSize == CrcOffset + CrcBytes

ASSUME CodecAssumption ==
  /\ ByteBits \in Nat \ {0} /\ CrcBytes \in Nat \ {0}
  /\ {Magic, Version} \cup Types \cup Contents \subseteq Byte
  /\ KnownTypes \subseteq Types
  /\ \A number \in Numbers : number \subseteq 0..(2 * ByteBits - 1)
  /\ LongestPayload \in Nat
  /\ MaxFlips \in 0..2      \* what the checksum answers for

\* The field for the size of the payload holds every size allowed.
ASSUME SizeAssumption ==
  /\ MaxPayload \in Nat
  /\ \A size \in 0..MaxPayload : \E byte \in Byte : NumberOf(byte) = size

VARIABLES
  phase,            \* "encode", "transit", "decoded" or "thrown"
  source,           \* what the sender passed to encode_packet
  datagram,         \* the bytes on their way
  harm,             \* history: what the path did to them
  result            \* the DecodeResult of the receiver

vars == <<phase, source, datagram, harm, result>>

-----------------------------------------------------------------------------
(* wire.hpp: fields of several bytes, most significant byte first.         *)

WriteBigEndian(value, width) ==
  [i \in 1..width |-> {b \in Bits : (width - i) * ByteBits + b \in value}]

\* Faulty variant: the least significant byte comes first.
ReadLittleEndian(bytes) ==
  UNION {{(i - 1) * ByteBits + b : b \in bytes[i]} : i \in DOMAIN bytes}

ReadBigEndian(bytes) ==
  UNION {{(Len(bytes) - i) * ByteBits + b : b \in bytes[i]} :
           i \in DOMAIN bytes}

-----------------------------------------------------------------------------
(* The checksum, byte by byte and bit by bit.                              *)

Xor(a, b) == (a \ b) \cup (b \ a)

CrcBit(state) ==
  Xor({i - 1 : i \in state \ {0}}, IF 0 \in state THEN CrcPolynomial ELSE {})

AbsorbByte(state, byte) ==
  LET after[i \in 0..ByteBits] ==
        IF i = 0 THEN Xor(state, byte) ELSE CrcBit(after[i - 1])
  IN  after[ByteBits]

UpdateCrc(state, bytes) ==
  LET after[i \in 0..Len(bytes)] ==
        IF i = 0 THEN state ELSE AbsorbByte(after[i - 1], bytes[i])
  IN  after[Len(bytes)]

\* Faulty variant: the header is not covered.
PayloadCrc(header, payload) == Xor(UpdateCrc(AllOnes, payload), AllOnes)

PacketCrc(header, payload) ==
  Xor(UpdateCrc(UpdateCrc(AllOnes, header), payload), AllOnes)

\* What the checksum is chosen for: the polynomial has its highest
\* coefficient, so that a difference never vanishes, and a difference of one
\* bit is never again one of one bit as far as a packet reaches.
ASSUME PolynomialAssumption ==
  /\ CrcPolynomial \subseteq AllOnes /\ CrcBits - 1 \in CrcPolynomial
  /\ \A b \in Bits, c \in AllOnes, n \in 1..(CrcOffset + MaxPayload) :
       UpdateCrc({b}, [i \in 1..n |-> {}]) # {c}

-----------------------------------------------------------------------------
(* encode_packet and decode_packet.                                        *)

Encodable(p) == p.type \in KnownTypes /\ Len(p.payload) <= MaxPayload

Encode(p) ==
  LET header == <<Magic, Version, p.type>> \o WriteBigEndian(p.number, 2)
                  \o <<ByteFor(Len(p.payload))>>
  IN  header \o WriteBigEndian(PacketCrc(header, p.payload), CrcBytes)
        \o p.payload

Failure(error) == [error |-> error, packet |-> {}]

\* The checks in their order; none reads a byte that need not be there.
Decode(bytes) ==
  LET header == SubSeq(bytes, 1, CrcOffset)
      length == NumberOf(bytes[CrcOffset])
      payload == SubSeq(bytes, HeaderSize + 1, Len(bytes))
  IN  IF Len(bytes) < HeaderSize THEN Failure("truncated_header")
      ELSE IF bytes[1] # Magic THEN Failure("magic")
      ELSE IF bytes[2] # Version THEN Failure("version")
      ELSE IF bytes[3] \notin KnownTypes THEN Failure("type")
      ELSE IF length > MaxPayload THEN Failure("too_large")
      ELSE IF Len(bytes) < HeaderSize + length THEN Failure("truncated_payload")
      ELSE IF Len(bytes) # HeaderSize + length THEN Failure("length_mismatch")
      ELSE IF PacketCrc(header, payload) #
                ReadBigEndian(SubSeq(bytes, CrcOffset + 1, HeaderSize))
           THEN Failure("crc")
      ELSE [error |-> "none",
            packet |-> {[type |-> bytes[3],
                         number |-> ReadBigEndian(SubSeq(bytes, 4, 5)),
                         payload |-> payload]}]

-----------------------------------------------------------------------------
Init ==
  /\ phase = "encode"
  /\ source \in [type : Types, number : Numbers,
                 payload : UNION {[1..n -> Contents] : n \in 0..LongestPayload}]
  /\ datagram = <<>>
  /\ harm = {}
  /\ result = Failure("none")

EncodePacket ==
  /\ phase = "encode"
  /\ Encodable(source)
  /\ datagram' = Encode(source)
  /\ phase' = "transit"
  /\ UNCHANGED <<source, harm, result>>

EncodeThrows ==
  /\ phase = "encode"
  /\ ~Encodable(source)
  /\ phase' = "thrown"
  /\ UNCHANGED <<source, datagram, harm, result>>

\* The datagram is altered on its way; harm remembers how.
Harm(kind, bytes) ==
  /\ phase = "transit"
  /\ datagram' = bytes
  /\ harm' = harm \cup {kind}
  /\ UNCHANGED <<phase, source, result>>

WithBitFlipped(i, b) == [datagram EXCEPT ![i] = Xor(@, {b})]

\* The path inverts bit b of byte i; no bit twice.
FlipBit(i, b) ==
  /\ Cardinality(harm) < MaxFlips
  /\ \A h \in harm : h[1] = "flip" /\ h[2] * ByteBits + h[3] < i * ByteBits + b
  /\ Harm(<<"flip", i, b>>, WithBitFlipped(i, b))

\* The path cuts a datagram off, or a foreign sender pads it.
Truncate(n) == harm = {} /\ Harm(<<"cut", n>>, SubSeq(datagram, 1, n))

Extend(byte) == harm = {} /\ Harm(<<"pad", byte>>, Append(datagram, byte))

\* The simulator's --corrupt-every, after the checksum has been written.
Corrupt ==
  harm = {} /\ Harm(<<"corrupt">>, WithBitFlipped(Len(datagram), 0))

DecodePacket ==
  /\ phase = "transit"
  /\ result' = Decode(datagram)
  /\ phase' = "decoded"
  /\ UNCHANGED <<source, datagram, harm>>

Next ==
  \/ EncodePacket \/ EncodeThrows
  \/ \E i \in DOMAIN datagram, b \in Bits : FlipBit(i, b)
  \/ \E n \in 0..(Len(datagram) - 1) : Truncate(n)
  \/ \E byte \in Contents : Extend(byte)
  \/ Corrupt \/ DecodePacket

Spec == Init /\ [][Next]_vars
-----------------------------------------------------------------------------
\* Decoding inverts encoding: a datagram that arrives as it was sent is
\* decoded to what was encoded, and one that is accepted, wherever it comes
\* from, is what the encoder writes for the packet it is decoded to: nothing
\* follows the payload and no two datagrams stand for the same packet.
DecodeInvertsEncode ==
  phase = "decoded" =>
    /\ harm = {} => result = [error |-> "none", packet |-> {source}]
    /\ result.error = "none" =>
         \A p \in result.packet : Encodable(p) /\ datagram = Encode(p)

\* docs/protocol.md "keeps corrupted input from reaching later modules": one
\* or two inverted bits anywhere in the datagram, in the checksum itself and
\* in the fields that are checked before it too, and any change of length,
\* are noticed.  "The Sensor Simulator's --corrupt-every option ... provides
\* repeatable kCrcMismatch input": for every packet, also for one without a
\* payload, whose last byte belongs to the checksum.
HarmIsNoticed ==
  phase = "decoded" /\ harm # {} =>
    /\ result.error # "none"
    /\ harm = {<<"corrupt">>} => result.error = "crc"
=============================================================================
