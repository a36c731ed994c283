CONSTANTS
  ByteBits = 4
  CrcBytes = 2
  CrcPolynomial = {7, 5, 4, 3}
  Magic = {0, 2, 3}
  Version = {0}
  KnownTypes = {{0}, {1}, {0, 1}}
  MaxPayload = 2
  Types = {{}, {0}, {1}, {0, 1}, {2}}
  Numbers = {{}, {1, 2, 3, 4}, {0, 1, 2, 3, 4, 5, 6, 7}}
  Contents = {{}, {0, 1, 3}}
  LongestPayload = 3
  MaxFlips = 2
SPECIFICATION Spec
CHECK_DEADLOCK FALSE
INVARIANTS
  DecodeInvertsEncode
  HarmIsNoticed
