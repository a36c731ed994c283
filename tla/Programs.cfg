CONSTANTS
  Addresses = {"0.0.0.0", "127.0.0.1"}
  NumberMax = 8
  PortMax = 2
  IntMax = 3
  RepMax = 15
  NanosecondsPerMillisecond = 2
  MaximumRate = 4
  MaximumFaultDelay = 3
  MaxCameraExtraDataSize = 2
  MaxDescriptor = 2
  Lines <- MCLines
SPECIFICATION ProgramSpec
INVARIANTS
  ConfigIsWhatWasAsked
  AcceptedConfigRuns
  DescriptorsOwned
  ListenersServe
PROPERTIES
  SignalsAreGraceful
