SPECIFICATION FairFramerSpec
CONSTANTS
    Base = 4
    Sync1 = 3
    Sync2 = 1
    Checksum <- ByteChecksum
    MaxPacketSize = 4
    Payloads <- const_Payloads
INVARIANTS FramerTypeOK
PROPERTIES ImplementsParser IntactIsReceived GateOpens
