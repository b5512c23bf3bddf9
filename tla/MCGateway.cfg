SPECIFICATION GatewaySpec
CONSTANTS
    ExpiryOf <- MCExpiryOf
    NumberOf <- MCNumberOf
    Interval = "100ms"
    Rows <- MCRows
    MaxRows = 4
    Bits = 8
    NanosPerMilli = 10
    QueueCapacity = 2
    MaxChannels = 2
    Payloads <- MCPayloads
    MaxNotices = 5
    MaxDrops = 2
INVARIANTS
    TicksNameTheirInstrument
    LoggingOutlivesHandlers
    ReturnLeavesNothing
PROPERTIES
    BootAndShutdownEnd
CHECK_DEADLOCK FALSE
