SPECIFICATION Spec
CONSTANTS
    ExpiryOf <- MCExpiryOf
    NumberOf <- MCNumberOf
    Interval = "100ms"
    Rows <- MCRows
    MaxRows = 4
INVARIANTS
    TypeOK
    RoundTrip
    SubscriptionComplete
    ChannelsRouteHome
CHECK_DEADLOCK FALSE
