--------------------------- MODULE GatewayProofs ----------------------------
(* Theorems about Gateway, for any rows, payloads and sizes: main runs the *)
(* registry as the registry's own specification says, and what holds there *)
(* is carried through session, queue, thread and handler to the logging.   *)
EXTENDS Gateway, InstrumentRegistryProofs

(* The ticks the codec may make of the venue's payloads, and what the queue*)
(* holds of them.                                                          *)
Ticks ==
    [id : Nat, exchange_ts : UNION {TimestampMs(data) : data \in Payloads},
     recv_ts : {0},
     price : UNION {NumberOrNan(data, "last_price")
                        \cup NumberOrNan(data, "price") : data \in Payloads}]

Entries == [tick : Ticks, via : Channels]

Boot == {"config", "logging", "load", "build", "start", "abandon"}

GatewayTypeOK ==
    /\ main \in Boot \cup {"serving", "joining", "report", "shutdown",
                           "return", "returned"}
    /\ logging \in {"none", "up", "down"}
    /\ session \in {"none", "subscribing", "streaming", "lost"}
    /\ queue \in Seq(Entries)
    /\ closed \in BOOLEAN
    /\ thread \in {"none", "running", "ended", "joined"}
    /\ handling \in SUBSET Entries

(* No thread: nothing that could be handled, and nobody to send it.        *)
(* A thread that has ended drained a queue nobody can add to any more.     *)
ThreadPhases ==
    /\ thread = "none" => session = "none"
    /\ thread # "running" => queue = <<>> /\ handling = {}
    /\ thread \in {"ended", "joined"} => closed

(* Where main is, the thread and the logging are.                          *)
MainPhases ==
    /\ main = "config" => logging = "none"
    /\ main \in Boot => thread = "none"
    /\ main \in {"report", "shutdown"} => thread = "joined"
    /\ main \in {"return", "returned"} => thread \in {"none", "joined"}
    /\ logging = "down" => main \in {"return", "returned"}
    /\ main \in {"return", "returned"} => logging # "up"

(* The inductive invariant of the gateway's shutdown.                      *)
GatewayInv == GatewayTypeOK /\ ThreadPhases /\ MainPhases

(* What the sink holds: the queue's entries and the handler's.             *)
Held == handling \cup {queue[i] : i \in DOMAIN queue}

(* The session asks for channels of keys the registry has.                 *)
LEMMA WantedAreRegistered ==
    ASSUME TypeOK, NEW i \in DOMAIN Wanted
    PROVE  \E k \in 1..Len(keys) : Wanted[i] = keys[k]
<1> DEFINE m == IF Len(SubscriptionOrder) < MaxChannels
                THEN Len(SubscriptionOrder) ELSE MaxChannels
           three == KeysOfKind("Index") \o KeysOfKind("Future")
                        \o KeysOfKind("Option")
<1>1. keys \in Seq(MappedKeys)
  BY DEF TypeOK
<1>2. /\ KeysOfKind("Index") \in Seq(MappedKeys)
      /\ KeysOfKind("Future") \in Seq(MappedKeys)
      /\ KeysOfKind("Option") \in Seq(MappedKeys)
      /\ SubscriptionOrder = three
  BY SubscriptionGroups
<1>3. \A kind : \A j \in 1..Len(KeysOfKind(kind)) :
          \E k \in 1..Len(keys) : KeysOfKind(kind)[j] = keys[k]
  BY <1>1, KeptElements DEF KeysOfKind
<1>4. /\ SubscriptionOrder \in Seq(MappedKeys)
      /\ \A j \in 1..Len(SubscriptionOrder) :
             \E k \in 1..Len(keys) : SubscriptionOrder[j] = keys[k]
  <2> HIDE DEF KeysOfKind
  <2>1. \A j \in 1..Len(three) :
            \E kind : \E x \in 1..Len(KeysOfKind(kind)) :
                three[j] = KeysOfKind(kind)[x]
    <3>1. ASSUME NEW j \in 1..Len(three)
          PROVE  \/ \E x \in 1..Len(KeysOfKind("Index")) :
                        three[j] = KeysOfKind("Index")[x]
                 \/ \E x \in 1..Len(KeysOfKind("Future")) :
                        three[j] = KeysOfKind("Future")[x]
                 \/ \E x \in 1..Len(KeysOfKind("Option")) :
                        three[j] = KeysOfKind("Option")[x]
      BY <1>2, SMTT(30)
    <3> QED
      BY <3>1
  <2> QED
    BY <1>2, <1>3, <2>1
<1>5. m \in Nat /\ m <= Len(SubscriptionOrder)
  BY <1>4, SizesAssumption
<1>6. DOMAIN Wanted = 1..m /\ \A j \in 1..m : Wanted[j] = SubscriptionOrder[j]
  <2> HIDE DEF m
  <2> QED
    BY <1>4, <1>5 DEF Wanted, m
<1> QED
  BY <1>4, <1>5, <1>6

(* So each step of the gateway is one of the registry's, or none.          *)
LEMMA RegistryStep ==
    ASSUME TypeOK, [GatewayNext]_allVars
    PROVE  [Next]_vars
<1>1. CASE BuildRow
  BY <1>1 DEF BuildRow, Next
<1>2. CASE EndBuild
  BY <1>2 DEF EndBuild, Next
<1>3. CASE Bind
  <2>1. PICK i \in DOMAIN Wanted : BindChannel(Wanted[i])
    BY <1>3 DEF Bind
  <2>2. PICK k \in 1..Len(keys) : Wanted[i] = keys[k]
    BY WantedAreRegistered
  <2> QED
    BY <2>1, <2>2 DEF Next
<1>4. CASE UNCHANGED vars
  BY <1>4
<1>5. BuildRow \/ EndBuild \/ Bind \/ UNCHANGED vars
  BY DEF GatewayNext, MainStep, Session, Consumer, ReadConfig, InitLogging,
         LoadRows, StartSink, StopSink, JoinSink, Report, ShutdownLogging,
         Return, Stream, Notification, LoseConnection, Reconnect, Consume,
         HandlerReturns, ConsumeEnds, allVars
<1> QED
  BY <1>1, <1>2, <1>3, <1>4, <1>5

(* main drives the registry as its own specification says: rows in order   *)
(* while it builds, then lookups and bindings of registered instruments.   *)
(* So what is proved of the registry holds in the running gateway.         *)
THEOREM GatewayRunsRegistry == GatewaySpec => Spec
<1>1. GatewayInit => Init /\ TypeOK
  BY DEF GatewayInit, Init, TypeOK, Empty
<1>2. TypeOK /\ [GatewayNext]_allVars => TypeOK' /\ [Next]_vars
  BY RegistryStep, RegistryTypeStep
<1> QED
  BY <1>1, <1>2, PTL DEF GatewaySpec, Spec

(* What was proved of the registry, of the one main builds and the session *)
(* binds.                                                                  *)
THEOREM RegistryHoldsInGateway ==
    GatewaySpec => [](TypeOK /\ RoundTrip /\ ChannelsRouteHome
                          /\ SubscriptionComplete)
BY GatewayRunsRegistry, RegistryTypeCorrect, IdsAndSymbolsAgree,
   NotificationsRouteHome, NoInstrumentGoesMissing, PTL

(* A decoded tick is one of Ticks, under the id its channel is bound to.   *)
LEMMA DecodedTicks ==
    ASSUME TypeOK, NEW ch \in Channels, NEW data \in Payloads,
           NEW tick \in TicksOf(ch, data)
    PROVE  tick \in Ticks /\ tick.id \in ByChannel(ch)
<1>1. PICK id \in ByChannel(ch) :
          tick \in IF ch[1] = "ticker" THEN DecodeTicker(data, id, 0)
                   ELSE DecodeIndex(data, id, 0)
  BY DEF TicksOf
<1>2. id \in Nat
  BY DEF ByChannel, TypeOK
<1>3. PICK price_key \in {"last_price", "price"} :
          tick \in [id : {id}, exchange_ts : TimestampMs(data), recv_ts : {0},
                    price : NumberOrNan(data, price_key)]
  BY <1>1 DEF DecodeTicker, DecodeIndex, DecodePriced
<1> QED
  BY <1>2, <1>3 DEF Ticks

(* The queue takes the tick and no other, and a closed queue takes none.   *)
LEMMA OnTickTakesOne ==
    ASSUME queue \in Seq(Entries), closed \in BOOLEAN, NEW e \in Entries,
           OnTick(e)
    PROVE  /\ queue' \in Seq(Entries)
           /\ closed => queue' = queue
           /\ \A i \in DOMAIN queue' :
                  queue'[i] = e \/ \E j \in DOMAIN queue : queue'[i] = queue[j]
<1>1. CASE closed
  BY <1>1 DEF OnTick
<1>2. CASE ~closed /\ Len(queue) < QueueCapacity
  <2>1. queue' = Append(queue, e)
    BY <1>2 DEF OnTick
  <2> QED
    BY <1>2, <2>1
<1>3. CASE ~closed /\ ~(Len(queue) < QueueCapacity)
  <2>1. queue' = Append(Tail(queue), e)
    BY <1>3 DEF OnTick
  <2>2. queue # <<>>
    BY <1>3, SizesAssumption
  <2>3. /\ Tail(queue) \in Seq(Entries)
        /\ \A i \in DOMAIN Tail(queue) : i + 1 \in DOMAIN queue
                                         /\ Tail(queue)[i] = queue[i + 1]
    BY <2>2
  <2> DEFINE rest == Tail(queue)
  <2> HIDE DEF rest
  <2>4. /\ queue' = Append(rest, e) /\ rest \in Seq(Entries)
        /\ \A i \in DOMAIN rest : \E j \in DOMAIN queue : rest[i] = queue[j]
    BY <2>1, <2>3 DEF rest
  <2>5. queue' \in Seq(Entries)
    BY <2>4
  <2>6. \A i \in DOMAIN queue' : queue'[i] = e \/ (i \in DOMAIN rest /\ queue'[i] = rest[i])
    BY <2>4
  <2> QED
    BY <1>3, <2>4, <2>5, <2>6
<1> QED
  BY <1>1, <1>2, <1>3

(* A notification changes the queue by its tick, or not at all.            *)
LEMMA NotificationTakesOne ==
    ASSUME TypeOK, GatewayTypeOK, NEW ch \in Channels, NEW data \in Payloads,
           Notification(ch, data)
    PROVE  /\ queue' \in Seq(Entries)
           /\ closed => queue' = queue
           /\ \A i \in DOMAIN queue' :
                  \/ \E j \in DOMAIN queue : queue'[i] = queue[j]
                  \/ /\ queue'[i].via = ch
                     /\ queue'[i].tick.id \in ByChannel(ch)
<1>1. CASE UNCHANGED queue
  BY <1>1 DEF GatewayTypeOK
<1>2. ASSUME NEW tick \in TicksOf(ch, data),
             OnTick([tick |-> tick, via |-> ch])
      PROVE  /\ queue' \in Seq(Entries)
             /\ closed => queue' = queue
             /\ \A i \in DOMAIN queue' :
                    \/ \E j \in DOMAIN queue : queue'[i] = queue[j]
                    \/ /\ queue'[i].via = ch
                       /\ queue'[i].tick.id \in ByChannel(ch)
  <2> DEFINE e == [tick |-> tick, via |-> ch]
  <2>1. e \in Entries /\ e.via = ch /\ e.tick.id \in ByChannel(ch)
    BY DecodedTicks DEF Entries
  <2>2. queue \in Seq(Entries) /\ closed \in BOOLEAN /\ OnTick(e)
    BY <1>2 DEF GatewayTypeOK
  <2> HIDE DEF e
  <2>3. /\ queue' \in Seq(Entries)
        /\ closed => queue' = queue
        /\ \A i \in DOMAIN queue' :
               queue'[i] = e \/ \E j \in DOMAIN queue : queue'[i] = queue[j]
    BY <2>1, <2>2, OnTickTakesOne
  <2> QED
    BY <2>1, <2>3
<1> QED
  BY <1>1, <1>2 DEF Notification

(* The shutdown's invariant is kept by every step of main, of the session  *)
(* and of the consumer thread.                                             *)
LEMMA GatewayInvariant == GatewaySpec => []GatewayInv
<1>1. GatewayInit => GatewayInv
  <2> SUFFICES ASSUME GatewayInit PROVE GatewayInv
    OBVIOUS
  <2>1. GatewayTypeOK
    <3>1. closed \in BOOLEAN
      BY Zenon DEF GatewayInit
    <3> QED
      BY <3>1 DEF GatewayInit, GatewayTypeOK, Boot
  <2>2. ThreadPhases /\ MainPhases
    BY DEF GatewayInit, ThreadPhases, MainPhases, Boot
  <2> QED
    BY <2>1, <2>2 DEF GatewayInv
<1>2. TypeOK /\ GatewayInv /\ [GatewayNext]_allVars => GatewayInv'
  <2> SUFFICES ASSUME TypeOK, GatewayInv, [GatewayNext]_allVars
               PROVE  GatewayInv'
    OBVIOUS
  <2>1. CASE ReadConfig
    BY <2>1 DEF ReadConfig, Goes, GatewayInv, GatewayTypeOK, ThreadPhases,
                MainPhases, Boot, sinkVars, venueVars
  <2>2. CASE InitLogging
    BY <2>2 DEF InitLogging, Goes, GatewayInv, GatewayTypeOK, ThreadPhases,
                MainPhases, Boot, sinkVars, venueVars
  <2>3. CASE LoadRows
    BY <2>3 DEF LoadRows, Goes, GatewayInv, GatewayTypeOK, ThreadPhases,
                MainPhases, Boot, sinkVars, venueVars
  <2>4. CASE BuildRow \/ Bind \/ UNCHANGED allVars
    <3>1. UNCHANGED gatewayVars
      BY <2>4 DEF BuildRow, Bind, allVars
    <3> QED
      BY <3>1 DEF gatewayVars, GatewayInv, GatewayTypeOK, ThreadPhases,
                  MainPhases
  <2>5. CASE EndBuild
    BY <2>5 DEF EndBuild, Goes, GatewayInv, GatewayTypeOK, ThreadPhases,
                MainPhases, Boot, sinkVars, venueVars
  <2>6. CASE StartSink
    BY <2>6 DEF StartSink, Goes, GatewayInv, GatewayTypeOK, ThreadPhases,
                MainPhases, Boot, sinkVars, venueVars
  <2>7. CASE StopSink
    BY <2>7 DEF StopSink, Goes, GatewayInv, GatewayTypeOK, ThreadPhases,
                MainPhases, Boot, sinkVars, venueVars
  <2>8. CASE JoinSink
    BY <2>8 DEF JoinSink, Goes, GatewayInv, GatewayTypeOK, ThreadPhases,
                MainPhases, Boot, sinkVars, venueVars
  <2>9. CASE Report
    BY <2>9 DEF Report, Goes, GatewayInv, GatewayTypeOK, ThreadPhases,
                MainPhases, Boot, sinkVars, venueVars
  <2>10. CASE ShutdownLogging
    BY <2>10 DEF ShutdownLogging, Goes, GatewayInv, GatewayTypeOK, ThreadPhases,
                MainPhases, Boot, sinkVars, venueVars
  <2>11. CASE Return
    BY <2>11 DEF Return, Goes, GatewayInv, GatewayTypeOK, ThreadPhases,
                MainPhases, Boot, sinkVars, venueVars
  <2>12. CASE Stream
    BY <2>12 DEF Stream, Goes, GatewayInv, GatewayTypeOK, ThreadPhases,
                MainPhases, Boot, sinkVars, venueVars
  <2>13. CASE LoseConnection
    BY <2>13 DEF LoseConnection, Goes, GatewayInv, GatewayTypeOK, ThreadPhases,
                MainPhases, Boot, sinkVars, venueVars
  <2>14. CASE Reconnect
    BY <2>14 DEF Reconnect, Goes, GatewayInv, GatewayTypeOK, ThreadPhases,
                MainPhases, Boot, sinkVars, venueVars
  <2>15. CASE HandlerReturns
    BY <2>15 DEF HandlerReturns, Goes, GatewayInv, GatewayTypeOK, ThreadPhases,
                MainPhases, Boot, sinkVars, venueVars
  <2>16. CASE ConsumeEnds
    BY <2>16 DEF ConsumeEnds, Goes, GatewayInv, GatewayTypeOK, ThreadPhases,
                MainPhases, Boot, sinkVars, venueVars
  <2>17. CASE Consume
    <3>1. Head(queue) \in Entries /\ Tail(queue) \in Seq(Entries)
      BY <2>17 DEF Consume, GatewayInv, GatewayTypeOK
    <3> QED
      BY <2>17, <3>1 DEF Consume, GatewayInv, GatewayTypeOK, ThreadPhases,
                         MainPhases, venueVars
  <2>18. ASSUME NEW ch \in Channels, NEW data \in Payloads,
               Notification(ch, data)
        PROVE  GatewayInv'
    <3>1. /\ queue' \in Seq(Entries)
          /\ closed => queue' = queue
      BY <2>18, NotificationTakesOne DEF GatewayInv
    <3>2. session = "streaming" /\ UNCHANGED <<main, logging, session, closed, thread, handling>>
      BY <2>18 DEF Notification
    <3> QED
      BY <3>1, <3>2 DEF GatewayInv, GatewayTypeOK, ThreadPhases, MainPhases
  <2> QED
    BY <2>1, <2>2, <2>3, <2>4, <2>5, <2>6, <2>7, <2>8, <2>9, <2>10, <2>11, <2>12, <2>13, <2>14, <2>15, <2>16, <2>17, <2>18
       DEF GatewayNext, MainStep, Session, Consumer
<1> QED
  BY <1>1, <1>2, RegistryHoldsInGateway, PTL DEF GatewaySpec

(* Once shutdown_logging has been called no handler runs, and none can be  *)
(* called any more: the thread is joined, or there never was one, and what *)
(* the session still sends is refused by a closed queue.                   *)
THEOREM HandlersEndBeforeLogging == GatewaySpec => []LoggingOutlivesHandlers
<1>1. GatewayInv => LoggingOutlivesHandlers
  BY DEF GatewayInv, ThreadPhases, MainPhases, LoggingOutlivesHandlers
<1> QED
  BY <1>1, GatewayInvariant, PTL

(* By whichever path main returns, logging is down, the thread joined, and *)
(* nothing is queued or inside a handler.                                  *)
THEOREM MainCleansUp == GatewaySpec => []ReturnLeavesNothing
<1>1. GatewayInv => ReturnLeavesNothing
  BY DEF GatewayInv, ThreadPhases, MainPhases, ReturnLeavesNothing
<1> QED
  BY <1>1, GatewayInvariant, PTL

(* Every tick waiting or being shown is found under the instrument whose   *)
(* channel it came by: its id was bound to that channel when it was        *)
(* decoded, and the registry never changes what an id means.               *)
THEOREM TicksAreTheirInstruments == GatewaySpec => []TicksNameTheirInstrument
<1> DEFINE Named(entry) ==
               \E key \in Find(entry.tick.id) : ChannelFor(key) = {entry.via}
<1>1. GatewayInit => TicksNameTheirInstrument
  BY DEF GatewayInit, TicksNameTheirInstrument
<1>2. TypeOK /\ ChannelsRouteHome /\ GatewayInv /\ TicksNameTheirInstrument
          /\ [GatewayNext]_allVars => TicksNameTheirInstrument'
  <2> SUFFICES ASSUME TypeOK, ChannelsRouteHome, GatewayInv,
                      TicksNameTheirInstrument, [GatewayNext]_allVars
               PROVE  TicksNameTheirInstrument'
    OBVIOUS
  <2>1. TicksNameTheirInstrument = \A entry \in Held : Named(entry)
    BY DEF TicksNameTheirInstrument, Held
  <2>2. TicksNameTheirInstrument' = \A entry \in Held' : Named(entry)'
    BY DEF TicksNameTheirInstrument, Held
  <2>3. ASSUME UNCHANGED <<keys, slotById>>, Held' \subseteq Held
        PROVE  TicksNameTheirInstrument'
    <3>1. \A entry : Named(entry)' = Named(entry)
      BY <2>3 DEF Find
    <3> QED
      BY <2>1, <2>2, <2>3, <3>1
  <2>4. CASE BuildRow
    <3>1. main = "build" /\ UNCHANGED gatewayVars
      BY <2>4 DEF BuildRow
    <3>2. Held' = {}
      BY <3>1 DEF gatewayVars, GatewayInv, GatewayTypeOK, ThreadPhases,
                  MainPhases, Boot, Held
    <3> QED
      BY <2>2, <3>2
  <2>5. CASE EndBuild \/ Bind
    BY <2>3, <2>5 DEF EndBuild, FinishBuild, Bind, BindChannel, gatewayVars,
                     sinkVars, Held
  <2>6. ASSUME NEW ch \in Channels, NEW data \in Payloads,
               Notification(ch, data)
        PROVE  TicksNameTheirInstrument'
    <3>1. UNCHANGED <<vars, handling>>
      BY <2>6 DEF Notification
    <3>2. \A entry : Named(entry)' = Named(entry)
      BY <3>1 DEF vars, Find
    <3>3. ASSUME NEW entry \in Held'
          PROVE  \/ entry \in Held
                 \/ entry.via = ch /\ entry.tick.id \in ByChannel(ch)
      BY <2>6, <3>1, NotificationTakesOne DEF Held, GatewayInv
    <3>4. ASSUME NEW entry, entry.via = ch, entry.tick.id \in ByChannel(ch)
          PROVE  Named(entry)
      BY <3>4 DEF ByChannel, ChannelsRouteHome
    <3> HIDE DEF Named
    <3> QED
      BY <2>1, <2>2, <3>2, <3>3, <3>4
  <2>7. CASE Consume
    <3>1. /\ queue \in Seq(Entries) /\ queue # <<>>
          /\ handling' = {Head(queue)} /\ queue' = Tail(queue)
      BY <2>7 DEF Consume, GatewayInv, GatewayTypeOK
    <3>2. /\ Head(queue) \in {queue[i] : i \in DOMAIN queue}
          /\ \A i \in DOMAIN Tail(queue) : i + 1 \in DOMAIN queue
                                           /\ Tail(queue)[i] = queue[i + 1]
      BY <3>1
    <3>3. Held' \subseteq Held
      BY <3>1, <3>2 DEF Held
    <3> QED
      BY <2>3, <2>7, <3>3 DEF Consume, vars
  <2>8. CASE \/ ReadConfig \/ InitLogging \/ LoadRows \/ StartSink
             \/ StopSink \/ JoinSink \/ Report \/ ShutdownLogging \/ Return
             \/ Stream \/ LoseConnection \/ Reconnect \/ HandlerReturns
             \/ ConsumeEnds \/ UNCHANGED allVars
    <3>1. UNCHANGED <<vars, queue>> /\ handling' \subseteq handling
      BY <2>8 DEF ReadConfig, InitLogging, LoadRows, StartSink, StopSink,
                  JoinSink, Report, ShutdownLogging, Return, Stream,
                  LoseConnection, Reconnect, HandlerReturns, ConsumeEnds,
                  allVars, gatewayVars, sinkVars
    <3> QED
      BY <2>3, <3>1 DEF vars, Held
  <2> QED
    BY <2>4, <2>5, <2>6, <2>7, <2>8 DEF GatewayNext, MainStep, Session, Consumer
<1>3. GatewaySpec => [](TypeOK /\ ChannelsRouteHome)
  BY RegistryHoldsInGateway, PTL
<1> QED
  BY <1>1, <1>2, <1>3, GatewayInvariant, PTL DEF GatewaySpec

=============================================================================
