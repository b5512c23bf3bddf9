------------------------------ MODULE Gateway -------------------------------
(***************************************************************************)
(* main.cpp from its first line to its last, and what meets in between: the*)
(* registry it builds, the codec, the sink's queue and thread, the handler *)
(* (ConsoleSink::on_tick) and the logging that the handler writes to.      *)
(*                                                                         *)
(* The sink's queue is taken at the level of LatestWindow, which the       *)
(* threaded queue implements: accepting, displacing and handing out are one*)
(* step each.  The session is external: main refers to one that is not in  *)
(* the tree, and what it does is taken from tests/test_deribit_session.cpp.*)
(***************************************************************************)
EXTENDS InstrumentRegistry, TickerCodec

CONSTANTS
    QueueCapacity,  \* kQueueCapacity
    MaxChannels,    \* the session's max_channels
    Payloads,       \* the payloads the venue may send
    MaxNotices,     \* bound on the notifications
    MaxDrops        \* bound on the lost connections

ASSUME SizesAssumption == QueueCapacity \in Nat \ {0} /\ MaxChannels \in Nat

VARIABLES
    main,           \* where main is
    logging,        \* "none", "up" between init and shutdown, "down"
    session,        \* "none", "subscribing", "streaming", "lost"
    queue,          \* the sink's queue: a tick and the channel it came on
    closed,         \* the queue is closed
    thread,         \* m_consumer: "none", "running", "ended", "joined"
    handling,       \* what the handler has been called with, at most one
    feedState,      \* m_feed_state
    notices,        \* how many notifications came
    drops           \* how many connections were lost

sinkVars == <<queue, closed, thread, handling, feedState>>
venueVars == <<session, notices, drops>>
gatewayVars == <<main, logging, session, queue, closed, thread, handling,
                 feedState, notices, drops>>
allVars == <<vars, gatewayVars>>

GatewayInit ==
    /\ Init
    /\ main = "config"
    /\ logging = "none"
    /\ session = "none"
    /\ queue = <<>>
    /\ closed = FALSE
    /\ thread = "none"
    /\ handling = {}
    /\ feedState = "Stale"
    /\ notices = 0
    /\ drops = 0
-----------------------------------------------------------------------------
(* main *)

Goes(from, to) == main = from /\ main' = to

(* from_env returns, or throws and main returns 1 with nothing set up. *)
ReadConfig ==
    /\ main = "config"
    /\ main' \in {"logging", "returned"}
    /\ UNCHANGED <<vars, logging, sinkVars, venueVars>>

InitLogging ==
    /\ Goes("logging", "load")
    /\ logging' = "up"
    /\ UNCHANGED <<vars, sinkVars, venueVars>>

(* InstrumentRepository::load returns rows, or throws. *)
LoadRows ==
    /\ main = "load"
    /\ main' \in {"build", "abandon"}
    /\ UNCHANGED <<vars, logging, sinkVars, venueVars>>

BuildRow ==
    /\ main = "build"
    /\ \E row \in Rows : RegisterRow(row)
    /\ UNCHANGED gatewayVars

EndBuild ==
    /\ main = "build"
    /\ FinishBuild
    /\ main' = IF phase' = "exited" THEN "abandon" ELSE "start"
    /\ UNCHANGED <<logging, sinkVars, venueVars>>

StartSink ==
    /\ Goes("start", "serving")
    /\ thread' = "running"
    /\ session' = "subscribing"
    /\ UNCHANGED <<vars, logging, queue, closed, handling, feedState, notices,
                   drops>>

(* Mutant of StopSink: the queue is left open. *)
StopSinkOpen ==
    /\ Goes("serving", "joining")
    /\ UNCHANGED <<vars, logging, sinkVars, venueVars>>

(* sink.stop: close, and then the join. *)
StopSink ==
    /\ Goes("serving", "joining")
    /\ closed' = TRUE
    /\ UNCHANGED <<vars, logging, queue, thread, handling, feedState, venueVars>>

(* Mutant of JoinSink: the thread is let go. *)
LetGo ==
    /\ Goes("joining", "report")
    /\ UNCHANGED <<vars, logging, sinkVars, venueVars>>

JoinSink ==
    /\ Goes("joining", "report")
    /\ thread = "ended"
    /\ thread' = "joined"
    /\ UNCHANGED <<vars, logging, queue, closed, handling, feedState, venueVars>>

Report ==
    /\ Goes("report", "shutdown")
    /\ UNCHANGED <<vars, logging, sinkVars, venueVars>>

(* Mutant of ShutdownLogging: not called where the boot is given up. *)
ShutdownAtTheEndOnly ==
    /\ main \in {"shutdown", "abandon"}
    /\ main' = "return"
    /\ logging' = IF main = "shutdown" THEN "down" ELSE logging
    /\ UNCHANGED <<vars, sinkVars, venueVars>>

ShutdownLogging ==
    /\ main \in {"shutdown", "abandon"}
    /\ main' = "return"
    /\ logging' = "down"
    /\ UNCHANGED <<vars, sinkVars, venueVars>>

(* The locals go, in the reverse of their order: the sink, whose destructor*)
(* stops it again, then the console, then the registry.                    *)
Return ==
    /\ Goes("return", "returned")
    /\ session' = "none"
    /\ closed' = TRUE
    /\ thread \in {"none", "joined", "ended"}
    /\ thread' = IF thread = "ended" THEN "joined" ELSE thread
    /\ UNCHANGED <<vars, logging, queue, handling, feedState, notices, drops>>
-----------------------------------------------------------------------------
(* The session, on the io thread. *)

(* The channels it asks for: the head of the registry's list, in one go.   *)
Wanted == SubSeq(SubscriptionOrder, 1,
                 IF Len(SubscriptionOrder) < MaxChannels
                 THEN Len(SubscriptionOrder) ELSE MaxChannels)

(* A channel the venue confirms is bound. *)
Bind ==
    /\ session = "subscribing"
    /\ \E i \in DOMAIN Wanted : BindChannel(Wanted[i])
    /\ UNCHANGED gatewayVars

Stream ==
    /\ session = "subscribing"
    /\ session' = "streaming"
    /\ feedState' = "Live"
    /\ UNCHANGED <<vars, main, logging, queue, closed, thread, handling,
                   notices, drops>>

(* on_tick, as LatestWindow accepts, supersedes and, once shut, refuses. *)
OnTick(entry) ==
    queue' = CASE closed -> queue
               [] ~closed /\ Len(queue) < QueueCapacity -> Append(queue, entry)
               [] OTHER -> Append(Tail(queue), entry)

(* The tick or ticks a payload on a channel may decode to. *)
TicksOf(ch, data) ==
    UNION {IF ch[1] = "ticker" THEN DecodeTicker(data, id, 0)
           ELSE DecodeIndex(data, id, 0) : id \in ByChannel(ch)}

Channels == UNION {ChannelFor(k) : k \in MappedKeys}

(* A notification: ignored on a channel nobody bound, dropped where the    *)
(* codec makes nothing of it, else given to the sink.                      *)
Notification(ch, data) ==
    /\ session = "streaming"
    /\ notices < MaxNotices
    /\ notices' = notices + 1
    /\ \/ TicksOf(ch, data) = {} /\ UNCHANGED queue
       \/ \E tick \in TicksOf(ch, data) : OnTick([tick |-> tick, via |-> ch])
    /\ UNCHANGED <<vars, main, logging, session, closed, thread, handling,
                   feedState, drops>>

(* The connection is lost: the sink is told, and the session starts over. *)
LoseConnection ==
    /\ session \in {"subscribing", "streaming"}
    /\ drops < MaxDrops
    /\ drops' = drops + 1
    /\ session' = "lost"
    /\ feedState' = "Stale"
    /\ UNCHANGED <<vars, main, logging, queue, closed, thread, handling, notices>>

Reconnect ==
    /\ session = "lost"
    /\ session' = "subscribing"
    /\ UNCHANGED <<vars, main, logging, sinkVars, notices, drops>>
-----------------------------------------------------------------------------
(* The consumer thread. *)

Consume ==
    /\ thread = "running"
    /\ handling = {}
    /\ queue # <<>>
    /\ handling' = {Head(queue)}
    /\ queue' = Tail(queue)
    /\ UNCHANGED <<vars, main, logging, closed, thread, feedState, venueVars>>

(* ConsoleSink::on_tick returns: it has looked the id up and logged a line.*)
HandlerReturns ==
    /\ handling # {}
    /\ handling' = {}
    /\ UNCHANGED <<vars, main, logging, queue, closed, thread, feedState,
                   venueVars>>

ConsumeEnds ==
    /\ thread = "running"
    /\ handling = {}
    /\ queue = <<>>
    /\ closed
    /\ thread' = "ended"
    /\ UNCHANGED <<vars, main, logging, queue, closed, handling, feedState,
                   venueVars>>
-----------------------------------------------------------------------------
MainStep ==
    \/ ReadConfig \/ InitLogging \/ LoadRows \/ BuildRow \/ EndBuild
    \/ StartSink \/ JoinSink \/ Report \/ ShutdownLogging \/ Return

Session ==
    \/ Bind
    \/ Stream
    \/ \E ch \in Channels, data \in Payloads : Notification(ch, data)
    \/ LoseConnection
    \/ Reconnect

Consumer == Consume \/ HandlerReturns \/ ConsumeEnds

GatewayNext == MainStep \/ StopSink \/ Session \/ Consumer

(* main goes on by itself but for its stay between start and stop, and the *)
(* consumer thread and the handler it runs go on.                          *)
GatewaySpec ==
    GatewayInit /\ [][GatewayNext]_allVars
        /\ WF_allVars(MainStep) /\ WF_allVars(Consumer)
-----------------------------------------------------------------------------
(* ConsoleSink::on_tick finds for each tick the instrument of the channel  *)
(* the tick came by: through mapping, registry, binding, codec and queue,  *)
(* after displacement and reconnects, a price is shown under its own name. *)
TicksNameTheirInstrument ==
    \A entry \in handling \cup {queue[i] : i \in DOMAIN queue} :
        \E key \in Find(entry.tick.id) : ChannelFor(key) = {entry.via}

(* The handler logs through spdlog, so no handler runs and no tick is left *)
(* that one could be called with once shutdown_logging has been called,    *)
(* whatever the session still sends.                                       *)
LoggingOutlivesHandlers ==
    logging = "down" => handling = {} /\ queue = <<>> /\ thread # "running"

(* However main returns, early or late, what it set up is taken down: the  *)
(* asynchronous logger has been flushed and shut down, the thread joined,  *)
(* no handler is still running and no tick is left behind in the queue.    *)
ReturnLeavesNothing ==
    main = "returned" =>
        /\ logging # "up"
        /\ thread \in {"none", "joined"}
        /\ handling = {} /\ queue = <<>>

(* The boot ends, with the gateway serving or the process gone, and once   *)
(* main stops the sink the process comes to its end, whatever is queued    *)
(* and whatever the session goes on sending.                               *)
BootAndShutdownEnd ==
    /\ main = "config" ~> main \in {"serving", "returned"}
    /\ main = "joining" ~> main = "returned"

=============================================================================
