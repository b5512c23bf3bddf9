------------------------------ MODULE Decoding ------------------------------
(***************************************************************************)
(* The pure functions of the boundary, one input per state: rows of the    *)
(* database, texts of expiries, payloads of the venue, environments.  Each *)
(* is compared with a definition that does not work as the code does.      *)
(***************************************************************************)
EXTENDS InstrumentMapping, ExpiryDates, TickerCodec, Environment

CONSTANTS
    Rows,           \* the rows security_master may hold
    Texts,          \* the texts that may stand for an expiry
    Payloads,       \* the payloads the venue may send
    Environments    \* the environments the programs may be started in

(* The pieces a symbol may be made of.                                     *)
Pieces == DOMAIN ExpiryOf

(* A symbol is cut into one piece or more, and the nine letters of         *)
(* PERPETUAL are no date.                                                  *)
ASSUME RowsAssumption ==
    /\ DOMAIN NumberOf = Pieces
    /\ "PERPETUAL" \in Pieces => ExpiryOf["PERPETUAL"] = {}
    /\ \A row \in Rows : /\ row.symbol.under \in Underscores
                        /\ row.symbol.parts \in Seq(Pieces) \ {<<>>}

(* Day and year are an unsigned number each, or none; a year has two digits.*)
ASSUME TextsAssumption ==
    \A text \in Texts :
        /\ text.day \subseteq Nat /\ \A d, e \in text.day : d = e
        /\ text.year \subseteq 0..99 /\ \A y, z \in text.year : y = z

(* A payload has at most one value on each of the keys the codec reads.    *)
PayloadKeys == {"timestamp", "last_price", "price", "instrument_name"}
NumberTypes == {"int64", "uint64", "double"}

ASSUME PayloadsAssumption ==
    \A data \in Payloads :
        /\ DOMAIN data = PayloadKeys /\ data = [key \in PayloadKeys |-> data[key]]
        /\ \A key \in PayloadKeys : \A v, w \in data[key] : v = w
        /\ \A key \in PayloadKeys : \A v \in data[key] :
               v.type \in NumberTypes => v.n \in Int

(* An environment has at most one value for each variable; without a colon *)
(* POSTGRES_HOST has no text after it.                                     *)
Variables == Required \cup DOMAIN Defaults
GivenToPostgres == {"POSTGRES_DATABASE", "POSTGRES_USER", "POSTGRES_PASSWORD"}

ASSUME EnvironmentsAssumption ==
    \A env \in Environments :
        /\ DOMAIN env = Variables /\ env = [name \in Variables |-> env[name]]
        /\ \A name \in Variables : \A v, w \in env[name] : v = w
        /\ \A spec \in env.POSTGRES_HOST :
               /\ spec.host \in Seq(ConnPieces)
               /\ ~spec.colon => spec.port = NoText
        /\ \A name \in GivenToPostgres : env[name] \subseteq Seq(ConnPieces)
        /\ \A name \in Variables \ (GivenToPostgres \cup {"POSTGRES_HOST"}) :
               env[name] \subseteq Seq(STRING)

VARIABLE input

Is(kind) == input.kind = kind

Init ==
    \/ \E row \in Rows : input = [kind |-> "row", value |-> row]
    \/ \E text \in Texts : input = [kind |-> "expiry", value |-> text]
    \/ \E data \in Payloads : input = [kind |-> "payload", value |-> data]
    \/ \E env \in Environments :
           input = [kind |-> "environment", value |-> env]
Next == UNCHANGED input
Spec == Init /\ [][Next]_input
-----------------------------------------------------------------------------
(* Rows to identities. *)

Mapped == ToInstrumentKey(input.value)

(* Reference: the four forms model.hpp lists, written down as a grammar.   *)
Bases == Pieces \ {""}
Dates == {p \in Pieces : ExpiryOf[p] # {}}
Strikes == {p \in Pieces : \E n \in NumberOf[p] : n > 0}

Futures == Bases \X Dates
Options == Bases \X Dates \X Strikes \X {"C", "P"}

Forms(s) ==
    {k \in {"Index", "Perpetual", "Future", "Option"} :
        \/ k = "Index" /\ s.under = "inside"
        \/ k = "Perpetual" /\ s.under = "none"
           /\ s.parts \in Bases \X {"PERPETUAL"}
        \/ k = "Future" /\ s.under = "none" /\ s.parts \in Futures
        \/ k = "Option" /\ s.under = "none" /\ s.parts \in Options}

(* parse_symbol recognises exactly the four forms of an instrument name,   *)
(* each as its own kind, and gives no identity to a name alone.            *)
ParsesTheFourForms ==
    Is("row") =>
        /\ {k.kind : k \in ParseSymbol(input.value.symbol)}
               = Forms(input.value.symbol)
        /\ \A k \in ParseSymbol(input.value.symbol) : k.id = 0

(* A row that is mapped keeps the database's id, has a channel to be       *)
(* subscribed on, and is of the kind both its type column and its symbol   *)
(* say; a perpetual never gets through, whatever its type column claims.   *)
MappedRowsAgree ==
    Is("row") =>
        \A k \in Mapped :
            /\ k.id = input.value.instrument_id
            /\ k.symbol = input.value.symbol
            /\ Forms(k.symbol) = {k.kind}
            /\ <<input.value.instrument_type, k.kind>> \in
                   {<<"option", "Option">>, <<"future", "Future">>,
                    <<"currency", "Index">>}
            /\ ChannelFor(k) # {}

(* A strike belongs to an option only: a null from the LEFT JOIN leaves no *)
(* bogus strike on a future or the index, and a mapped option always has a *)
(* strike and an expiry, the database's wherever it has one.               *)
StrikesAndExpiries ==
    Is("row") =>
        \A k \in Mapped :
            LET row == input.value
            IN  /\ k.strike # {} <=> k.kind = "Option"
                /\ k.expiry # {} <=> k.kind # "Index"
                /\ k.kind = "Option" =>
                       /\ row.strike # {} => k.strike = row.strike
                       /\ row.option_type = {"put"} => k.right = "Put"
                       /\ row.option_type = {"call"} => k.right = "Call"
                /\ k.kind # "Index" /\ row.expiration # {} =>
                       k.expiry = row.expiration

(* InstrumentRepository.hpp:42-43: "Returns nullopt for a row that cannot  *)
(* be made sense of -- [...] an option missing its strike or right, a      *)
(* future missing its expiry."                                             *)
MissingColumnsAreRefused ==
    Is("row") =>
        LET row == input.value
        IN  \/ row.instrument_type = "option"
               /\ (row.strike = {} \/ row.option_type = {})
            \/ row.instrument_type = "future" /\ row.expiration = {}
            => Mapped = {}
-----------------------------------------------------------------------------
(* Texts to expiries. *)

(* Reference: a calendar of this century by the names of its months.       *)
MonthLengths ==
    [JAN |-> 31, FEB |-> 28, MAR |-> 31, APR |-> 30, MAY |-> 31, JUN |-> 30,
     JUL |-> 31, AUG |-> 31, SEP |-> 30, OCT |-> 31, NOV |-> 30, DEC |-> 31]
MonthAfter ==
    [JAN |-> "FEB", FEB |-> "MAR", MAR |-> "APR", APR |-> "MAY",
     MAY |-> "JUN", JUN |-> "JUL", JUL |-> "AUG", AUG |-> "SEP",
     SEP |-> "OCT", OCT |-> "NOV", NOV |-> "DEC"]

DaysIn(month, y) ==
    IF month = "FEB" /\ y % 4 = 0 THEN 29 ELSE MonthLengths[month]

DateText(d, month, y) ==
    [size |-> 7, day |-> {d}, month |-> month, year |-> {y}]

NamesADay(text) ==
    /\ text.size \in 6..7
    /\ text.month \in DOMAIN MonthLengths
    /\ \E d \in text.day, y \in text.year : d \in 1..DaysIn(text.month, y)

DayAfter(d, month, y) ==
    CASE d < DaysIn(month, y) -> DateText(d + 1, month, y)
      [] d = DaysIn(month, y) /\ month # "DEC" -> DateText(1, MonthAfter[month], y)
      [] OTHER -> DateText(1, "JAN", y + 1)

(* parse_expiry accepts the days of the calendar and nothing else, leap    *)
(* years and lengths of months included; 27JUN25 is 1751011200 seconds     *)
(* after the epoch (test_model.cpp), and from each day to the next it is 24*)
(* hours: so each text means 08:00 UTC of the day it names.                *)
ExpiriesAreVenueInstants ==
    Is("expiry") =>
        LET text == input.value
        IN  /\ ParseExpiry(text) # {} <=> NamesADay(text)
            /\ ParseExpiry(DateText(27, "JUN", 25))
                   = {1751011200 \div 3600}
            /\ NamesADay(text) =>
                   \A d \in text.day, y \in text.year :
                       y < 99 => ParseExpiry(DayAfter(d, text.month, y))
                                     = {h + 24 : h \in ParseExpiry(text)}
-----------------------------------------------------------------------------
(* Payloads to ticks. *)

IsNumber(value) == \E v \in value : v.type \in NumberTypes

TickerTicks(data) == DecodeTicker(data, 1, 0)
IndexTicks(data) == DecodeIndex(data, 1, 0)

(* A venue timestamp whose nanoseconds fit in 64 bits is widened exactly,  *)
(* whichever of its three number types Boost.JSON chose for it; a fraction *)
(* of a millisecond is cut off.                                            *)
FittingTimestampsAreExact ==
    Is("payload") =>
        \A v \in input.value.timestamp, ms \in 0..(MaxInt \div NanosPerMilli) :
            \/ v.type \in {"int64", "uint64"} /\ v.n = ms
            \/ v.type = "double" /\ v.n \in {2 * ms, 2 * ms + 1}
            => \A tick \in TickerTicks(input.value) \cup IndexTicks(input.value) :
                   tick.exchange_ts = ms * NanosPerMilli

(* A payload makes a tick if and only if it has a timestamp and the price  *)
(* of its channel, integer or not; no other field can change the tick, and *)
(* the field of the price is the one difference between the two decoders.  *)
TicksCarryTheirPrice ==
    Is("payload") =>
        LET data == input.value
        IN  /\ TickerTicks(data) # {} <=>
                   IsNumber(data.timestamp) /\ IsNumber(data.last_price)
            /\ \A tick \in TickerTicks(data), v \in data.last_price :
                   tick.price = IF v.type = "double" THEN v.n ELSE 2 * v.n
            /\ TickerTicks(data) =
                   TickerTicks([data EXCEPT !.price = {}, !.instrument_name = {}])
            /\ IndexTicks(data) = TickerTicks([data EXCEPT !.last_price = data.price])
            /\ InstrumentName(data) # {} <=>
                   \E v \in data.instrument_name : v.type = "string" /\ v.text # ""
-----------------------------------------------------------------------------
(* Environments to configurations. *)

Unset(env) ==
    [name \in DOMAIN env |-> env[name] \ {Nothing(name)}]

LevelOf(env) ==
    LET words == OptionalsOf(env).QUANT_LOG_LEVEL
    IN  LoggerLevel(IF Len(words) = 1 THEN words[1] ELSE "no level")

(* An environment the gateway starts in is one the ingest starts in, and   *)
(* both connect to the same database as the same user: Config::from_env    *)
(* accepts less than Settings.from_env, and reads no port otherwise.       *)
IngestRunsWhereGatewayDoes ==
    Is("environment") =>
        FromEnv(input.value).config \subseteq PyFromEnv(input.value)

(* To the gateway a variable set to nothing is one that is not set, in     *)
(* every place it is read; and no log level but "off" silences it.         *)
EmptyIsUnset ==
    Is("environment") =>
        LET env == input.value
        IN  /\ FromEnv(env) = FromEnv(Unset(env))
            /\ OptionalsOf(env) = OptionalsOf(Unset(env))
            /\ LevelOf(env) = "off" <=> env.QUANT_LOG_LEVEL = {<<"off">>}

(* The settings the text is made of. *)
MeantBy(c) ==
    [option \in ConnOptions |->
        CASE option = "host" -> {c.host}
          [] option = "port" -> {<<Digits(c.port)>>}
          [] option = "dbname" -> {c.dbname}
          [] option = "user" -> {c.user}
          [] option = "password" -> {c.password}
          [] OTHER -> {}]

(* A value that means itself without quotes around it. *)
NeedsNoQuotes(value) ==
    /\ value # <<>> /\ value[1] # Quote
    /\ \A i \in DOMAIN value : value[i] \notin {Blank, Backslash}

(* Nothing is quoted or escaped in the text postgres_conninfo makes, and   *)
(* libpq reads it as the settings it was made from exactly when none of    *)
(* them needs it.  Whatever else stands in a password, in a blank it may   *)
(* have or behind a quote: what it breaks, no later piece of it mends.     *)
ConninfoReadsBack ==
    Is("environment") =>
        \A c \in FromEnv(input.value).config :
            LibpqReads(Conninfo(c)) = {MeantBy(c)}
                <=> \A value \in {c.host, c.dbname, c.user, c.password} :
                        NeedsNoQuotes(value)

(* Config.cpp:72-75: "POSTGRES_HOST carries an optional ":port" suffix in  *)
(* this project -- Settings.from_env on the Python side partitions on ':'  *)
(* the same way. Two components disagreeing about the format of a shared   *)
(* variable is a needless failure mode."                                   *)
TwoReadersAgree ==
    Is("environment") =>
        (Missing(input.value) = {} =>
            FromEnv(input.value).config = PyFromEnv(input.value))

(* Config.hpp:46-47: "Throws std::runtime_error naming *every* missing     *)
(* variable in one message."                                               *)
EveryMissingNamed ==
    Is("environment") =>
        (FromEnv(input.value).config = {} =>
            Missing(input.value) \subseteq FromEnv(input.value).names)

=============================================================================
