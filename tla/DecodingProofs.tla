--------------------------- MODULE DecodingProofs ---------------------------
(* Theorems about Decoding, for any rows, texts, payloads and environments.*)
EXTENDS Decoding, InstrumentMappingProofs, KeptProofs

(* A list of pieces in a product, piece by piece.                          *)
LEMMA TwoPieces ==
    ASSUME NEW S, NEW p \in Seq(S), NEW A, NEW B
    PROVE  p \in A \X B <=> Len(p) = 2 /\ p[1] \in A /\ p[2] \in B
<1>1. ASSUME Len(p) = 2 PROVE p = <<p[1], p[2]>>
  BY <1>1
<1>2. ASSUME p \in A \X B PROVE Len(p) = 2 /\ p[1] \in A /\ p[2] \in B
  BY <1>2
<1> QED
  BY <1>1, <1>2

(* The same of four pieces.                                                *)
LEMMA FourPieces ==
    ASSUME NEW S, NEW p \in Seq(S), NEW A, NEW B, NEW C, NEW D
    PROVE  p \in A \X B \X C \X D <=>
               /\ Len(p) = 4 /\ p[1] \in A /\ p[2] \in B
               /\ p[3] \in C /\ p[4] \in D
<1>1. ASSUME Len(p) = 4 PROVE p = <<p[1], p[2], p[3], p[4]>>
  BY <1>1
<1>2. ASSUME p \in A \X B \X C \X D
      PROVE  /\ Len(p) = 4 /\ p[1] \in A /\ p[2] \in B
             /\ p[3] \in C /\ p[4] \in D
  BY <1>2
<1> QED
  BY <1>1, <1>2

(* The grammar, piece by piece, says what the tests of parse_symbol say.   *)
LEMMA GrammarIsTests ==
    ASSUME NEW s, s.parts \in Seq(Pieces) \ {<<>>}
    PROVE  /\ s.under = "none" /\ s.parts \in Bases \X {"PERPETUAL"}
                  <=> IsPerpetual(s)
           /\ s.under = "none" /\ s.parts \in Futures <=> IsFuture(s)
           /\ s.under = "none" /\ s.parts \in Options <=> IsOption(s)
<1> DEFINE p == s.parts
<1>0. p \in Seq(Pieces)
  OBVIOUS
<1>1. /\ p \in Bases \X {"PERPETUAL"}
             <=> Len(p) = 2 /\ p[1] \in Bases /\ p[2] = "PERPETUAL"
      /\ p \in Futures <=> Len(p) = 2 /\ p[1] \in Bases /\ p[2] \in Dates
  BY <1>0, TwoPieces DEF Futures
<1>2. p \in Options <=> /\ Len(p) = 4 /\ p[1] \in Bases /\ p[2] \in Dates
                        /\ p[3] \in Strikes /\ p[4] \in {"C", "P"}
  BY <1>0, FourPieces DEF Options
<1>3. p[1] \in Pieces /\ (Len(p) = 2 => p[2] \in Pieces)
      /\ (Len(p) = 4 => p[2] \in Pieces /\ p[3] \in Pieces)
  OBVIOUS
<1> HIDE DEF p
<1>4. HasPieces(s, 2) <=> s.under = "none" /\ Len(p) = 2 /\ p[1] # ""
  BY DEF HasPieces, p
<1>5. HasPieces(s, 4) <=> s.under = "none" /\ Len(p) = 4 /\ p[1] # ""
  BY DEF HasPieces, p
<1>6. IsPerpetual(s) <=> HasPieces(s, 2) /\ p[2] = "PERPETUAL"
  BY DEF IsPerpetual, p
<1>7. IsFuture(s) <=> HasPieces(s, 2) /\ p[2] # "PERPETUAL" /\ ExpiryOf[p[2]] # {}
  BY DEF IsFuture, p
<1>8. IsOption(s) <=> /\ HasPieces(s, 4) /\ ExpiryOf[p[2]] # {}
                      /\ \E strike \in NumberOf[p[3]] : strike > 0
                      /\ p[4] \in {"C", "P"}
  BY DEF IsOption, p
<1>9. p[1] \in Bases <=> p[1] # ""
  BY <1>3 DEF Bases
<1>10. Len(p) = 2 => (p[2] \in Dates <=> ExpiryOf[p[2]] # {} /\ p[2] # "PERPETUAL")
  BY <1>3, RowsAssumption DEF Dates
<1>11. Len(p) = 4 => /\ p[2] \in Dates <=> ExpiryOf[p[2]] # {}
                     /\ p[3] \in Strikes <=> \E strike \in NumberOf[p[3]] : strike > 0
  BY <1>3 DEF Dates, Strikes
<1>12. s.under = "none" /\ p \in Bases \X {"PERPETUAL"} <=> IsPerpetual(s)
  BY <1>1, <1>4, <1>6, <1>9
<1>13. s.under = "none" /\ p \in Futures <=> IsFuture(s)
  BY <1>1, <1>4, <1>7, <1>9, <1>10
<1>14. s.under = "none" /\ p \in Options <=> IsOption(s)
  BY <1>2, <1>5, <1>8, <1>9, <1>11
<1> QED
  BY <1>12, <1>13, <1>14 DEF p

(* So parse_symbol accepts the four forms and nothing else.                *)
LEMMA FourForms ==
    ASSUME NEW row \in Rows
    PROVE  {k.kind : k \in ParseSymbol(row.symbol)} = Forms(row.symbol)
<1> DEFINE s == row.symbol
<1>1. s.under \in Underscores /\ s.parts \in Seq(Pieces) \ {<<>>}
  BY RowsAssumption
<1> HIDE DEF s
<1>2. Forms(s) = {k \in {"Index", "Perpetual", "Future", "Option"} :
                     \/ k = "Index" /\ s.under = "inside"
                     \/ k = "Perpetual" /\ IsPerpetual(s)
                     \/ k = "Future" /\ IsFuture(s)
                     \/ k = "Option" /\ IsOption(s)}
  BY <1>1, GrammarIsTests DEF Forms
<1>3. \A k \in ParseSymbol(s) : k.kind \in Forms(s)
  BY <1>2, ParsedFields
<1>4. \A kind \in Forms(s) : \E k \in ParseSymbol(s) : k.kind = kind
  BY <1>2, FormsAreParsed
<1>5. {k.kind : k \in ParseSymbol(s)} = Forms(s)
  BY <1>3, <1>4
<1> QED
  BY <1>5 DEF s

(* An input is one of its universe, and stays what it is.                  *)
InputOK ==
    /\ Is("row") => input.value \in Rows
    /\ Is("expiry") => input.value \in Texts
    /\ Is("payload") => input.value \in Payloads
    /\ Is("environment") => input.value \in Environments

(* Every state's input is one of the universe given.                       *)
LEMMA InputsStay == Spec => []InputOK
<1>1. Init => InputOK
  BY DEF Init, InputOK, Is
<1>2. InputOK /\ [Next]_input => InputOK'
  BY DEF InputOK, Is, Next
<1> QED
  BY <1>1, <1>2, PTL DEF Spec

(* parse_symbol accepts the four forms of a name, and nothing else.        *)
THEOREM FourFormsOnly == Spec => []ParsesTheFourForms
<1>1. InputOK => ParsesTheFourForms
  BY FourForms, ParsedFields DEF InputOK, ParsesTheFourForms
<1> QED
  BY <1>1, InputsStay, PTL

(* Whatever row is mapped keeps its identity and is of one kind, by its    *)
(* type column and by its symbol.                                          *)
THEOREM RowsKeepIdentity == Spec => []MappedRowsAgree
<1>1. ASSUME NEW row \in Rows, NEW k \in ToInstrumentKey(row)
      PROVE  /\ k.id = row.instrument_id /\ k.symbol = row.symbol
             /\ Forms(k.symbol) = {k.kind}
             /\ <<row.instrument_type, k.kind>> \in
                    {<<"option", "Option">>, <<"future", "Future">>,
                     <<"currency", "Index">>}
             /\ ChannelFor(k) # {}
  <2>1. PICK parsed \in ParseSymbol(row.symbol) : k.kind = parsed.kind
    BY MappedFields
  <2>2. \A other \in ParseSymbol(row.symbol) : other = parsed
    BY DEF ParseSymbol
  <2>3. Forms(row.symbol) = {k.kind}
    BY <2>1, <2>2, FourForms
  <2>4. <<row.instrument_type, k.kind>> \in
            {<<"option", "Option">>, <<"future", "Future">>,
             <<"currency", "Index">>}
    BY MappedFields
  <2>5. ChannelFor(k) # {}
    BY <2>4 DEF ChannelFor
  <2> QED
    BY <2>3, <2>4, <2>5, MappedFields
<1>2. InputOK => MappedRowsAgree
  BY <1>1 DEF InputOK, MappedRowsAgree, Mapped
<1> QED
  BY <1>2, InputsStay, PTL

(* Strike, right and expiry of a mapped row are the database's where it has*)
(* them, the symbol's where not, and there exactly where the kind wants.   *)
THEOREM StrikesWhereTheyBelong == Spec => []StrikesAndExpiries
<1>1. ASSUME NEW row \in Rows, NEW k \in ToInstrumentKey(row)
      PROVE  /\ k.strike # {} <=> k.kind = "Option"
             /\ k.expiry # {} <=> k.kind # "Index"
             /\ k.kind = "Option" =>
                    /\ row.strike # {} => k.strike = row.strike
                    /\ row.option_type = {"put"} => k.right = "Put"
                    /\ row.option_type = {"call"} => k.right = "Call"
             /\ k.kind # "Index" /\ row.expiration # {} =>
                    k.expiry = row.expiration
  <2>1. PICK parsed \in ParseSymbol(row.symbol) :
            /\ k.kind = parsed.kind
            /\ \/ /\ k.kind = "Option"
                  /\ k.strike = OrElse(row.strike, parsed.strike)
                  /\ k.expiry = OrElse(row.expiration, parsed.expiry)
                  /\ row.option_type = {"call"} => k.right = "Call"
                  /\ row.option_type = {"put"} => k.right = "Put"
               \/ /\ k.kind = "Future" /\ k.strike = {}
                  /\ k.expiry = OrElse(row.expiration, parsed.expiry)
               \/ /\ k.kind = "Index" /\ k.strike = {}
                  /\ k.expiry = parsed.expiry
    BY MappedFields
  <2>2. /\ parsed.kind = "Option" => parsed.strike # {} /\ parsed.expiry # {}
        /\ parsed.kind = "Future" => parsed.expiry # {}
        /\ parsed.kind = "Index" => parsed.expiry = {}
    BY ParsedFields DEF IsOption, IsFuture
  <2> QED
    BY <2>1, <2>2 DEF OrElse
<1>2. InputOK => StrikesAndExpiries
  BY <1>1 DEF InputOK, StrikesAndExpiries, Mapped
<1> QED
  BY <1>2, InputsStay, PTL

(* The integers of Bits bits reach from MinInt to MaxInt, with 0 in it.    *)
LEMMA IntRange == MaxInt \in Nat /\ MinInt \in Int /\ MinInt < 0 /\ 0 \in Ints
<1> DEFINE half == 2^(Bits - 1)
<1>1. half \in Nat \ {0} /\ MaxInt = half - 1 /\ MinInt = 0 - half
  BY WidthAssumption DEF MaxInt, MinInt
<1> HIDE DEF half
<1> QED
  BY <1>1 DEF Ints

(* Milliseconds whose nanoseconds fit are themselves far from the edge.    *)
LEMMA FittingMillis ==
    ASSUME NEW ms \in 0..(MaxInt \div NanosPerMilli)
    PROVE  ms * NanosPerMilli \in 0..MaxInt /\ ms \in 0..MaxInt
<1> DEFINE q == MaxInt \div NanosPerMilli
           N == NanosPerMilli
           M == MaxInt
<1>1. N \in Nat \ {0} /\ M \in Nat
  BY WidthAssumption, IntRange
<1>2. q \in Nat /\ N * q <= M
  <2> HIDE DEF N, M
  <2> QED
    BY <1>1 DEF N, M
<1>3. ms \in Nat /\ ms <= q
  BY <1>2
<1> HIDE DEF q, N, M
<1>4. ms * N \in Nat /\ ms <= ms * N
  BY <1>1, <1>3
<1>5. ms * N <= N * q
  BY <1>1, <1>2, <1>3
<1>6. ms * N \in 0..M /\ ms \in 0..M
  BY <1>1, <1>2, <1>3, <1>4, <1>5
<1> QED
  BY <1>6 DEF N, M

(* Such a timestamp is widened to its nanoseconds and nothing else,        *)
(* whichever type its number has.                                          *)
LEMMA FittingIsExact ==
    ASSUME NEW data \in Payloads, NEW v \in data.timestamp,
           NEW ms \in 0..(MaxInt \div NanosPerMilli),
           \/ v.type \in {"int64", "uint64"} /\ v.n = ms
           \/ v.type = "double" /\ v.n \in {2 * ms, 2 * ms + 1}
    PROVE  TimestampMs(data) = {ms * NanosPerMilli}
<1>1. ms * NanosPerMilli \in Ints /\ ms \in 0..MaxInt /\ ms \in Ints
  BY FittingMillis, IntRange DEF Ints
<1>2. Millis(v) = {ms}
  <2>1. CASE v.type = "int64" /\ v.n = ms
    BY <2>1 DEF Millis
  <2>2. CASE v.type = "uint64" /\ v.n = ms
    <3>1. Wrap(ms) = ms
      BY <1>1, IntRange DEF Wrap
    <3> QED
      BY <2>2, <3>1 DEF Millis
  <2>3. CASE v.type = "double" /\ v.n \in {2 * ms, 2 * ms + 1}
    <3>1. Truncated(v.n) = ms
      BY <1>1, <2>3, IntRange DEF Truncated
    <3> QED
      BY <1>1, <2>3, <3>1 DEF Millis, InRangeOrAny
  <2> QED
    BY <2>1, <2>2, <2>3
<1>3. data.timestamp = {v}
  BY PayloadsAssumption DEF PayloadKeys
<1>4. InRangeOrAny(ms * NanosPerMilli) = {ms * NanosPerMilli}
  BY <1>1 DEF InRangeOrAny
<1> QED
  BY <1>2, <1>3, <1>4 DEF TimestampMs

(* A tick's time is the venue's, to the nanosecond, wherever it fits.      *)
THEOREM TimestampsAreExact == Spec => []FittingTimestampsAreExact
<1>1. ASSUME NEW data \in Payloads,
             NEW tick \in TickerTicks(data) \cup IndexTicks(data)
      PROVE  tick.exchange_ts \in TimestampMs(data)
  BY DEF TickerTicks, IndexTicks, DecodeTicker, DecodeIndex, DecodePriced
<1>2. InputOK => FittingTimestampsAreExact
  BY <1>1, FittingIsExact DEF InputOK, FittingTimestampsAreExact
<1> QED
  BY <1>2, InputsStay, PTL

(* Every number makes a timestamp, and nothing else does.                  *)
LEMMA NumbersAreTimes ==
    ASSUME NEW data \in Payloads
    PROVE  TimestampMs(data) # {} <=> IsNumber(data.timestamp)
<1>1. \A n : InRangeOrAny(n) # {}
  BY IntRange DEF InRangeOrAny
<1>2. \A v : Millis(v) # {} <=> v.type \in NumberTypes
  BY <1>1 DEF Millis, NumberTypes
<1>3. TimestampMs(data) # {} <=> \E v \in data.timestamp : Millis(v) # {}
  BY <1>1 DEF TimestampMs
<1> QED
  BY <1>2, <1>3 DEF IsNumber

(* Every number makes a price, its own, and nothing else does.             *)
LEMMA NumbersArePrices ==
    ASSUME NEW data \in Payloads, NEW key \in PayloadKeys
    PROVE  /\ NumberOrNan(data, key) # {} <=> IsNumber(data[key])
           /\ \A price \in NumberOrNan(data, key), v \in data[key] :
                  price = IF v.type = "double" THEN v.n ELSE 2 * v.n
<1>1. \A v, w \in data[key] : v = w
  BY PayloadsAssumption
<1> QED
  BY <1>1 DEF NumberOrNan, IsNumber, NumberTypes

(* Nothing but its timestamp and the price of its channel can make a tick, *)
(* change one or keep one from being made.                                 *)
THEOREM PricesArriveUnchanged == Spec => []TicksCarryTheirPrice
<1>1. ASSUME NEW data \in Payloads
      PROVE  /\ TickerTicks(data) # {} <=>
                     IsNumber(data.timestamp) /\ IsNumber(data.last_price)
             /\ \A tick \in TickerTicks(data), v \in data.last_price :
                    tick.price = IF v.type = "double" THEN v.n ELSE 2 * v.n
  <2>1. TickerTicks(data) =
            [id : {1}, exchange_ts : TimestampMs(data), recv_ts : {0},
             price : NumberOrNan(data, "last_price")]
    BY DEF TickerTicks, DecodeTicker, DecodePriced
  <2>2. TickerTicks(data) # {} <=>
            TimestampMs(data) # {} /\ NumberOrNan(data, "last_price") # {}
    <3>1. ASSUME NEW t \in TimestampMs(data),
                 NEW p \in NumberOrNan(data, "last_price")
          PROVE  [id |-> 1, exchange_ts |-> t, recv_ts |-> 0, price |-> p]
                     \in TickerTicks(data)
      BY <2>1
    <3>2. ASSUME NEW tick \in TickerTicks(data)
          PROVE  /\ tick.exchange_ts \in TimestampMs(data)
                 /\ tick.price \in NumberOrNan(data, "last_price")
      BY <2>1
    <3> QED
      BY <3>1, <3>2
  <2>3. \A tick \in TickerTicks(data) :
            tick.price \in NumberOrNan(data, "last_price")
    BY <2>1
  <2> QED
    BY <2>2, <2>3, NumbersAreTimes, NumbersArePrices DEF PayloadKeys
<1>2. ASSUME NEW data \in Payloads
      PROVE  /\ TickerTicks(data) =
                    TickerTicks([data EXCEPT !.price = {}, !.instrument_name = {}])
             /\ IndexTicks(data) = TickerTicks([data EXCEPT !.last_price = data.price])
  <2> DEFINE a == [data EXCEPT !.price = {}, !.instrument_name = {}]
             b == [data EXCEPT !.last_price = data.price]
  <2>1. /\ DOMAIN data = PayloadKeys
        /\ data = [key \in PayloadKeys |-> data[key]]
    BY PayloadsAssumption
  <2>2. a["timestamp"] = data["timestamp"] /\ a["last_price"] = data["last_price"]
    BY <2>1 DEF PayloadKeys
  <2>3. b["timestamp"] = data["timestamp"] /\ b["last_price"] = data["price"]
    BY <2>1 DEF PayloadKeys
  <2> HIDE DEF a, b
  <2>4. TickerTicks(data) = TickerTicks(a)
    BY <2>2 DEF TickerTicks, DecodeTicker, DecodePriced, TimestampMs, NumberOrNan
  <2>5. IndexTicks(data) = TickerTicks(b)
    BY <2>3 DEF TickerTicks, DecodeTicker, IndexTicks, DecodeIndex,
                DecodePriced, TimestampMs, NumberOrNan
  <2> QED
    BY <2>4, <2>5 DEF a, b
<1>3. ASSUME NEW data \in Payloads
      PROVE  InstrumentName(data) # {} <=>
                 \E v \in data.instrument_name : v.type = "string" /\ v.text # ""
  BY DEF InstrumentName, StringOrEmpty
<1>4. InputOK => TicksCarryTheirPrice
  BY <1>1, <1>2, <1>3 DEF InputOK, TicksCarryTheirPrice
<1> QED
  BY <1>4, InputsStay, PTL

(* read_env tells an empty variable from one that is not set in no way.    *)
LEMMA UnsetReadsSame ==
    ASSUME NEW env \in Environments, NEW name \in Variables
    PROVE  ReadEnv(Unset(env), name) = ReadEnv(env, name)
<1>1. Unset(env)[name] = env[name] \ {Nothing(name)}
  BY EnvironmentsAssumption DEF Unset
<1> QED
  BY <1>1 DEF ReadEnv

(* What read_env_or gives where a variable is set.                         *)
LEMMA ReadsWhatIsSet ==
    ASSUME NEW env, NEW name, NEW fallback, ReadEnv(env, name) # {}
    PROVE  ReadEnvOr(env, name, fallback) \in ReadEnv(env, name)
BY DEF ReadEnvOr

(* Nor does read_env_or, fallback or not.                                  *)
LEMMA UnsetReadsSameOr ==
    ASSUME NEW env \in Environments, NEW name \in Variables, NEW fallback
    PROVE  ReadEnvOr(Unset(env), name, fallback) = ReadEnvOr(env, name, fallback)
<1>1. CASE ReadEnv(env, name) = {}
  BY <1>1, UnsetReadsSame DEF ReadEnvOr
<1>2. CASE ReadEnv(env, name) # {}
  <2>1. \A v, w \in ReadEnv(env, name) : v = w
    BY EnvironmentsAssumption DEF ReadEnv
  <2>2. /\ ReadEnvOr(Unset(env), name, fallback) \in ReadEnv(env, name)
        /\ ReadEnvOr(env, name, fallback) \in ReadEnv(env, name)
    BY <1>2, UnsetReadsSame, ReadsWhatIsSet
  <2> QED
    BY <2>1, <2>2
<1> QED
  BY <1>1, <1>2

(* The gateway takes a variable set to nothing for one that is not set,    *)
(* wherever it reads one; only "off" turns the log off.                    *)
THEOREM EmptyMeansUnset == Spec => []EmptyIsUnset
<1>1. ASSUME NEW env \in Environments
      PROVE  FromEnv(env) = FromEnv(Unset(env))
  <2>1. Required \subseteq Variables
    BY DEF Variables
  <2>2. Missing(Unset(env)) = Missing(env)
    BY <2>1, UnsetReadsSame DEF Missing
  <2>3. \A name \in Required : \A fallback :
            ReadEnvOr(Unset(env), name, fallback) = ReadEnvOr(env, name, fallback)
    BY <2>1, UnsetReadsSameOr
  <2>4. \A spec, port : PostgresOf(Unset(env), spec, port) = PostgresOf(env, spec, port)
    BY <2>3 DEF PostgresOf, Required
  <2>5. ReadEnvOr(Unset(env), "POSTGRES_HOST", NoSpec)
            = ReadEnvOr(env, "POSTGRES_HOST", NoSpec)
    BY <2>3 DEF Required
  <2> QED
    BY <2>2, <2>4, <2>5 DEF FromEnv
<1>2. ASSUME NEW env \in Environments
      PROVE  OptionalsOf(env) = OptionalsOf(Unset(env))
  BY UnsetReadsSameOr DEF OptionalsOf, Variables
<1>3. ASSUME NEW env \in Environments
      PROVE  LevelOf(env) = "off" <=> env.QUANT_LOG_LEVEL = {<<"off">>}
  <2> DEFINE words == OptionalsOf(env).QUANT_LOG_LEVEL
             level == IF Len(words) = 1 THEN words[1] ELSE "no level"
  <2>1. /\ \A v, w \in env.QUANT_LOG_LEVEL : v = w
        /\ env.QUANT_LOG_LEVEL \subseteq Seq(STRING)
    <3>1. /\ "QUANT_LOG_LEVEL" \in Variables
          /\ "QUANT_LOG_LEVEL" \notin GivenToPostgres \cup {"POSTGRES_HOST"}
      BY DEF Variables, Defaults, GivenToPostgres
    <3> QED
      BY <3>1, EnvironmentsAssumption
  <2>2. words = ReadEnvOr(env, "QUANT_LOG_LEVEL", <<"info">>)
    BY DEF OptionalsOf, Defaults
  <2>3. ReadEnv(env, "QUANT_LOG_LEVEL") = env.QUANT_LOG_LEVEL \ {<<>>}
    BY DEF ReadEnv, Nothing
  <2>4. LevelOf(env) = "off" <=> level = "off"
    BY DEF LevelOf, LoggerLevel, LevelFromStr, SpdlogLevels
  <2> HIDE DEF words
  <2>5. words = <<"info">> \/ words \in Seq(STRING)
    <3>1. CASE ReadEnv(env, "QUANT_LOG_LEVEL") = {}
      BY <2>2, <3>1 DEF ReadEnvOr
    <3>2. CASE ReadEnv(env, "QUANT_LOG_LEVEL") # {}
      <4>1. words \in ReadEnv(env, "QUANT_LOG_LEVEL")
        BY <2>2, <3>2, ReadsWhatIsSet
      <4>2. ReadEnv(env, "QUANT_LOG_LEVEL") \subseteq Seq(STRING)
        BY <2>1 DEF ReadEnv
      <4> QED
        BY <4>1, <4>2
    <3> QED
      BY <3>1, <3>2
  <2>6. level = "off" <=> words = <<"off">>
    <3>1. CASE words = <<"info">>
      BY <3>1
    <3>2. CASE words \in Seq(STRING)
      BY <3>2
    <3> QED
      BY <2>5, <3>1, <3>2
  <2>7. words = <<"off">> <=> env.QUANT_LOG_LEVEL = {<<"off">>}
    <3>1. <<"off">> # <<>> /\ <<"off">> # <<"info">>
      OBVIOUS
    <3> QED
      BY <2>1, <2>2, <2>3, <3>1 DEF ReadEnvOr
  <2> QED
    BY <2>4, <2>6, <2>7
<1>4. InputOK => EmptyIsUnset
  BY <1>1, <1>2, <1>3 DEF InputOK, EmptyIsUnset
<1> QED
  BY <1>4, InputsStay, PTL

(* from_chars takes digits, and nothing before or behind them.             *)
LEMMA FromCharsDigits ==
    ASSUME NEW text, NEW n \in FromChars16(text)
    PROVE  n \in text.number /\ text.lead = "" /\ text.trail = ""
<1>1. CASE text.lead = "" /\ text.trail = ""
  BY <1>1 DEF FromChars16
<1>2. CASE ~(text.lead = "" /\ text.trail = "")
  BY <1>2 DEF FromChars16
<1> QED
  BY <1>1, <1>2

(* Wherever the gateway starts, the ingest starts too, and both talk to the*)
(* same database: the ingest reads no other host, port, name or user.      *)
THEOREM GatewayImpliesIngest == Spec => []IngestRunsWhereGatewayDoes
<1>1. ASSUME NEW env \in Environments, NEW c \in FromEnv(env).config
      PROVE  c \in PyFromEnv(env)
  <2> DEFINE spec == ReadEnvOr(env, "POSTGRES_HOST", NoSpec)
  <2>1. /\ Missing(env) = {}
        /\ \E p \in PortOf(spec) : c = PostgresOf(env, spec, p)
    BY DEF FromEnv
  <2>2. PICK p \in PortOf(spec) : c = PostgresOf(env, spec, p)
    BY <2>1
  <2>3. \A name \in Required : \A fallback :
            ReadEnvOr(env, name, fallback) \in ReadEnv(env, name)
    BY <2>1, ReadsWhatIsSet DEF Missing
  <2>4. \A name \in Required : ReadEnv(env, name) \subseteq env[name]
    BY DEF ReadEnv
  <2>5. spec \in env["POSTGRES_HOST"]
    BY <2>3, <2>4 DEF Required
  <2> HIDE DEF spec
  <2>6. p \in PyPort(spec)
    <3>1. CASE spec.colon
      <4>0. p \in FromChars16(spec.port)
        BY <3>1 DEF PortOf
      <4>1. p \in spec.port.number /\ spec.port.lead = "" /\ spec.port.trail = ""
        BY <4>0, FromCharsDigits
      <4>2. spec.port # NoText
        <5>1. NoText.number = {}
          BY DEF NoText
        <5> QED
          BY <4>1, <5>1
      <4>3. p \in PyInt(spec.port)
        BY <4>1 DEF PyInt
      <4> QED
        BY <4>2, <4>3 DEF PyPort
    <3>2. CASE ~spec.colon
      BY <2>2, <2>5, <3>2, EnvironmentsAssumption DEF PortOf, PyPort
    <3> QED
      BY <3>1, <3>2
  <2>7. /\ ReadEnvOr(env, "POSTGRES_DATABASE", <<>>) \in env["POSTGRES_DATABASE"]
        /\ ReadEnvOr(env, "POSTGRES_USER", <<>>) \in env["POSTGRES_USER"]
        /\ ReadEnvOr(env, "POSTGRES_PASSWORD", <<>>) \in env["POSTGRES_PASSWORD"]
    BY <2>3, <2>4 DEF Required
  <2> QED
    BY <2>2, <2>5, <2>6, <2>7 DEF PyFromEnv, PostgresOf
<1>2. InputOK => IngestRunsWhereGatewayDoes
  BY <1>1 DEF InputOK, IngestRunsWhereGatewayDoes
<1> QED
  BY <1>2, InputsStay, PTL

(* The calendar of std::chrono, from month to month and from year to year. *)
LEMMA MonthsFollow ==
    ASSUME NEW y \in Nat, NEW m \in 1..11
    PROVE  DaysBeforeMonth(y, m + 1) = DaysBeforeMonth(y, m) + LastDay(y, m)
<1>1. m \in {1, 2, 3, 4, 5, 6, 7, 8, 9, 10, 11}
  OBVIOUS
<1> QED
  BY <1>1 DEF DaysBeforeMonth, LastDay

(* The days before a year, from one year to the next.                      *)
LEMMA YearsFollow ==
    ASSUME NEW y \in Nat \ {0}
    PROVE  DaysBeforeYear(y + 1) = DaysBeforeYear(y) + DaysBeforeMonth(y, 12) + 31
<1>1. \A k \in {4, 100, 400} :
          y \div k = (y - 1) \div k + (IF y % k = 0 THEN 1 ELSE 0)
  OBVIOUS
<1>2. DaysBeforeMonth(y, 12) = 336 - (IF IsLeap(y) THEN 1 ELSE 2)
  BY DEF DaysBeforeMonth
<1>3. (y % 100 = 0 => y % 4 = 0) /\ (y % 400 = 0 => y % 100 = 0)
  OBVIOUS
<1> QED
  BY <1>1, <1>2, <1>3 DEF DaysBeforeYear, IsLeap

(* The days of the century, one after the other.                           *)
LEMMA DaysFollow ==
    ASSUME NEW y \in Nat \ {0}, NEW m \in 1..12, NEW e \in Nat
    PROVE  /\ SysDays(y, m, e + 1) = SysDays(y, m, e) + 1
           /\ m < 12 => SysDays(y, m + 1, 1) = SysDays(y, m, LastDay(y, m)) + 1
           /\ SysDays(y + 1, 1, 1) = SysDays(y, 12, 31) + 1
<1>1. /\ DaysBeforeYear(y) \in Int /\ DaysBeforeYear(1970) \in Int
      /\ DaysBeforeMonth(y, m) \in Int /\ DaysBeforeMonth(y, 12) \in Int
      /\ LastDay(y, m) \in Int /\ DaysBeforeMonth(y + 1, 1) = 0
  BY DEF DaysBeforeYear, DaysBeforeMonth, LastDay
<1>2. SysDays(y, m, e + 1) = SysDays(y, m, e) + 1
  BY <1>1 DEF SysDays
<1>3. m < 12 => SysDays(y, m + 1, 1) = SysDays(y, m, LastDay(y, m)) + 1
  <2>1. m < 12 => DaysBeforeMonth(y, m + 1) = DaysBeforeMonth(y, m) + LastDay(y, m)
    BY MonthsFollow
  <2> QED
    BY <1>1, <2>1 DEF SysDays
<1>4. SysDays(y + 1, 1, 1) = SysDays(y, 12, 31) + 1
  BY <1>1, YearsFollow DEF SysDays
<1> QED
  BY <1>2, <1>3, <1>4

(* The names of the months, with their numbers.                            *)
LEMMA MonthNumbers ==
    /\ MonthFromName("JAN") = {1} /\ MonthFromName("FEB") = {2}
    /\ MonthFromName("MAR") = {3} /\ MonthFromName("APR") = {4}
    /\ MonthFromName("MAY") = {5} /\ MonthFromName("JUN") = {6}
    /\ MonthFromName("JUL") = {7} /\ MonthFromName("AUG") = {8}
    /\ MonthFromName("SEP") = {9} /\ MonthFromName("OCT") = {10}
    /\ MonthFromName("NOV") = {11} /\ MonthFromName("DEC") = {12}
    /\ DOMAIN MonthLengths = {"JAN", "FEB", "MAR", "APR", "MAY", "JUN", "JUL",
                              "AUG", "SEP", "OCT", "NOV", "DEC"}
    /\ \A name : name \notin DOMAIN MonthLengths => MonthFromName(name) = {}
<1>1. DOMAIN Months = 1..12
  BY DEF Months
<1>2. 1..12 = {1, 2, 3, 4, 5, 6, 7, 8, 9, 10, 11, 12}
  OBVIOUS
<1>3. /\ Months[1] = "JAN" /\ Months[2] = "FEB" /\ Months[3] = "MAR"
      /\ Months[4] = "APR" /\ Months[5] = "MAY" /\ Months[6] = "JUN"
      /\ Months[7] = "JUL" /\ Months[8] = "AUG" /\ Months[9] = "SEP"
      /\ Months[10] = "OCT" /\ Months[11] = "NOV" /\ Months[12] = "DEC"
  BY DEF Months
<1>4. DOMAIN MonthLengths = {"JAN", "FEB", "MAR", "APR", "MAY", "JUN", "JUL",
                             "AUG", "SEP", "OCT", "NOV", "DEC"}
  BY DEF MonthLengths
<1>5. \A name : \A n \in MonthFromName(name) : n \in 1..12 /\ Months[n] = name
  BY <1>1 DEF MonthFromName
<1>6. \A n \in 1..12 : n \in MonthFromName(Months[n])
  BY <1>1 DEF MonthFromName
<1>7. \A n, k \in 1..12 : Months[n] = Months[k] => n = k
  BY <1>2, <1>3
<1>8. \A n \in 1..12 : MonthFromName(Months[n]) = {n}
  BY <1>5, <1>6, <1>7
<1>9. \A n \in 1..12 : Months[n] \in DOMAIN MonthLengths
  BY <1>2, <1>3, <1>4
<1>10. \A name : name \notin DOMAIN MonthLengths => MonthFromName(name) = {}
  BY <1>5, <1>9
<1> QED
  BY <1>2, <1>3, <1>4, <1>8, <1>10

(* Month m of year Y is the month of that name in the reference calendar:   *)
(* it has that calendar's length, and that calendar's month after it.      *)
IsMonth(m, month, y, Y) ==
    /\ MonthFromName(month) = {m}
    /\ DaysIn(month, y) = LastDay(Y, m)
    /\ LastDay(Y, m) \in 28..31
    /\ (month = "DEC") = (m = 12)
    /\ m < 12 => MonthFromName(MonthAfter[month]) = {m + 1}
    /\ m = 12 => LastDay(Y, m) = 31

(* Month by month, the reference calendar of the century is the calendar.  *)
LEMMA SameCalendar ==
    ASSUME NEW month \in DOMAIN MonthLengths, NEW y \in 0..99,
           NEW Y, Y = 2000 + y
    PROVE  \E m \in 1..12 : IsMonth(m, month, y, Y)
<1> USE DEF IsMonth
<1>1. IsLeap(Y) <=> y % 4 = 0
  BY DEF IsLeap
<1>2. LastDay(Y, 2) = IF y % 4 = 0 THEN 29 ELSE 28
  BY <1>1 DEF LastDay
<1>3. \A m \in {1, 3, 5, 7, 8, 10, 12} : LastDay(Y, m) = 31
  BY DEF LastDay
<1>4. \A m \in {4, 6, 9, 11} : LastDay(Y, m) = 30
  BY DEF LastDay
<1>5. /\ MonthLengths["FEB"] = 28
      /\ \A name \in {"JAN", "MAR", "MAY", "JUL", "AUG", "OCT", "DEC"} :
            MonthLengths[name] = 31
      /\ \A name \in {"APR", "JUN", "SEP", "NOV"} : MonthLengths[name] = 30
  BY DEF MonthLengths
<1>6. DaysIn("FEB", y) = LastDay(Y, 2)
  BY <1>2, <1>5 DEF DaysIn
<1>7. \A name : name # "FEB" => DaysIn(name, y) = MonthLengths[name]
  BY DEF DaysIn
<1>8. /\ MonthAfter["JAN"] = "FEB" /\ MonthAfter["FEB"] = "MAR"
      /\ MonthAfter["MAR"] = "APR" /\ MonthAfter["APR"] = "MAY"
      /\ MonthAfter["MAY"] = "JUN" /\ MonthAfter["JUN"] = "JUL"
      /\ MonthAfter["JUL"] = "AUG" /\ MonthAfter["AUG"] = "SEP"
      /\ MonthAfter["SEP"] = "OCT" /\ MonthAfter["OCT"] = "NOV"
      /\ MonthAfter["NOV"] = "DEC"
  BY DEF MonthAfter
<1>9. CASE month = "FEB"
  BY <1>2, <1>6, <1>8, <1>9, MonthNumbers
<1>10. CASE month \in {"JAN", "MAR", "MAY", "JUL", "AUG", "OCT", "DEC"}
  BY <1>3, <1>5, <1>7, <1>8, <1>10, MonthNumbers
<1>11. CASE month \in {"APR", "JUN", "SEP", "NOV"}
  BY <1>4, <1>5, <1>7, <1>8, <1>11, MonthNumbers
<1> QED
  BY <1>9, <1>10, <1>11, MonthNumbers

(* What parse_expiry makes of a text with a day, a month and a year.       *)
LEMMA ParsedDate ==
    ASSUME NEW text, text.size \in 6..7, NEW e \in Int, NEW y \in Int,
           NEW m \in Int, text.day = {e}, text.year = {y},
           NEW Y \in Int, Y = 2000 + y,
           MonthFromName(text.month) = {m}
    PROVE  ParseExpiry(text) =
               IF IsDate(Y, m, e)
               THEN {24 * SysDays(Y, m, e) + kDeribitExpiryHourUtc} ELSE {}
<1>1. text.day \X MonthFromName(text.month) \X text.year = {<<e, m, y>>}
  OBVIOUS
<1>2. {x \in text.day \X MonthFromName(text.month) \X text.year :
          IsDate(2000 + x[3], x[2], x[1])}
          = IF IsDate(Y, m, e) THEN {<<e, m, y>>} ELSE {}
  BY <1>1
<1> DEFINE dates == {x \in text.day \X MonthFromName(text.month) \X text.year :
                         IsDate(2000 + x[3], x[2], x[1])}
<1>3. ParseExpiry(text) =
          {24 * SysDays(2000 + x[3], x[2], x[1]) + kDeribitExpiryHourUtc :
              x \in dates}
  BY DEF ParseExpiry
<1> HIDE DEF dates
<1>4. CASE IsDate(Y, m, e)
  <2>1. dates = {<<e, m, y>>}
    BY <1>2, <1>4 DEF dates
  <2> QED
    BY <1>3, <1>4, <2>1
<1>5. CASE ~IsDate(Y, m, e)
  <2>1. dates = {}
    BY <1>2, <1>5 DEF dates
  <2> QED
    BY <1>3, <1>5, <2>1
<1> QED
  BY <1>4, <1>5

(* 27JUN25 is the instant test_model.cpp has for it.                       *)
LEMMA TestedExpiry == ParseExpiry(DateText(27, "JUN", 25)) = {1751011200 \div 3600}
<1>1. SysDays(2025, 6, 27) = 20266
  <2>1. DaysBeforeYear(2025) - DaysBeforeYear(1970) = 20089
    BY DEF DaysBeforeYear
  <2>2. DaysBeforeMonth(2025, 6) = 151
    BY DEF DaysBeforeMonth, IsLeap
  <2>3. DaysBeforeYear(2025) \in Int /\ DaysBeforeYear(1970) \in Int
    BY DEF DaysBeforeYear
  <2> QED
    BY <2>1, <2>2, <2>3 DEF SysDays
<1>2. IsDate(2025, 6, 27)
  BY DEF IsDate, LastDay
<1>3. 24 * 20266 + kDeribitExpiryHourUtc = 1751011200 \div 3600
  BY DEF kDeribitExpiryHourUtc
<1> DEFINE text == DateText(27, "JUN", 25)
<1>4. /\ text.size \in 6..7 /\ text.day = {27} /\ text.year = {25}
      /\ text.month = "JUN"
  BY DEF DateText
<1> HIDE DEF text
<1>5. 2025 = 2000 + 25
  OBVIOUS
<1>6. ParseExpiry(text) =
          IF IsDate(2025, 6, 27)
          THEN {24 * SysDays(2025, 6, 27) + kDeribitExpiryHourUtc} ELSE {}
  BY <1>4, <1>5, MonthNumbers, ParsedDate
<1> QED
  BY <1>1, <1>2, <1>3, <1>6 DEF text

(* Two instants of the same hour, a day apart.                             *)
LEMMA DayApart ==
    ASSUME NEW x \in Int, NEW z, z = x + 1
    PROVE  {24 * z + kDeribitExpiryHourUtc}
               = {h + 24 : h \in {24 * x + kDeribitExpiryHourUtc}}
<1>1. 24 * z + kDeribitExpiryHourUtc = (24 * x + kDeribitExpiryHourUtc) + 24
  BY DEF kDeribitExpiryHourUtc
<1> QED
  BY <1>1

(* The hour a day of this century expires at.                              *)
Century(y) == 2000 + y
HourOf(Y, m, e) == 24 * SysDays(Y, m, e) + kDeribitExpiryHourUtc

(* The text is cut into this day, this month and this year.                *)
Names(text, e, month, y) ==
    /\ text.size \in 6..7
    /\ text.day = {e} /\ text.month = month /\ text.year = {y}

(* The text of a day names it.                                             *)
LEMMA DateFields ==
    ASSUME NEW e, NEW month, NEW y
    PROVE  Names(DateText(e, month, y), e, month, y)
  BY DEF DateText, Names

(* A text that names a day of the calendar is parsed as that day.          *)
LEMMA ParsedDay ==
    ASSUME NEW text, NEW e \in Int, NEW month, NEW y \in Int, NEW m \in Int,
           Names(text, e, month, y), MonthFromName(month) = {m}
    PROVE  ParseExpiry(text) = IF IsDate(Century(y), m, e)
                               THEN {HourOf(Century(y), m, e)} ELSE {}
<1> DEFINE Y == Century(y)
<1>1. /\ text.size \in 6..7 /\ text.day = {e} /\ text.year = {y}
      /\ MonthFromName(text.month) = {m}
  BY DEF Names
<1>2. Y \in Int /\ Y = 2000 + y
  BY DEF Century
<1> HIDE DEF Y
<1>3. ParseExpiry(text) =
          IF IsDate(Y, m, e)
          THEN {24 * SysDays(Y, m, e) + kDeribitExpiryHourUtc} ELSE {}
  BY <1>1, <1>2, ParsedDate
<1>4. ParseExpiry(text) = IF IsDate(Y, m, e) THEN {HourOf(Y, m, e)} ELSE {}
  BY <1>3 DEF HourOf
<1> QED
  BY <1>4 DEF Y

(* From a day of the century to the next it is 24 hours.                   *)
LEMMA NextDay ==
    ASSUME NEW month \in DOMAIN MonthLengths, NEW y \in 0..98,
           NEW e \in 1..DaysIn(month, y), NEW text, Names(text, e, month, y)
    PROVE  ParseExpiry(DayAfter(e, month, y))
               = {h + 24 : h \in ParseExpiry(text)}
<1> DEFINE Y == Century(y)
<1>1. y \in 0..99 /\ y \in Int /\ Y \in Int /\ Y = 2000 + y
  BY DEF Century
<1>2. PICK m \in 1..12 : IsMonth(m, month, y, Y)
  <2> HIDE DEF Y
  <2> QED
    BY <1>1, SameCalendar
<1>3. /\ MonthFromName(month) = {m} /\ m \in Int
      /\ e \in 1..LastDay(Y, m) /\ e \in Int /\ LastDay(Y, m) \in 28..31
      /\ (month = "DEC") = (m = 12)
  BY <1>2 DEF IsMonth
<1>4. SysDays(Y, m, e) \in Int
  <2> HIDE DEF Y
  <2> QED
    BY <1>1, <1>3 DEF SysDays, DaysBeforeYear, DaysBeforeMonth
<1>5. ParseExpiry(text) = {HourOf(Y, m, e)}
  <2>1. IsDate(Y, m, e)
    BY <1>3 DEF IsDate
  <2> QED
    BY <1>1, <1>3, <2>1, ParsedDay
<1>6. /\ SysDays(Y, m, e + 1) = SysDays(Y, m, e) + 1
      /\ m < 12 => SysDays(Y, m + 1, 1) = SysDays(Y, m, LastDay(Y, m)) + 1
      /\ SysDays(Y + 1, 1, 1) = SysDays(Y, 12, 31) + 1
  <2> HIDE DEF Y
  <2> QED
    BY <1>1, <1>3, DaysFollow, SMTT(30)
<1>7. ASSUME NEW Z, NEW n, NEW f, SysDays(Z, n, f) = SysDays(Y, m, e) + 1,
             ParseExpiry(DayAfter(e, month, y)) = {HourOf(Z, n, f)}
      PROVE  ParseExpiry(DayAfter(e, month, y))
                 = {h + 24 : h \in ParseExpiry(text)}
  <2> HIDE DEF Y
  <2>1. {HourOf(Z, n, f)} = {h + 24 : h \in {HourOf(Y, m, e)}}
    BY <1>4, <1>7, DayApart DEF HourOf
  <2> QED
    BY <1>5, <1>7, <2>1
<1>8. CASE e < DaysIn(month, y)
  <2>1. PICK f \in Int : f = e + 1
    BY <1>3
  <2>2. DayAfter(e, month, y) = DateText(f, month, y)
    BY <1>8, <2>1 DEF DayAfter
  <2>3. IsDate(Y, m, f)
    BY <1>2, <1>3, <1>8, <2>1 DEF IsDate, IsMonth
  <2>4. ParseExpiry(DayAfter(e, month, y)) = {HourOf(Y, m, f)}
    BY <1>1, <1>3, <2>2, <2>3, DateFields, ParsedDay
  <2> QED
    BY <1>6, <1>7, <2>1, <2>4
<1>9. CASE e = DaysIn(month, y) /\ month # "DEC"
  <2>1. PICK n \in Int : n = m + 1
    BY <1>3
  <2>2. /\ m < 12 /\ e = LastDay(Y, m)
        /\ MonthFromName(MonthAfter[month]) = {n}
    BY <1>2, <1>3, <1>9, <2>1 DEF IsMonth
  <2>3. DayAfter(e, month, y) = DateText(1, MonthAfter[month], y)
    BY <1>1, <1>3, <1>9, <2>2 DEF DayAfter
  <2>4. IsDate(Y, n, 1)
    BY DEF IsDate, LastDay
  <2>5. ParseExpiry(DayAfter(e, month, y)) = {HourOf(Y, n, 1)}
    BY <1>1, <2>2, <2>3, <2>4, DateFields, ParsedDay
  <2> QED
    BY <1>6, <1>7, <2>1, <2>2, <2>5
<1>10. CASE e = DaysIn(month, y) /\ month = "DEC"
  <2>1. PICK z \in Int : z = y + 1
    BY <1>1
  <2>2. m = 12 /\ e = 31
    BY <1>2, <1>3, <1>10 DEF IsMonth
  <2>3. DayAfter(e, month, y) = DateText(1, "JAN", z)
    BY <1>1, <1>10, <2>1, <2>2 DEF DayAfter
  <2>4. IsDate(Century(z), 1, 1) /\ Century(z) = Y + 1
    BY <1>1, <2>1 DEF IsDate, LastDay, Century
  <2>5. MonthFromName("JAN") = {1}
    BY MonthNumbers
  <2>6. ParseExpiry(DayAfter(e, month, y)) = {HourOf(Century(z), 1, 1)}
    BY <2>3, <2>4, <2>5, DateFields, ParsedDay
  <2>7. SysDays(Century(z), 1, 1) = SysDays(Y, m, e) + 1
    BY <1>6, <2>2, <2>4
  <2> QED
    BY <1>7, <2>6, <2>7
<1> QED
  BY <1>2, <1>3, <1>8, <1>9, <1>10 DEF IsMonth

(* Days of the calendar and nothing else, each 24 hours after the one      *)
(* before, from one whose instant is known: the whole century, in every    *)
(* text that names a day of it.                                            *)
THEOREM ExpiriesAreTheDays == Spec => []ExpiriesAreVenueInstants
<1>1. ASSUME NEW text \in Texts
      PROVE  ParseExpiry(text) # {} <=> NamesADay(text)
  <2>1. CASE /\ text.size \in 6..7 /\ text.month \in DOMAIN MonthLengths
             /\ text.day # {} /\ text.year # {}
    <3>1. PICK e \in Nat, y \in 0..99 : text.day = {e} /\ text.year = {y}
      <4>1. PICK e \in text.day, y \in text.year : TRUE
        BY <2>1
      <4>2. e \in Nat /\ y \in 0..99
        BY TextsAssumption
      <4>3. text.day = {e}
        BY TextsAssumption
      <4>4. text.year = {y}
        BY TextsAssumption
      <4> QED
        BY <4>2, <4>3, <4>4
    <3>2. PICK m \in 1..12 : IsMonth(m, text.month, y, Century(y))
      <4>1. text.month \in DOMAIN MonthLengths /\ Century(y) = 2000 + y
        BY <2>1 DEF Century
      <4> QED
        BY <3>1, <4>1, SameCalendar
    <3>3. ParseExpiry(text) # {} <=> IsDate(Century(y), m, e)
      <4>1. Names(text, e, text.month, y)
        BY <2>1, <3>1 DEF Names
      <4>2. MonthFromName(text.month) = {m} /\ e \in Int /\ y \in Int /\ m \in Int
        BY <3>1, <3>2 DEF IsMonth
      <4> QED
        BY <4>1, <4>2, ParsedDay
    <3>4. NamesADay(text) <=> e \in 1..DaysIn(text.month, y)
      BY <2>1, <3>1 DEF NamesADay
    <3> QED
      BY <3>2, <3>3, <3>4 DEF IsDate, IsMonth
  <2>2. CASE text.size \notin 6..7
    BY <2>2 DEF ParseExpiry, NamesADay
  <2>3. CASE text.month \notin DOMAIN MonthLengths \/ text.day = {} \/ text.year = {}
    <3>1. text.day \X MonthFromName(text.month) \X text.year = {}
      BY <2>3, MonthNumbers
    <3>2. {x \in text.day \X MonthFromName(text.month) \X text.year :
              IsDate(2000 + x[3], x[2], x[1])} = {}
      BY <3>1
    <3>3. ParseExpiry(text) = {}
      BY <3>2 DEF ParseExpiry
    <3> QED
      BY <2>3, <3>3 DEF NamesADay
  <2> QED
    BY <2>1, <2>2, <2>3
<1>2. ASSUME NEW text \in Texts, NamesADay(text),
             NEW e \in text.day, NEW y \in text.year, y < 99
      PROVE  ParseExpiry(DayAfter(e, text.month, y))
                 = {h + 24 : h \in ParseExpiry(text)}
  <2>1. text.month \in DOMAIN MonthLengths /\ text.size \in 6..7
    BY <1>2 DEF NamesADay
  <2>2. text.day = {e} /\ text.year = {y}
    BY TextsAssumption
  <2>3. y \in 0..98
    <3>1. y \in 0..99
      BY TextsAssumption
    <3> QED
      BY <1>2, <3>1
  <2>4. e \in 1..DaysIn(text.month, y)
    BY <1>2, <2>2 DEF NamesADay
  <2>5. Names(text, e, text.month, y)
    BY <2>1, <2>2 DEF Names
  <2> QED
    BY <2>1, <2>3, <2>4, <2>5, NextDay, ZenonT(60)
<1>3. InputOK => ExpiriesAreVenueInstants
  BY <1>1, <1>2, TestedExpiry DEF InputOK, ExpiriesAreVenueInstants
<1> QED
  BY <1>3, InputsStay, PTL
-----------------------------------------------------------------------------
(* libpq's reader: its states, and one step of it. *)

Modes == {"name", "start", "value", "escape", "quoted", "quotedEscape",
          "error"}
Readers == [mode : Modes, open : SUBSET ConnOptions, value : Seq(ConnPieces),
            set : [ConnOptions -> SUBSET Seq(ConnPieces)]]

InValue == Modes \ {"name", "error"}

(* A reader has one option open while it is in a value, nothing of a value *)
(* before it, and at most one value for each option.                       *)
ReaderOK(r) ==
    /\ r \in Readers
    /\ r.mode \in InValue => \E k \in ConnOptions : r.open = {k}
    /\ r.mode \in {"name", "start"} => r.value = <<>>
    /\ \A k \in ConnOptions : \A u, v \in r.set[k] : u = v

(* The sorts of steps there are. *)
Skips(r, q) == r.mode \in {"name", "start"} /\ q = r
Opens(r, q) ==
    r.mode = "name" /\ \E k \in ConnOptions :
        q = [r EXCEPT !.mode = "start", !.open = {k}]
Turns(r, q) ==
    r.mode \in InValue /\ \E m \in {"quoted", "escape", "quotedEscape"} :
        q = Goes(r, m)
Stores(r, q) == r.mode \in InValue /\ q = Stored(r)
TakesOne(r, q) ==
    r.mode \in InValue /\ \E m \in {"value", "quoted"}, piece \in ConnPieces :
        q = Takes(r, piece, m)

(* The kinds of the pieces tell them apart. *)
LEMMA KindsOfPieces ==
    ASSUME NEW p \in ConnPieces
    PROVE  /\ p.kind = "blank" <=> p = Blank
           /\ p.kind = "backslash" <=> p = Backslash
           /\ p.kind = "quote" <=> p = Quote
           /\ p.kind = "name" => p.name \in ConnOptions
           /\ p.kind \in {"blank", "backslash", "quote", "name", "digits", "text"}
BY DEF ConnPieces, Blank, Backslash, Quote

(* A step is of one of these sorts, or is the error of text in the place of*)
(* a name.                                                                 *)
LEMMA ReadCases ==
    ASSUME NEW r, ReaderOK(r), NEW p \in ConnPieces
    PROVE  LET q == ReadPiece(r, p)
           IN  \/ r.mode = "error" /\ q = r
               \/ r.mode = "name" /\ q = Goes(r, "error")
               \/ Skips(r, q) \/ Opens(r, q) \/ Turns(r, q)
               \/ Stores(r, q) \/ TakesOne(r, q)
<1> DEFINE q == ReadPiece(r, p)
<1>0. r.mode \in Modes
  BY DEF ReaderOK, Readers
<1>1. CASE r.mode = "error"
  BY <1>1 DEF ReadPiece
<1>2. CASE r.mode = "name"
  <2>1. CASE p.kind = "blank"
    <3>1. q = r
      BY <1>2, <2>1 DEF ReadPiece
    <3> QED
      BY <1>2, <3>1 DEF Skips
  <2>2. CASE p.kind = "name"
    <3>1. q = [r EXCEPT !.mode = "start", !.open = {p.name}]
      BY <1>2, <2>2 DEF ReadPiece
    <3> QED
      BY <1>2, <2>2, <3>1, KindsOfPieces DEF Opens
  <2>3. CASE p.kind \notin {"blank", "name"}
    <3>1. q = Goes(r, "error")
      BY <1>2, <2>3 DEF ReadPiece
    <3> QED
      BY <1>2, <3>1
  <2> QED
    BY <2>1, <2>2, <2>3
<1>3. CASE r.mode = "start"
  <2>1. q = r \/ q = Goes(r, "quoted") \/ q = Goes(r, "escape")
            \/ q = Takes(r, p, "value")
    BY <1>3 DEF ReadPiece
  <2> QED
    BY <1>3, <2>1 DEF Skips, Turns, TakesOne, InValue, Modes
<1>4. CASE r.mode = "value"
  <2>1. q = Stored(r) \/ q = Goes(r, "escape") \/ q = Takes(r, p, "value")
    BY <1>4 DEF ReadPiece
  <2> QED
    BY <1>4, <2>1 DEF Stores, Turns, TakesOne, InValue, Modes
<1>5. CASE r.mode = "quoted"
  <2>1. q = Stored(r) \/ q = Goes(r, "quotedEscape") \/ q = Takes(r, p, "quoted")
    BY <1>5 DEF ReadPiece
  <2> QED
    BY <1>5, <2>1 DEF Stores, Turns, TakesOne, InValue, Modes
<1>6. CASE r.mode \in {"escape", "quotedEscape"}
  <2>1. q = Takes(r, p, "value") \/ q = Takes(r, p, "quoted")
    BY <1>6 DEF ReadPiece
  <2> QED
    BY <1>6, <2>1 DEF TakesOne, InValue, Modes
<1> QED
  BY <1>0, <1>1, <1>2, <1>3, <1>4, <1>5, <1>6 DEF Modes

(* What storing does to the settings. *)
LEMMA StoredSet ==
    ASSUME NEW r, ReaderOK(r), NEW k \in ConnOptions, r.open = {k}
    PROVE  /\ Stored(r).set \in [ConnOptions -> SUBSET Seq(ConnPieces)]
           /\ Stored(r).set[k] = {r.value}
           /\ \A j \in ConnOptions \ {k} : Stored(r).set[j] = r.set[j]
           /\ ReaderOK(Stored(r)) /\ Stored(r).mode = "name"
<1> DEFINE set == [j \in ConnOptions |-> IF j \in r.open THEN {r.value}
                                         ELSE r.set[j]]
<1>1. /\ set \in [ConnOptions -> SUBSET Seq(ConnPieces)]
      /\ set[k] = {r.value}
      /\ \A j \in ConnOptions \ {k} : set[j] = r.set[j]
  BY DEF ReaderOK, Readers
<1>2. \A j \in ConnOptions : \A u, v \in set[j] : u = v
  BY <1>1 DEF ReaderOK
<1> HIDE DEF set
<1>3. Stored(r) = [mode |-> "name", open |-> {}, value |-> <<>>, set |-> set]
  BY DEF Stored, set
<1>4. ReaderOK(Stored(r))
  BY <1>1, <1>2, <1>3 DEF ReaderOK, Readers, Modes, InValue
<1> QED
  BY <1>1, <1>3, <1>4

(* So a reader stays one. *)
LEMMA ReaderStep ==
    ASSUME NEW r, ReaderOK(r), NEW p \in ConnPieces
    PROVE  ReaderOK(ReadPiece(r, p))
<1> PICK q : q = ReadPiece(r, p)
  OBVIOUS
<1> SUFFICES ReaderOK(q)
  OBVIOUS
<1>1. CASE q = r
  BY <1>1
<1>2. CASE q = Goes(r, "error")
  BY <1>2 DEF Goes, ReaderOK, Readers, Modes, InValue
<1>3. CASE Opens(r, q)
  <2>1. PICK k \in ConnOptions : q = [r EXCEPT !.mode = "start", !.open = {k}]
    BY <1>3 DEF Opens
  <2>2. r.mode = "name"
    BY <1>3 DEF Opens
  <2> QED
    <3>1. r \in Readers /\ r.value = <<>>
      BY <2>2 DEF ReaderOK
    <3>2. {k} \in SUBSET ConnOptions /\ "start" \in Modes
      BY DEF Modes
    <3>3. /\ q \in Readers /\ q.mode = "start" /\ q.open = {k}
          /\ q.value = <<>> /\ q.set = r.set
      BY <2>1, <3>1, <3>2 DEF Readers
    <3> QED
      BY <3>3 DEF ReaderOK
<1>4. CASE Turns(r, q)
  <2>1. PICK m \in {"quoted", "escape", "quotedEscape"} : q = Goes(r, m)
    BY <1>4 DEF Turns
  <2>2. r.mode \in InValue
    BY <1>4 DEF Turns
  <2> QED
    BY <2>1, <2>2 DEF Goes, ReaderOK, Readers, Modes, InValue
<1>5. CASE Stores(r, q)
  <2>1. \E k \in ConnOptions : r.open = {k}
    BY <1>5 DEF Stores, ReaderOK
  <2> QED
    BY <1>5, <2>1, StoredSet DEF Stores
<1>6. CASE TakesOne(r, q)
  <2>1. PICK m \in {"value", "quoted"}, piece \in ConnPieces :
          q = Takes(r, piece, m)
    BY <1>6 DEF TakesOne
  <2>2. r.mode \in InValue /\ r.value \in Seq(ConnPieces)
    BY <1>6 DEF TakesOne, ReaderOK, Readers
  <2>3. Append(r.value, piece) \in Seq(ConnPieces)
    BY <2>2
  <2> QED
    BY <2>1, <2>2, <2>3 DEF Takes, ReaderOK, Readers, Modes, InValue
<1>7. Skips(r, q) => q = r
  BY DEF Skips
<1> QED
  BY <1>1, <1>2, <1>3, <1>4, <1>5, <1>6, <1>7, ReadCases

(* What a reader has in hand, counted in the pieces it took to say it: an  *)
(* option that is set costs its name, its value and a piece behind it.     *)
ValueIn(values) == CHOOSE value : value \in values
Size(values) == IF values = {} THEN 0 ELSE 2 + Len(ValueIn(values))
Sum(set) == Size(set["host"]) + Size(set["port"]) + Size(set["dbname"])
                + Size(set["user"]) + Size(set["password"]) + Size(set["other"])
Pending(r) == IF r.mode = "name" THEN 0 ELSE 1 + Len(r.value)
Weight(r) == Sum(r.set) + Pending(r)

(* The cost of the settings is a natural; of one that is there, 2 at least.*)
LEMMA Sizes ==
    /\ Size({}) = 0
    /\ \A value \in Seq(ConnPieces) : Size({value}) = 2 + Len(value)
    /\ \A values \in SUBSET Seq(ConnPieces) :
           Size(values) \in Nat /\ (values # {} => Size(values) >= 2)
<1>1. Size({}) = 0
  BY DEF Size
<1>2. ASSUME NEW values \in SUBSET Seq(ConnPieces), values # {}
      PROVE  Size(values) \in Nat /\ Size(values) >= 2
  <2>1. ValueIn(values) \in values
    BY <1>2, Zenon DEF ValueIn
  <2>2. Len(ValueIn(values)) \in Nat
    BY <2>1
  <2> QED
    BY <1>2, <2>2 DEF Size
<1>3. ASSUME NEW value \in Seq(ConnPieces)
      PROVE  Size({value}) = 2 + Len(value)
  <2>1. ValueIn({value}) = value
    BY Zenon DEF ValueIn
  <2> QED
    BY <2>1 DEF Size
<1> QED
  BY <1>1, <1>2, <1>3

(* Setting one option changes the sum by what that option cost and costs.  *)
LEMMA SumWithOne ==
    ASSUME NEW f, NEW g, NEW k \in ConnOptions,
           \A j \in ConnOptions : Size(f[j]) \in Int /\ Size(g[j]) \in Int,
           \A j \in ConnOptions \ {k} : g[j] = f[j]
    PROVE  Sum(g) = Sum(f) - Size(f[k]) + Size(g[k])
<1> HIDE DEF Size
<1> DEFINE a == "host" b == "port" c == "dbname" d == "user" e == "password"
           o == "other"
<1>1. ConnOptions = {a, b, c, d, e, o}
  BY DEF ConnOptions
<1>2. \A j \in ConnOptions \ {k} : Size(g[j]) = Size(f[j])
  OBVIOUS
<1>3. /\ k # a => Size(g[a]) = Size(f[a])
      /\ k # b => Size(g[b]) = Size(f[b])
      /\ k # c => Size(g[c]) = Size(f[c])
      /\ k # d => Size(g[d]) = Size(f[d])
      /\ k # e => Size(g[e]) = Size(f[e])
      /\ k # o => Size(g[o]) = Size(f[o])
  BY <1>1, <1>2
<1>4. \A x \in {f, g} : /\ Size(x[a]) \in Int /\ Size(x[b]) \in Int
                        /\ Size(x[c]) \in Int /\ Size(x[d]) \in Int
                        /\ Size(x[e]) \in Int /\ Size(x[o]) \in Int
  BY <1>1
<1>5. k = a \/ k = b \/ k = c \/ k = d \/ k = e \/ k = o
  BY <1>1
<1> QED
  BY <1>3, <1>4, <1>5 DEF Sum

(* Storing costs one piece more, less what the option cost before.         *)
LEMMA StoredSum ==
    ASSUME NEW r, ReaderOK(r), r.mode \in InValue,
           NEW k \in ConnOptions, r.open = {k}
    PROVE  Sum(Stored(r).set) = Weight(r) + 1 - Size(r.set[k])
<1> DEFINE set == Stored(r).set
<1>1. /\ set \in [ConnOptions -> SUBSET Seq(ConnPieces)]
      /\ set[k] = {r.value}
      /\ \A j \in ConnOptions \ {k} : set[j] = r.set[j]
  BY StoredSet
<1>2. r.set \in [ConnOptions -> SUBSET Seq(ConnPieces)]
      /\ r.value \in Seq(ConnPieces)
  BY DEF ReaderOK, Readers
<1> HIDE DEF set
<1>3. \A j \in ConnOptions : Size(r.set[j]) \in Int /\ Size(set[j]) \in Int
  BY <1>1, <1>2, Sizes
<1>4. Sum(set) = Sum(r.set) - Size(r.set[k]) + Size(set[k])
  <2> PICK f : f = r.set
    OBVIOUS
  <2>1. \A j \in ConnOptions : Size(f[j]) \in Int /\ Size(set[j]) \in Int
    BY <1>3
  <2>2. \A j \in ConnOptions \ {k} : set[j] = f[j]
    BY <1>1
  <2>3. Sum(set) = Sum(f) - Size(f[k]) + Size(set[k])
    BY ONLY <2>1, <2>2, SumWithOne, k \in ConnOptions
  <2> QED
    BY <2>3
<1>5. Size(set[k]) = 2 + Len(r.value) /\ Len(r.value) \in Nat
  BY <1>1, <1>2, Sizes
<1>6. Sum(r.set) \in Int
  BY <1>3 DEF Sum, ConnOptions
<1>7. Weight(r) = Sum(r.set) + 1 + Len(r.value)
  <2>1. r.mode # "name"
    BY DEF InValue
  <2> QED
    BY <1>5, <1>6, <2>1 DEF Weight, Pending
<1>8. Size(r.set[k]) \in Int
  BY <1>3
<1> QED
  BY <1>4, <1>5, <1>6, <1>7, <1>8 DEF set

(* The weight of a reader is a natural. *)
LEMMA WeightType ==
    ASSUME NEW r, ReaderOK(r)
    PROVE  Weight(r) \in Nat /\ Sum(r.set) \in Nat /\ Len(r.value) \in Nat
<1>1. /\ r.set \in [ConnOptions -> SUBSET Seq(ConnPieces)]
      /\ r.value \in Seq(ConnPieces)
  BY DEF ReaderOK, Readers
<1>2. \A j \in ConnOptions : Size(r.set[j]) \in Nat
  BY <1>1, Sizes
<1>3. Sum(r.set) \in Nat
  BY <1>2 DEF Sum, ConnOptions
<1>4. Len(r.value) \in Nat
  BY <1>1
<1> QED
  BY <1>3, <1>4 DEF Weight, Pending

(* No step weighs more than the piece it reads; a step that turns or skips *)
(* weighs nothing, and one that stores over a value loses weight.          *)
LEMMA WeightStep ==
    ASSUME NEW r, ReaderOK(r), NEW p \in ConnPieces,
           ReadPiece(r, p).mode # "error"
    PROVE  /\ Weight(ReadPiece(r, p)) <= Weight(r) + 1
           /\ Stores(r, ReadPiece(r, p)) =>
                  \A k \in r.open :
                      r.set[k] # {} => Weight(ReadPiece(r, p)) < Weight(r)
<1> PICK q : q = ReadPiece(r, p)
  OBVIOUS
<1> DEFINE Goal == /\ Weight(q) <= Weight(r) + 1
                   /\ Stores(r, q) => \A k \in r.open :
                          r.set[k] # {} => Weight(q) < Weight(r)
<1> SUFFICES Goal
  OBVIOUS
<1>0. /\ Weight(r) \in Nat /\ Sum(r.set) \in Nat /\ Len(r.value) \in Nat
      /\ r \in Readers
  BY WeightType DEF ReaderOK
<1>1. CASE Stores(r, q)
  <2>1. r.mode \in InValue /\ q = Stored(r)
    BY <1>1 DEF Stores
  <2>2. PICK k \in ConnOptions : r.open = {k}
    BY <2>1 DEF ReaderOK
  <2>3. Weight(q) = Sum(q.set)
    <3>1. q.mode = "name" /\ Sum(q.set) \in Nat
      BY <2>1, <2>2, StoredSet, WeightType
    <3> QED
      BY <3>1 DEF Weight, Pending
  <2>4. Sum(q.set) = Weight(r) + 1 - Size(r.set[k])
    BY <2>1, <2>2, StoredSum
  <2>5. Size(r.set[k]) \in Nat /\ (r.set[k] # {} => Size(r.set[k]) >= 2)
    <3>1. r.set[k] \in SUBSET Seq(ConnPieces)
      BY <1>0 DEF Readers
    <3> QED
      BY <3>1, Sizes
  <2>6. Weight(q) <= Weight(r) + 1 /\ (r.set[k] # {} => Weight(q) < Weight(r))
    BY <1>0, <2>3, <2>4, <2>5
  <2> QED
    BY <2>2, <2>6
<1>2. CASE ~Stores(r, q)
  <2>0. SUFFICES Weight(q) <= Weight(r) + 1
    BY <1>2
  <2>1. CASE q = r
    BY <1>0, <2>1
  <2>2. CASE Opens(r, q)
    <3>1. PICK k \in ConnOptions : q = [r EXCEPT !.mode = "start", !.open = {k}]
      BY <2>2 DEF Opens
    <3>2. r.mode = "name" /\ r.value = <<>>
      BY <2>2 DEF Opens, ReaderOK
    <3>3. q.set = r.set /\ q.mode = "start" /\ q.value = r.value
      BY <1>0, <3>1 DEF Readers
    <3>4. Len(q.value) = 0
      BY <3>2, <3>3
    <3> QED
      BY <1>0, <3>2, <3>3, <3>4 DEF Weight, Pending
  <2>3. CASE Turns(r, q)
    <3>1. PICK m \in {"quoted", "escape", "quotedEscape"} : q = Goes(r, m)
      BY <2>3 DEF Turns
    <3>2. q.set = r.set /\ q.mode = m /\ q.value = r.value /\ r.mode # "name"
      BY <1>0, <2>3, <3>1 DEF Readers, Goes, Turns, InValue
    <3> QED
      BY <1>0, <3>1, <3>2 DEF Weight, Pending
  <2>4. CASE TakesOne(r, q)
    <3>1. PICK m \in {"value", "quoted"}, piece \in ConnPieces :
            q = Takes(r, piece, m)
      BY <2>4 DEF TakesOne
    <3>2. /\ q.set = r.set /\ q.mode = m /\ r.mode # "name"
          /\ q.value = Append(r.value, piece)
      BY <1>0, <2>4, <3>1 DEF Readers, Takes, TakesOne, InValue
    <3>3. Len(q.value) = Len(r.value) + 1
      BY <1>0, <3>2 DEF Readers
    <3> QED
      BY <1>0, <3>1, <3>2, <3>3 DEF Weight, Pending
  <2>5. q.mode # "error" /\ q # Goes(r, "error")
    <3>1. Goes(r, "error").mode = "error"
      BY <1>0 DEF Goes, Readers
    <3> QED
      BY <3>1
  <2>6. r.mode = "error" => q = r
    BY DEF ReadPiece
  <2> QED
    BY <1>2, <2>1, <2>2, <2>3, <2>4, <2>5, ReadCases DEF Skips
<1> QED
  BY <1>1, <1>2
-----------------------------------------------------------------------------
(* Lost: in error, behind the pieces it has read, or with a value set that *)
(* is not the one meant.                                                   *)
Lost(r, i, meant) ==
    \/ r.mode = "error"
    \/ Weight(r) < i
    \/ \E k \in ConnOptions : \E value \in r.set[k] : value \notin meant[k]

Abreast(r, i) == r.mode = "error" \/ Weight(r) <= i

(* The reader has read the first i pieces: it never weighs more than they. *)
LEMMA AbreastStep ==
    ASSUME NEW r, ReaderOK(r), NEW p \in ConnPieces, NEW i \in Nat,
           Abreast(r, i)
    PROVE  Abreast(ReadPiece(r, p), i + 1)
<1> PICK q : q = ReadPiece(r, p)
  OBVIOUS
<1> SUFFICES ASSUME q.mode # "error" PROVE Weight(q) <= i + 1
  BY DEF Abreast
<1>1. ReaderOK(q) /\ Weight(q) <= Weight(r) + 1
  BY ReaderStep, WeightStep
<1>2. r.mode # "error"
  BY DEF ReadPiece
<1>3. Weight(r) <= i /\ Weight(r) \in Nat /\ Weight(q) \in Nat
  BY <1>1, <1>2, WeightType DEF Abreast
<1> QED
  BY <1>1, <1>3

(* Once lost, always lost: to put a value right over a wrong one costs more*)
(* pieces than there are.                                                  *)
LEMMA LostStep ==
    ASSUME NEW r, ReaderOK(r), NEW p \in ConnPieces, NEW i \in Nat,
           Abreast(r, i), NEW meant, Lost(r, i, meant)
    PROVE  Lost(ReadPiece(r, p), i + 1, meant)
<1> PICK q : q = ReadPiece(r, p)
  OBVIOUS
<1> SUFFICES ASSUME q.mode # "error" PROVE Lost(q, i + 1, meant)
  BY DEF Lost
<1>1. ReaderOK(q) /\ Weight(q) <= Weight(r) + 1
  BY ReaderStep, WeightStep
<1>2. r.mode # "error"
  BY DEF ReadPiece
<1>3. Weight(r) <= i /\ Weight(r) \in Nat /\ Weight(q) \in Nat
  BY <1>1, <1>2, WeightType DEF Abreast
<1>4. CASE Weight(r) < i
  <2>1. Weight(q) < i + 1
    BY <1>1, <1>3, <1>4
  <2> QED
    BY <2>1 DEF Lost
<1>5. CASE \E k \in ConnOptions : \E value \in r.set[k] : value \notin meant[k]
  <2> PICK k \in ConnOptions : \E value \in r.set[k] : value \notin meant[k]
    BY <1>5
  <2>1. CASE q.set = r.set
    BY <2>1 DEF Lost
  <2>2. CASE Stores(r, q)
    <3>1. PICK j \in ConnOptions : r.open = {j} /\ q = Stored(r)
      BY <2>2 DEF Stores, ReaderOK
    <3>2. CASE j = k
      <4>1. Weight(q) < Weight(r)
        BY <2>2, <3>1, <3>2, WeightStep
      <4>2. Weight(q) < i + 1
        BY <1>3, <4>1
      <4> QED
        BY <4>2 DEF Lost
    <3>3. CASE j # k
      <4>1. q.set[k] = r.set[k]
        BY <3>1, <3>3, StoredSet
      <4> QED
        BY <4>1 DEF Lost
    <3> QED
      BY <3>2, <3>3
  <2>3. q.set = r.set \/ Stores(r, q)
    <3>0. r \in Readers
      BY DEF ReaderOK
    <3>1. Opens(r, q) => q.set = r.set
      BY <3>0 DEF Opens, Readers
    <3>2. Turns(r, q) => q.set = r.set
      BY <3>0 DEF Turns, Goes, Readers
    <3>3. TakesOne(r, q) => q.set = r.set
      BY <3>0 DEF TakesOne, Takes, Readers
    <3>4. Skips(r, q) => q.set = r.set
      BY DEF Skips
    <3>5. q = Goes(r, "error") => q.set = r.set
      BY <3>0 DEF Goes, Readers
    <3> QED
      BY <3>1, <3>2, <3>3, <3>4, <3>5, ReadCases
  <2> QED
    BY <2>1, <2>2, <2>3
<1> QED
  BY <1>2, <1>4, <1>5 DEF Lost

(* A reader that is lost at the end has not read what was meant.           *)
LEMMA LostAtEnd ==
    ASSUME NEW r, ReaderOK(r), NEW n \in Nat, Abreast(r, n),
           NEW meant, Lost(r, n, meant), Sum(meant) = n + 1
    PROVE  Settings(r) # {meant}
<1> SUFFICES ASSUME Settings(r) = {meant} PROVE FALSE
  OBVIOUS
<1>1. Weight(r) \in Nat /\ r.mode \in Modes
  BY WeightType DEF ReaderOK, Readers
<1>2. r.mode \in {"name", "start", "value", "escape"}
  BY DEF Settings
<1>3. Weight(r) <= n
  BY <1>2 DEF Abreast
<1>4. CASE r.mode = "name"
  <2>1. r.set = meant
    BY <1>4 DEF Settings
  <2>2. Weight(r) = Sum(r.set)
    BY <1>4, WeightType DEF Weight, Pending
  <2> QED
    BY <1>1, <1>3, <2>1, <2>2
<1>5. CASE r.mode \in {"start", "value", "escape"}
  <2>0. r.mode \in InValue
    BY <1>5 DEF InValue, Modes
  <2>1. PICK j \in ConnOptions : r.open = {j}
    BY <2>0 DEF ReaderOK
  <2>2. Stored(r).set = meant
    BY <1>5 DEF Settings
  <2>3. Sum(meant) = Weight(r) + 1 - Size(r.set[j])
    BY <2>0, <2>1, <2>2, StoredSum
  <2>4. Size(r.set[j]) \in Nat /\ (r.set[j] # {} => Size(r.set[j]) >= 2)
    <3>1. r.set[j] \in SUBSET Seq(ConnPieces)
      BY DEF ReaderOK, Readers
    <3> QED
      BY <3>1, Sizes
  <2>5. Weight(r) = n /\ r.set[j] = {}
    BY <1>1, <1>3, <2>3, <2>4
  <2>6. PICK k \in ConnOptions : \E value \in r.set[k] : value \notin meant[k]
    BY <1>2, <1>5, <2>5 DEF Lost
  <2>7. k # j /\ meant[k] = r.set[k]
    BY <2>1, <2>2, <2>5, <2>6, StoredSet
  <2> QED
    BY <2>6, <2>7
<1> QED
  BY <1>2, <1>4, <1>5
-----------------------------------------------------------------------------
(* The recursion of LibpqReads, as a property of a function.               *)
Reading(f, text, m) ==
    f = [n \in 0..m |-> IF n = 0 THEN NothingRead
                        ELSE ReadPiece(f[n - 1], text[n])]

(* Each reading follows from the one before it.                            *)
LEMMA ReadingStep ==
    ASSUME NEW f, NEW text, NEW m \in Nat, Reading(f, text, m)
    PROVE  /\ f[0] = NothingRead
           /\ \A n \in 1..m : f[n] = ReadPiece(f[n - 1], text[n])
<1> DEFINE g == [n \in 0..m |-> IF n = 0 THEN NothingRead
                                ELSE ReadPiece(f[n - 1], text[n])]
<1>1. f = g
  BY Zenon DEF Reading
<1>2. g[0] = NothingRead
  OBVIOUS
<1>3. ASSUME NEW n \in 1..m
      PROVE  g[n] = ReadPiece(f[n - 1], text[n])
  OBVIOUS
<1> HIDE DEF g
<1> QED
  BY <1>1, <1>2, <1>3, Zenon

(* However many pieces there are, there is a function that records them.   *)
LEMMA ReadingExists ==
    ASSUME NEW text, NEW m \in Nat
    PROVE  \E f : Reading(f, text, m)
<1> DEFINE Claim == {k \in Nat : \E f : Reading(f, text, k)}
<1>1. 0 \in Claim
  <2>1. Reading([n \in {0} |-> NothingRead], text, 0)
    BY DEF Reading
  <2> QED
    BY <2>1
<1>2. ASSUME NEW k \in Nat, k \in Claim PROVE k + 1 \in Claim
  <2>1. PICK f : Reading(f, text, k)
    BY <1>2
  <2> DEFINE g == [n \in 0..(k + 1) |->
                       IF n <= k THEN f[n] ELSE ReadPiece(f[k], text[n])]
             h == [n \in 0..(k + 1) |->
                       IF n = 0 THEN NothingRead
                       ELSE ReadPiece(g[n - 1], text[n])]
  <2>2. ASSUME NEW n \in 0..(k + 1) PROVE g[n] = h[n]
    <3>1. CASE n = 0
      <4>1. f[0] = NothingRead
        BY <2>1, ReadingStep
      <4> QED
        BY <3>1, <4>1
    <3>2. CASE n \in 1..k
      <4>1. f[n] = ReadPiece(f[n - 1], text[n])
        BY <2>1, <3>2, ReadingStep
      <4>2. g[n] = f[n] /\ g[n - 1] = f[n - 1]
        BY <3>2
      <4>3. h[n] = ReadPiece(g[n - 1], text[n])
        BY <3>2
      <4> HIDE DEF g, h
      <4> QED
        BY <4>1, <4>2, <4>3
    <3>3. CASE n = k + 1
      <4>1. g[n] = ReadPiece(f[k], text[n])
        BY <3>3
      <4>2. n - 1 = k /\ g[k] = f[k] /\ n # 0
        BY <3>3
      <4>3. h[n] = ReadPiece(g[n - 1], text[n])
        BY <4>2
      <4> HIDE DEF g, h
      <4> QED
        BY <4>1, <4>2, <4>3
    <3> QED
      BY <3>1, <3>2, <3>3
  <2>3. g = h
    BY <2>2
  <2>4. Reading(g, text, k + 1)
    BY <2>3, Zenon DEF Reading
  <2> QED
    BY <2>4
<1>3. Nat \subseteq Claim
  BY <1>1, <1>2, SetInduction
<1> QED
  BY <1>3

(* f records the reader after each piece.                                  *)
Reads(f, text) ==
    /\ f[0] = NothingRead
    /\ \A n \in 0..(Len(text) - 1) : f[n + 1] = ReadPiece(f[n], text[n + 1])
    /\ LibpqReads(text) = Settings(f[Len(text)])

(* libpq reads piece by piece.                                             *)
LEMMA ReadsInSteps ==
    ASSUME NEW S, NEW text \in Seq(S)
    PROVE  \E f : Reads(f, text)
<1>1. PICK f : f = CHOOSE g : Reading(g, text, Len(text))
  OBVIOUS
<1>2. Reading(f, text, Len(text))
  BY <1>1, ReadingExists, Len(text) \in Nat, Zenon
<1>3. LibpqReads(text) = Settings(f[Len(text)])
  BY <1>1 DEF LibpqReads, Reading
<1>4. /\ f[0] = NothingRead
      /\ \A n \in 1..Len(text) : f[n] = ReadPiece(f[n - 1], text[n])
  BY <1>2, ReadingStep, Len(text) \in Nat
<1>5. ASSUME NEW n \in 0..(Len(text) - 1)
      PROVE  n + 1 \in 1..Len(text) /\ (n + 1) - 1 = n
  OBVIOUS
<1>6. \A n \in 0..(Len(text) - 1) : f[n + 1] = ReadPiece(f[n], text[n + 1])
  BY <1>4, <1>5
<1> QED
  BY <1>3, <1>4, <1>6 DEF Reads

(* Every state of it is a reader, and none weighs more than it has read.   *)
LEMMA ReadersAlong ==
    ASSUME NEW text \in Seq(ConnPieces), NEW f, Reads(f, text)
    PROVE  \A i \in 0..Len(text) : ReaderOK(f[i]) /\ Abreast(f[i], i)
<1> DEFINE Claim == {i \in Nat : ReaderOK(f[i]) /\ Abreast(f[i], i)}
<1>1. 0 \in Claim
  <2>1. f[0] = NothingRead
    BY DEF Reads
  <2>2. ReaderOK(NothingRead) /\ NothingRead.mode = "name"
    BY DEF NothingRead, ReaderOK, Readers, Modes, InValue
  <2>3. Sum(NothingRead.set) = 0
    BY Sizes DEF Sum, NothingRead, ConnOptions
  <2>4. Weight(NothingRead) = 0
    BY <2>2, <2>3 DEF Weight, Pending
  <2> QED
    BY <2>1, <2>2, <2>4 DEF Abreast
<1>2. ASSUME NEW i \in Nat, i < Len(text) /\ i \in Claim
      PROVE  i + 1 \in Claim
  <2>1. f[i + 1] = ReadPiece(f[i], text[i + 1]) /\ text[i + 1] \in ConnPieces
    BY <1>2 DEF Reads
  <2> QED
    BY <1>2, <2>1, ReaderStep, AbreastStep
<1> HIDE DEF Claim
<1>3. \A i \in 0..Len(text) : i \in Claim
  BY <1>1, <1>2, InductionUpTo, Len(text) \in Nat
<1> QED
  BY <1>3 DEF Claim

(* Lost anywhere, nothing is read that was meant.                          *)
LEMMA LostForGood ==
    ASSUME NEW text \in Seq(ConnPieces), NEW f, Reads(f, text), NEW meant,
           Sum(meant) = Len(text) + 1,
           NEW i \in 0..Len(text), Lost(f[i], i, meant)
    PROVE  LibpqReads(text) # {meant}
<1> DEFINE Claim == {j \in Nat : j >= i => Lost(f[j], j, meant)}
<1>1. 0 \in Claim
  OBVIOUS
<1>2. ASSUME NEW j \in Nat, j < Len(text) /\ j \in Claim
      PROVE  j + 1 \in Claim
  <2>1. CASE j < i
    <3>1. j + 1 >= i => j + 1 = i
      BY <2>1
    <3> QED
      BY <3>1
  <2>2. CASE j >= i
    <3>1. f[j + 1] = ReadPiece(f[j], text[j + 1]) /\ text[j + 1] \in ConnPieces
      BY <1>2 DEF Reads
    <3>2. ReaderOK(f[j]) /\ Abreast(f[j], j) /\ Lost(f[j], j, meant)
      BY <1>2, <2>2, ReadersAlong
    <3> QED
      BY <3>1, <3>2, LostStep
  <2> QED
    BY <2>1, <2>2
<1> HIDE DEF Claim
<1>3. \A j \in 0..Len(text) : j \in Claim
  BY <1>1, <1>2, InductionUpTo, Len(text) \in Nat
<1>4. Len(text) \in Nat /\ Len(text) \in 0..Len(text) /\ Len(text) >= i
  OBVIOUS
<1>5. Lost(f[Len(text)], Len(text), meant)
  BY <1>3, <1>4 DEF Claim
<1>6. ReaderOK(f[Len(text)]) /\ Abreast(f[Len(text)], Len(text))
  BY <1>4, ReadersAlong
<1>7. Settings(f[Len(text)]) # {meant}
  BY <1>4, <1>5, <1>6, LostAtEnd
<1> QED
  BY <1>7 DEF Reads
-----------------------------------------------------------------------------
(* One setting of the text. *)

(* The setting of option k to value begins behind the first o pieces.      *)
Has(text, o, k, value) ==
    /\ o + 1 + Len(value) <= Len(text)
    /\ text[o + 1] = NameOf(k)
    /\ \A i \in 1..Len(value) : text[o + 1 + i] = value[i]

(* The reader is in that value, having taken m pieces of it as they are.   *)
Inside(r, k, value, m, set) ==
    /\ r.mode = (IF m = 0 THEN "start" ELSE "value")
    /\ r.open = {k} /\ r.set = set
    /\ Len(r.value) = m /\ \A i \in 1..m : r.value[i] = value[i]

(* What the pieces do where they matter.                                   *)
LEMMA PieceSteps ==
    ASSUME NEW r, ReaderOK(r)
    PROVE  /\ r.mode = "name" => \A k \in ConnOptions :
                  ReadPiece(r, NameOf(k))
                      = [r EXCEPT !.mode = "start", !.open = {k}]
           /\ \A p \in ConnPieces \ {Blank, Backslash} :
                  r.mode = "value" \/ (r.mode = "start" /\ p # Quote)
                      => ReadPiece(r, p) = Takes(r, p, "value")
           /\ r.mode = "start" => /\ ReadPiece(r, Blank) = r
                                  /\ ReadPiece(r, Quote) = Goes(r, "quoted")
           /\ r.mode \in {"start", "value"} =>
                  ReadPiece(r, Backslash) = Goes(r, "escape")
           /\ r.mode = "value" => ReadPiece(r, Blank) = Stored(r)
<1>1. ASSUME NEW k \in ConnOptions, r.mode = "name"
      PROVE  ReadPiece(r, NameOf(k)) = [r EXCEPT !.mode = "start", !.open = {k}]
  <2>1. NameOf(k).kind = "name" /\ NameOf(k).name = k
    BY DEF NameOf
  <2> QED
    BY <1>1, <2>1 DEF ReadPiece
<1>2. ASSUME NEW p \in ConnPieces \ {Blank, Backslash},
             r.mode = "value" \/ (r.mode = "start" /\ p # Quote)
      PROVE  ReadPiece(r, p) = Takes(r, p, "value")
  <2>1. p.kind # "blank" /\ p.kind # "backslash" /\ (p.kind = "quote" => p = Quote)
    BY KindsOfPieces
  <2> QED
    BY <1>2, <2>1 DEF ReadPiece
<1>3. Blank.kind = "blank" /\ Quote.kind = "quote" /\ Backslash.kind = "backslash"
  BY DEF Blank, Quote, Backslash
<1>4. r.mode = "start" => /\ ReadPiece(r, Blank) = r
                          /\ ReadPiece(r, Quote) = Goes(r, "quoted")
  BY <1>3 DEF ReadPiece
<1>5. r.mode \in {"start", "value"} =>
          ReadPiece(r, Backslash) = Goes(r, "escape")
  BY <1>3 DEF ReadPiece
<1>6. r.mode = "value" => ReadPiece(r, Blank) = Stored(r)
  BY <1>3 DEF ReadPiece
<1> QED
  BY <1>1, <1>2, <1>4, <1>5, <1>6

(* A value is taken as it is as far as nothing in it is special.           *)
LEMMA PlainIsTaken ==
    ASSUME NEW text \in Seq(ConnPieces), NEW f, Reads(f, text),
           NEW o \in Nat, NEW k \in ConnOptions, NEW value \in Seq(ConnPieces),
           Has(text, o, k, value), f[o].mode = "name",
           NEW m \in 0..Len(value),
           \A i \in 1..m : /\ value[i] \notin {Blank, Backslash}
                           /\ i = 1 => value[i] # Quote
    PROVE  Inside(f[o + 1 + m], k, value, m, f[o].set)
<1> DEFINE Claim == {j \in Nat : Inside(f[o + 1 + j], k, value, j, f[o].set)}
<1>0. /\ o + 1 + Len(value) <= Len(text) /\ Len(text) \in Nat
      /\ Len(value) \in Nat
  BY DEF Has
<1>1. 0 \in Claim
  <2>1. /\ ReaderOK(f[o]) /\ f[o].value = <<>>
        /\ f[o + 1] = ReadPiece(f[o], NameOf(k))
    <3>1. o \in 0..Len(text) /\ o \in 0..(Len(text) - 1)
      BY <1>0
    <3>2. ReaderOK(f[o]) /\ f[o + 1] = ReadPiece(f[o], text[o + 1])
      BY <3>1, ReadersAlong DEF Reads
    <3> QED
      BY <3>2 DEF Has, ReaderOK
  <2>2. f[o + 1] = [f[o] EXCEPT !.mode = "start", !.open = {k}]
    BY <2>1, PieceSteps
  <2>3. f[o] \in Readers
    BY <2>1 DEF ReaderOK
  <2>4. /\ f[o + 1].mode = "start" /\ f[o + 1].open = {k}
        /\ f[o + 1].set = f[o].set /\ f[o + 1].value = <<>>
    BY <2>1, <2>2, <2>3 DEF Readers
  <2>5. Len(f[o + 1].value) = 0 /\ o + 1 + 0 = o + 1
    BY <2>4
  <2> QED
    BY <2>4, <2>5 DEF Inside
<1>2. ASSUME NEW j \in Nat, j < m /\ j \in Claim
      PROVE  j + 1 \in Claim
  <2> PICK r : r = f[o + 1 + j]
    OBVIOUS
  <2> PICK p : p = value[j + 1]
    OBVIOUS
  <2>1. /\ j + 1 \in 1..m /\ j + 1 \in 1..Len(value)
        /\ o + 1 + j \in 0..(Len(text) - 1) /\ o + 1 + j \in 0..Len(text)
        /\ o + 1 + (j + 1) = (o + 1 + j) + 1
    BY <1>0, <1>2
  <2>2. text[(o + 1 + j) + 1] = p
    BY <2>1 DEF Has
  <2>3. ReaderOK(r) /\ f[o + 1 + (j + 1)] = ReadPiece(r, p)
    BY <2>1, <2>2, ReadersAlong DEF Reads
  <2>4. Inside(r, k, value, j, f[o].set)
    BY <1>2
  <2>5. /\ p \in ConnPieces \ {Blank, Backslash}
        /\ j = 0 => p # Quote
    BY <2>1
  <2>6. ReadPiece(r, p) = Takes(r, p, "value")
    <3>1. r.mode = "value" \/ (r.mode = "start" /\ p # Quote)
      BY <2>4, <2>5 DEF Inside
    <3> QED
      BY <2>3, <2>5, <3>1, PieceSteps
  <2>7. r \in Readers
    BY <2>3 DEF ReaderOK
  <2> PICK q : q = f[o + 1 + (j + 1)]
    OBVIOUS
  <2>8. /\ q.mode = "value" /\ q.open = {k} /\ q.set = f[o].set
        /\ q.value = Append(r.value, p)
    BY <2>3, <2>4, <2>6, <2>7 DEF Takes, Readers, Inside
  <2>9. Len(q.value) = j + 1 /\ \A i \in 1..(j + 1) : q.value[i] = value[i]
    <3>1. r.value \in Seq(ConnPieces) /\ Len(r.value) = j
      BY <2>4, <2>7 DEF Inside, Readers
    <3>2. \A i \in 1..j : r.value[i] = value[i]
      BY <2>4 DEF Inside
    <3> QED
      BY <2>5, <2>8, <3>1, <3>2, SMTT(30)
  <2>10. Inside(q, k, value, j + 1, f[o].set)
    BY <1>2, <2>8, <2>9 DEF Inside
  <2> QED
    BY <2>10
<1> HIDE DEF Claim
<1>3. \A j \in 0..m : j \in Claim
  <2>1. m \in Nat
    BY <1>0
  <2> QED
    BY <1>1, <1>2, <2>1, InductionUpTo
<1> QED
  BY <1>3 DEF Claim

(* The reader is behind that value and has it as it is.                    *)
Taken(r, k, value, set) ==
    r.mode = "value" /\ r.open = {k} /\ r.value = value /\ r.set = set

(* A value that needs no quotes is read whole.                             *)
LEMMA WholeIsTaken ==
    ASSUME NEW text \in Seq(ConnPieces), NEW f, Reads(f, text),
           NEW o \in Nat, NEW k \in ConnOptions, NEW value \in Seq(ConnPieces),
           Has(text, o, k, value), f[o].mode = "name", NeedsNoQuotes(value)
    PROVE  Taken(f[o + 1 + Len(value)], k, value, f[o].set)
<1> PICK r : r = f[o + 1 + Len(value)]
  OBVIOUS
<1>1. Len(value) \in Nat /\ Len(value) # 0 /\ Len(value) \in 0..Len(value)
  BY DEF NeedsNoQuotes
<1>2. \A i \in 1..Len(value) : /\ value[i] \notin {Blank, Backslash}
                               /\ i = 1 => value[i] # Quote
  BY DEF NeedsNoQuotes
<1>3. Inside(r, k, value, Len(value), f[o].set)
  BY <1>1, <1>2, PlainIsTaken
<1>4. r.value \in Seq(ConnPieces)
  <2>1. o + 1 + Len(value) \in 0..Len(text)
    BY <1>1 DEF Has
  <2>2. ReaderOK(r)
    BY <2>1, ReadersAlong
  <2> QED
    BY <2>2 DEF ReaderOK, Readers
<1>5. r.value = value
  BY <1>3, <1>4, SeqIsSame DEF Inside
<1> QED
  BY <1>1, <1>3, <1>5 DEF Inside, Taken

(* A value that needs quotes is where the reader gets lost: at a quote it  *)
(* opens, at a backslash, at a blank, and where the value is empty at the  *)
(* blank behind it.                                                        *)
LEMMA UnquotedIsLost ==
    ASSUME NEW text \in Seq(ConnPieces), NEW f, Reads(f, text),
           NEW o \in Nat, NEW k \in ConnOptions, NEW value \in Seq(ConnPieces),
           Has(text, o, k, value), f[o].mode = "name", ~NeedsNoQuotes(value),
           NEW meant, meant[k] = {value},
           value = <<>> => /\ o + 2 <= Len(text)
                           /\ text[o + 2] = Blank
    PROVE  \E i \in 0..Len(text) : Lost(f[i], i, meant)
<1>0. /\ o + 1 + Len(value) <= Len(text) /\ Len(text) \in Nat
      /\ Len(value) \in Nat
  BY DEF Has
<1>1. ASSUME NEW i \in 0..(Len(text) - 1), ReadPiece(f[i], text[i + 1]) = f[i]
                 \/ \E m \in {"quoted", "escape"} :
                        ReadPiece(f[i], text[i + 1]) = Goes(f[i], m),
             f[i].mode \in {"start", "value"}
      PROVE  Lost(f[i + 1], i + 1, meant)
  <2> PICK r : r = f[i]
    OBVIOUS
  <2> PICK q : q = f[i + 1]
    OBVIOUS
  <2>1. q = r \/ \E m \in {"quoted", "escape"} : q = Goes(r, m)
    BY <1>1 DEF Reads
  <2>2. i \in 0..Len(text) /\ i \in Nat
    BY <1>0
  <2>3. ReaderOK(r) /\ Abreast(r, i)
    BY <2>2, ReadersAlong
  <2>4. Weight(r) <= i /\ Weight(r) \in Nat
    BY <1>1, <2>3, WeightType DEF Abreast
  <2>5. Weight(q) = Weight(r)
    <3>1. r \in Readers
      BY <2>3 DEF ReaderOK
    <3>2. q.set = r.set /\ q.value = r.value /\ q.mode # "name"
      BY <1>1, <2>1, <3>1 DEF Goes, Readers
    <3> QED
      BY <1>1, <3>2 DEF Weight, Pending
  <2>6. Weight(q) < i + 1
    BY <2>2, <2>4, <2>5
  <2> QED
    BY <2>6 DEF Lost
<1>2. CASE value = <<>>
  <2>1. Len(value) = 0 /\ 0 \in 0..Len(value)
    BY <1>2
  <2>2. Inside(f[o + 1 + 0], k, value, 0, f[o].set)
    <3>1. \A i \in 1..0 : FALSE
      OBVIOUS
    <3> QED
      BY <2>1, <3>1, PlainIsTaken
  <2>3. /\ o + 1 + 0 = o + 1 /\ (o + 1) + 1 = o + 2
        /\ o + 1 \in 0..(Len(text) - 1) /\ o + 2 \in 0..Len(text)
    BY <1>0, <1>2
  <2>4. f[o + 1].mode = "start" /\ ReaderOK(f[o + 1])
    <3>1. o + 1 \in 0..Len(text)
      BY <1>0, <2>3
    <3> QED
      BY <2>2, <2>3, <3>1, ReadersAlong DEF Inside
  <2>5. ReadPiece(f[o + 1], text[(o + 1) + 1]) = f[o + 1]
    BY <1>2, <2>3, <2>4, PieceSteps
  <2>6. Lost(f[(o + 1) + 1], (o + 1) + 1, meant)
    BY <1>1, <2>3, <2>4, <2>5
  <2> QED
    BY <2>3, <2>6
<1>3. CASE value # <<>>
  <2> DEFINE Special == {j \in Nat : /\ j \in 1..Len(value)
                                     /\ \/ value[j] \in {Blank, Backslash}
                                        \/ j = 1 /\ value[j] = Quote}
  <2>1. Special # {}
    <3>1. value[1] = Quote \/ \E i \in DOMAIN value : value[i] \in {Blank, Backslash}
      BY <1>3 DEF NeedsNoQuotes
    <3>2. 1 \in 1..Len(value) /\ DOMAIN value = 1..Len(value)
      BY <1>3
    <3> QED
      BY <3>1, <3>2
  <2>2. PICK j \in Special : \A i \in Special : j <= i
    BY <2>1, LeastNatural
  <2>3. /\ j \in 1..Len(value)
        /\ \/ value[j] \in {Blank, Backslash}
           \/ j = 1 /\ value[j] = Quote
    OBVIOUS
  <2> PICK m : m = j - 1
    OBVIOUS
  <2>4. /\ m \in 0..Len(value) /\ m \in Nat
        /\ o + 1 + m \in 0..(Len(text) - 1) /\ o + 1 + m \in 0..Len(text)
        /\ o + 1 + m \in Nat
        /\ (o + 1 + m) + 1 = o + 1 + j
        /\ (o + 1 + m) + 1 \in 0..Len(text)
    BY <1>0, <2>3
  <2>5. ASSUME NEW i \in 1..m
        PROVE  value[i] \notin {Blank, Backslash} /\ (i = 1 => value[i] # Quote)
    <3>1. i \in 1..Len(value) /\ i < j /\ i \in Nat
      BY <1>0, <2>3
    <3>2. i \notin Special
      BY <2>2, <2>3, <3>1
    <3> QED
      BY <3>1, <3>2
  <2> HIDE DEF Special
  <2> PICK r : r = f[o + 1 + m]
    OBVIOUS
  <2>6. Inside(r, k, value, m, f[o].set) /\ ReaderOK(r)
    BY <2>4, <2>5, PlainIsTaken, ReadersAlong
  <2>7. /\ r.mode = IF m = 0 THEN "start" ELSE "value"
        /\ text[(o + 1 + m) + 1] = value[j]
    BY <2>3, <2>4, <2>6 DEF Inside, Has
  <2>8. ASSUME \/ ReadPiece(r, value[j]) = r
               \/ \E n \in {"quoted", "escape"} :
                      ReadPiece(r, value[j]) = Goes(r, n)
        PROVE  \E i \in 0..Len(text) : Lost(f[i], i, meant)
    <3>1. Lost(f[(o + 1 + m) + 1], (o + 1 + m) + 1, meant)
      BY <1>1, <2>4, <2>7, <2>8
    <3> QED
      BY <2>4, <3>1
  <2>9. CASE value[j] = Backslash
    BY <2>6, <2>7, <2>8, <2>9, PieceSteps
  <2>10. CASE m = 0
    BY <2>3, <2>6, <2>7, <2>8, <2>9, <2>10, PieceSteps
  <2>11. CASE m # 0 /\ value[j] = Blank
    <3> PICK q : q = f[(o + 1 + m) + 1]
      OBVIOUS
    <3>0. q = ReadPiece(r, Blank)
      BY <2>4, <2>7, <2>11 DEF Reads
    <3>1. q = Stored(r)
      BY <2>6, <2>7, <2>11, <3>0, PieceSteps
    <3>2. q.set[k] = {r.value}
      BY <2>6, <3>1, StoredSet DEF Inside
    <3>3. r.value # value
      <4>1. Len(r.value) = m /\ m # Len(value)
        BY <1>0, <2>3, <2>4, <2>6 DEF Inside
      <4> QED
        BY <4>1
    <3>4. Lost(q, (o + 1 + m) + 1, meant)
      BY <3>2, <3>3 DEF Lost
    <3> QED
      BY <2>4, <3>4
  <2>12. m # 0 => value[j] \in {Blank, Backslash}
    BY <2>3, <2>4
  <2> QED
    BY <2>9, <2>10, <2>11, <2>12
<1> QED
  BY <1>2, <1>3

(* Behind such a value and its blank the reader is at the next name.       *)
LEMMA SettingIsRead ==
    ASSUME NEW text \in Seq(ConnPieces), NEW f, Reads(f, text),
           NEW o \in Nat, NEW k \in ConnOptions, NEW value \in Seq(ConnPieces),
           Has(text, o, k, value), f[o].mode = "name", NeedsNoQuotes(value),
           NEW next \in 1..Len(text), next = o + 2 + Len(value),
           text[next] = Blank
    PROVE  /\ f[next].mode = "name" /\ f[next].set[k] = {value}
           /\ \A j \in ConnOptions \ {k} : f[next].set[j] = f[o].set[j]
<1>0. Taken(f[o + 1 + Len(value)], k, value, f[o].set)
  BY WholeIsTaken, ZenonT(60)
<1> PICK r : r = f[o + 1 + Len(value)]
  OBVIOUS
<1>1. r.mode = "value" /\ r.open = {k} /\ r.value = value /\ r.set = f[o].set
  BY ONLY <1>0, r = f[o + 1 + Len(value)], Zenon DEF Taken
<1>2. /\ o + 1 + Len(value) \in 0..(Len(text) - 1)
      /\ o + 1 + Len(value) \in 0..Len(text)
      /\ (o + 1 + Len(value)) + 1 = next
  <2>1. /\ Len(value) \in Nat /\ Len(text) \in Nat /\ next \in 1..Len(text)
        /\ next = o + 2 + Len(value) /\ o \in Nat
    OBVIOUS
  <2> QED
    BY ONLY <2>1
<1>3. f[next] = ReadPiece(r, Blank) /\ ReaderOK(r)
  BY <1>2, ReadersAlong DEF Reads
<1>4. f[next] = Stored(r)
  BY <1>1, <1>3, PieceSteps
<1> QED
  BY <1>1, <1>3, <1>4, StoredSet
-----------------------------------------------------------------------------
(* The text of postgres_conninfo. *)

(* x stands in the text behind its first o pieces.                         *)
Laid(text, o, x) ==
    o + Len(x) <= Len(text) /\ \A i \in 1..Len(x) : text[o + i] = x[i]

Joined(s, x) == s \o x

(* What is appended stands at the end, the rest where it stood.            *)
LEMMA AppendLays ==
    ASSUME NEW s, s \in Seq(ConnPieces), NEW x, x \in Seq(ConnPieces), NEW t,
           t = Joined(s, x)
    PROVE  /\ t \in Seq(ConnPieces) /\ Len(t) = Len(s) + Len(x)
           /\ Laid(t, Len(s), x)
           /\ \A o, y : o \in Nat /\ y \in Seq(ConnPieces) /\ Laid(s, o, y)
                          => Laid(t, o, y)
<1>1. t \in Seq(ConnPieces) /\ Len(t) = Len(s) + Len(x)
  BY DEF Joined
<1>2. Laid(t, Len(s), x)
  BY DEF Laid, Joined
<1>3. ASSUME NEW o \in Nat, NEW y \in Seq(ConnPieces), Laid(s, o, y)
      PROVE  Laid(t, o, y)
  BY <1>1, <1>3 DEF Laid, Joined
<1> QED
  BY <1>1, <1>2, <1>3

(* A setting that is laid is a setting the text has.                       *)
LEMMA SettingIsThere ==
    ASSUME NEW k \in ConnOptions, NEW value \in Seq(ConnPieces)
    PROVE  /\ Setting(k, value) \in Seq(ConnPieces)
           /\ Len(Setting(k, value)) = 1 + Len(value)
           /\ \A text, o : o \in Nat /\ Laid(text, o, Setting(k, value))
                               => Has(text, o, k, value)
<1> PICK s : s = Setting(k, value)
  OBVIOUS
<1>1. NameOf(k) \in ConnPieces
  BY DEF NameOf, ConnPieces
<1>2. /\ s \in Seq(ConnPieces) /\ Len(s) = 1 + Len(value) /\ s[1] = NameOf(k)
      /\ \A i \in 1..Len(value) : s[1 + i] = value[i]
  BY <1>1 DEF Setting
<1>3. ASSUME NEW text, NEW o \in Nat, Laid(text, o, s)
      PROVE  Has(text, o, k, value)
  <2>1. Len(value) \in Nat
    OBVIOUS
  <2>2. o + (1 + Len(value)) <= Len(text) /\ text[o + 1] = s[1]
    BY <1>2, <1>3, <2>1 DEF Laid
  <2>3. ASSUME NEW i \in 1..Len(value) PROVE text[o + 1 + i] = value[i]
    <3>1. 1 + i \in 1..Len(s) /\ o + (1 + i) = o + 1 + i
      BY <1>2, <2>1
    <3>2. text[o + (1 + i)] = s[1 + i]
      BY <1>3, <3>1 DEF Laid
    <3> QED
      BY <1>2, <3>1, <3>2
  <2>4. o + (1 + Len(value)) = o + 1 + Len(value)
    BY <2>1
  <2> QED
    BY <1>2, <2>2, <2>3, <2>4 DEF Has
<1> QED
  BY <1>2, <1>3

(* Where the five settings begin, and the blank behind each.               *)
Places(c, text, a, b, d, e) ==
    /\ text \in Seq(ConnPieces)
    /\ a \in Nat /\ b \in Nat /\ d \in Nat /\ e \in Nat
    /\ a = 2 + Len(c.host) /\ b = a + 3
    /\ d = b + 2 + Len(c.dbname) /\ e = d + 2 + Len(c.user)
    /\ Len(text) = e + 1 + Len(c.password)
    /\ Has(text, 0, "host", c.host) /\ text[a] = Blank
    /\ Has(text, a, "port", <<Digits(c.port)>>) /\ text[b] = Blank
    /\ Has(text, b, "dbname", c.dbname) /\ text[d] = Blank
    /\ Has(text, d, "user", c.user) /\ text[e] = Blank
    /\ Has(text, e, "password", c.password)

(* The text is laid out so.                                                *)
LEMMA ConninfoIsLaid ==
    ASSUME NEW c, c.host \in Seq(ConnPieces), c.dbname \in Seq(ConnPieces),
           c.user \in Seq(ConnPieces), c.password \in Seq(ConnPieces),
           c.port \in Nat
    PROVE  \E a, b, d, e : Places(c, Conninfo(c), a, b, d, e)
<1> PICK h : h = c.host
  OBVIOUS
<1> PICK n : n = c.dbname
  OBVIOUS
<1> PICK u : u = c.user
  OBVIOUS
<1> PICK p : p = c.password
  OBVIOUS
<1> PICK one : one = <<Digits(c.port)>>
  OBVIOUS
<1> PICK B : B = <<Blank>>
  OBVIOUS
<1> PICK x1 : x1 = Setting("host", h)
  OBVIOUS
<1> PICK x2 : x2 = Setting("port", one)
  OBVIOUS
<1> PICK x3 : x3 = Setting("dbname", n)
  OBVIOUS
<1> PICK x4 : x4 = Setting("user", u)
  OBVIOUS
<1> PICK x5 : x5 = Setting("password", p)
  OBVIOUS
<1> PICK t1 : t1 = Joined(x1, B)
  OBVIOUS
<1> PICK t2 : t2 = Joined(t1, x2)
  OBVIOUS
<1> PICK t3 : t3 = Joined(t2, B)
  OBVIOUS
<1> PICK t4 : t4 = Joined(t3, x3)
  OBVIOUS
<1> PICK t5 : t5 = Joined(t4, B)
  OBVIOUS
<1> PICK t6 : t6 = Joined(t5, x4)
  OBVIOUS
<1> PICK t7 : t7 = Joined(t6, B)
  OBVIOUS
<1> PICK t8 : t8 = Joined(t7, x5)
  OBVIOUS
<1>1. Conninfo(c) = t8
  BY DEF Conninfo, Joined
<1>2. /\ B \in Seq(ConnPieces) /\ Len(B) = 1 /\ B[1] = Blank
      /\ one \in Seq(ConnPieces) /\ Len(one) = 1
  <2>1. Blank \in ConnPieces /\ Digits(c.port) \in ConnPieces
    BY DEF ConnPieces, Digits
  <2> QED
    BY <2>1
<1>3. /\ "host" \in ConnOptions /\ "port" \in ConnOptions
      /\ "dbname" \in ConnOptions /\ "user" \in ConnOptions
      /\ "password" \in ConnOptions
  BY DEF ConnOptions
<1>4. /\ h \in Seq(ConnPieces) /\ n \in Seq(ConnPieces)
      /\ u \in Seq(ConnPieces) /\ p \in Seq(ConnPieces)
      /\ Len(h) \in Nat /\ Len(n) \in Nat /\ Len(u) \in Nat
      /\ Len(p) \in Nat
  OBVIOUS
<1>5. /\ x1 \in Seq(ConnPieces) /\ Len(x1) = 1 + Len(h)
      /\ x2 \in Seq(ConnPieces) /\ Len(x2) = 1 + Len(one)
      /\ x3 \in Seq(ConnPieces) /\ Len(x3) = 1 + Len(n)
      /\ x4 \in Seq(ConnPieces) /\ Len(x4) = 1 + Len(u)
      /\ x5 \in Seq(ConnPieces) /\ Len(x5) = 1 + Len(p)
  BY <1>2, <1>3, <1>4, SettingIsThere
<1>6. \A text, o : o \in Nat =>
          /\ Laid(text, o, x1) => Has(text, o, "host", h)
          /\ Laid(text, o, x2) => Has(text, o, "port", one)
          /\ Laid(text, o, x3) => Has(text, o, "dbname", n)
          /\ Laid(text, o, x4) => Has(text, o, "user", u)
          /\ Laid(text, o, x5) => Has(text, o, "password", p)
  BY <1>2, <1>3, <1>4, SettingIsThere, Zenon
<1>7. \A text, o : o \in Nat /\ Laid(text, o, B) => text[o + 1] = Blank
  BY <1>2 DEF Laid
<1>8. Laid(x1, 0, x1)
  BY <1>5 DEF Laid
<1>11. /\ t1 \in Seq(ConnPieces) /\ Len(t1) = Len(x1) + Len(B)
       /\ Laid(t1, 0, x1)
       /\ Laid(t1, Len(x1), B)
  <2>1. /\ t1 \in Seq(ConnPieces) /\ Len(t1) = Len(x1) + Len(B)
        /\ Laid(t1, Len(x1), B)
        /\ \A o, y : o \in Nat /\ y \in Seq(ConnPieces) /\ Laid(x1, o, y)
                       => Laid(t1, o, y)
    BY ONLY t1 = Joined(x1, B), <1>2, <1>5, AppendLays, ZenonT(60)
  <2>2. 0 \in Nat /\ Len(x1) \in Nat
    BY ONLY <1>5
  <2> QED
    BY ONLY <1>2, <1>5, <1>8, <2>1, <2>2, ZenonT(60)
<1>12. /\ t2 \in Seq(ConnPieces) /\ Len(t2) = Len(t1) + Len(x2)
       /\ Laid(t2, 0, x1)
       /\ Laid(t2, Len(x1), B)
       /\ Laid(t2, Len(t1), x2)
  <2>1. /\ t2 \in Seq(ConnPieces) /\ Len(t2) = Len(t1) + Len(x2)
        /\ Laid(t2, Len(t1), x2)
        /\ \A o, y : o \in Nat /\ y \in Seq(ConnPieces) /\ Laid(t1, o, y)
                       => Laid(t2, o, y)
    BY ONLY t2 = Joined(t1, x2), <1>2, <1>5, <1>11, AppendLays, ZenonT(60)
  <2>2. 0 \in Nat /\ Len(x1) \in Nat /\ Len(t1) \in Nat
    BY ONLY <1>5, <1>11
  <2> QED
    BY ONLY <1>2, <1>5, <1>8, <1>11, <2>1, <2>2, ZenonT(60)
<1>13. /\ t3 \in Seq(ConnPieces) /\ Len(t3) = Len(t2) + Len(B)
       /\ Laid(t3, 0, x1)
       /\ Laid(t3, Len(x1), B)
       /\ Laid(t3, Len(t1), x2)
       /\ Laid(t3, Len(t2), B)
  <2>1. /\ t3 \in Seq(ConnPieces) /\ Len(t3) = Len(t2) + Len(B)
        /\ Laid(t3, Len(t2), B)
        /\ \A o, y : o \in Nat /\ y \in Seq(ConnPieces) /\ Laid(t2, o, y)
                       => Laid(t3, o, y)
    BY ONLY t3 = Joined(t2, B), <1>2, <1>5, <1>12, AppendLays, ZenonT(60)
  <2>2. 0 \in Nat /\ Len(x1) \in Nat /\ Len(t1) \in Nat /\ Len(t2) \in Nat
    BY ONLY <1>5, <1>11, <1>12
  <2> QED
    BY ONLY <1>2, <1>5, <1>8, <1>12, <2>1, <2>2, ZenonT(60)
<1>14. /\ t4 \in Seq(ConnPieces) /\ Len(t4) = Len(t3) + Len(x3)
       /\ Laid(t4, 0, x1)
       /\ Laid(t4, Len(x1), B)
       /\ Laid(t4, Len(t1), x2)
       /\ Laid(t4, Len(t2), B)
       /\ Laid(t4, Len(t3), x3)
  <2>1. /\ t4 \in Seq(ConnPieces) /\ Len(t4) = Len(t3) + Len(x3)
        /\ Laid(t4, Len(t3), x3)
        /\ \A o, y : o \in Nat /\ y \in Seq(ConnPieces) /\ Laid(t3, o, y)
                       => Laid(t4, o, y)
    BY ONLY t4 = Joined(t3, x3), <1>2, <1>5, <1>13, AppendLays, ZenonT(60)
  <2>2. /\ 0 \in Nat /\ Len(x1) \in Nat /\ Len(t1) \in Nat /\ Len(t2) \in Nat
        /\ Len(t3) \in Nat
    BY ONLY <1>5, <1>11, <1>12, <1>13
  <2> QED
    BY ONLY <1>2, <1>5, <1>8, <1>13, <2>1, <2>2, ZenonT(60)
<1>15. /\ t5 \in Seq(ConnPieces) /\ Len(t5) = Len(t4) + Len(B)
       /\ Laid(t5, 0, x1)
       /\ Laid(t5, Len(x1), B)
       /\ Laid(t5, Len(t1), x2)
       /\ Laid(t5, Len(t2), B)
       /\ Laid(t5, Len(t3), x3)
       /\ Laid(t5, Len(t4), B)
  <2>1. /\ t5 \in Seq(ConnPieces) /\ Len(t5) = Len(t4) + Len(B)
        /\ Laid(t5, Len(t4), B)
        /\ \A o, y : o \in Nat /\ y \in Seq(ConnPieces) /\ Laid(t4, o, y)
                       => Laid(t5, o, y)
    BY ONLY t5 = Joined(t4, B), <1>2, <1>5, <1>14, AppendLays, ZenonT(60)
  <2>2. /\ 0 \in Nat /\ Len(x1) \in Nat /\ Len(t1) \in Nat /\ Len(t2) \in Nat
        /\ Len(t3) \in Nat /\ Len(t4) \in Nat
    BY ONLY <1>5, <1>11, <1>12, <1>13, <1>14
  <2> QED
    BY ONLY <1>2, <1>5, <1>8, <1>14, <2>1, <2>2, ZenonT(60)
<1>16. /\ t6 \in Seq(ConnPieces) /\ Len(t6) = Len(t5) + Len(x4)
       /\ Laid(t6, 0, x1)
       /\ Laid(t6, Len(x1), B)
       /\ Laid(t6, Len(t1), x2)
       /\ Laid(t6, Len(t2), B)
       /\ Laid(t6, Len(t3), x3)
       /\ Laid(t6, Len(t4), B)
       /\ Laid(t6, Len(t5), x4)
  <2>1. /\ t6 \in Seq(ConnPieces) /\ Len(t6) = Len(t5) + Len(x4)
        /\ Laid(t6, Len(t5), x4)
        /\ \A o, y : o \in Nat /\ y \in Seq(ConnPieces) /\ Laid(t5, o, y)
                       => Laid(t6, o, y)
    BY ONLY t6 = Joined(t5, x4), <1>2, <1>5, <1>15, AppendLays, ZenonT(60)
  <2>2. /\ 0 \in Nat /\ Len(x1) \in Nat /\ Len(t1) \in Nat /\ Len(t2) \in Nat
        /\ Len(t3) \in Nat /\ Len(t4) \in Nat /\ Len(t5) \in Nat
    BY ONLY <1>5, <1>11, <1>12, <1>13, <1>14, <1>15
  <2> QED
    BY ONLY <1>2, <1>5, <1>8, <1>15, <2>1, <2>2, ZenonT(60)
<1>17. /\ t7 \in Seq(ConnPieces) /\ Len(t7) = Len(t6) + Len(B)
       /\ Laid(t7, 0, x1)
       /\ Laid(t7, Len(x1), B)
       /\ Laid(t7, Len(t1), x2)
       /\ Laid(t7, Len(t2), B)
       /\ Laid(t7, Len(t3), x3)
       /\ Laid(t7, Len(t4), B)
       /\ Laid(t7, Len(t5), x4)
       /\ Laid(t7, Len(t6), B)
  <2>1. /\ t7 \in Seq(ConnPieces) /\ Len(t7) = Len(t6) + Len(B)
        /\ Laid(t7, Len(t6), B)
        /\ \A o, y : o \in Nat /\ y \in Seq(ConnPieces) /\ Laid(t6, o, y)
                       => Laid(t7, o, y)
    BY ONLY t7 = Joined(t6, B), <1>2, <1>5, <1>16, AppendLays, ZenonT(60)
  <2>2. /\ 0 \in Nat /\ Len(x1) \in Nat /\ Len(t1) \in Nat /\ Len(t2) \in Nat
        /\ Len(t3) \in Nat /\ Len(t4) \in Nat /\ Len(t5) \in Nat
        /\ Len(t6) \in Nat
    BY ONLY <1>5, <1>11, <1>12, <1>13, <1>14, <1>15, <1>16
  <2> QED
    BY ONLY <1>2, <1>5, <1>8, <1>16, <2>1, <2>2, ZenonT(60)
<1>18. /\ t8 \in Seq(ConnPieces) /\ Len(t8) = Len(t7) + Len(x5)
       /\ Laid(t8, 0, x1)
       /\ Laid(t8, Len(x1), B)
       /\ Laid(t8, Len(t1), x2)
       /\ Laid(t8, Len(t2), B)
       /\ Laid(t8, Len(t3), x3)
       /\ Laid(t8, Len(t4), B)
       /\ Laid(t8, Len(t5), x4)
       /\ Laid(t8, Len(t6), B)
       /\ Laid(t8, Len(t7), x5)
  <2>1. /\ t8 \in Seq(ConnPieces) /\ Len(t8) = Len(t7) + Len(x5)
        /\ Laid(t8, Len(t7), x5)
        /\ \A o, y : o \in Nat /\ y \in Seq(ConnPieces) /\ Laid(t7, o, y)
                       => Laid(t8, o, y)
    BY ONLY t8 = Joined(t7, x5), <1>2, <1>5, <1>17, AppendLays, ZenonT(60)
  <2>2. /\ 0 \in Nat /\ Len(x1) \in Nat /\ Len(t1) \in Nat /\ Len(t2) \in Nat
        /\ Len(t3) \in Nat /\ Len(t4) \in Nat /\ Len(t5) \in Nat
        /\ Len(t6) \in Nat /\ Len(t7) \in Nat
    BY ONLY <1>5, <1>11, <1>12, <1>13, <1>14, <1>15, <1>16, <1>17
  <2> QED
    BY ONLY <1>2, <1>5, <1>8, <1>17, <2>1, <2>2, ZenonT(60)
<1>21. /\ Len(x1) \in Nat /\ Len(x1) = 1 + Len(h)
       /\ Len(t1) = Len(x1) + 1 /\ Len(t2) = Len(t1) + 2
       /\ Len(t3) = Len(t2) + 1 /\ Len(t4) = Len(t3) + (1 + Len(n))
       /\ Len(t5) = Len(t4) + 1 /\ Len(t6) = Len(t5) + (1 + Len(u))
       /\ Len(t7) = Len(t6) + 1 /\ Len(t8) = Len(t7) + (1 + Len(p))
       /\ Len(t1) \in Nat /\ Len(t2) \in Nat /\ Len(t3) \in Nat
       /\ Len(t4) \in Nat /\ Len(t5) \in Nat /\ Len(t6) \in Nat
       /\ Len(t7) \in Nat
  BY ONLY <1>2, <1>4, <1>5, <1>11, <1>12, <1>13, <1>14, <1>15, <1>16, <1>17,
          <1>18
<1>22. /\ t8[Len(x1) + 1] = Blank /\ t8[Len(t2) + 1] = Blank
       /\ t8[Len(t4) + 1] = Blank /\ t8[Len(t6) + 1] = Blank
  BY ONLY <1>7, <1>18, <1>21, ZenonT(60)
<1>23. /\ Has(t8, 0, "host", h) /\ Has(t8, Len(t1), "port", one)
       /\ Has(t8, Len(t3), "dbname", n)
       /\ Has(t8, Len(t5), "user", u)
       /\ Has(t8, Len(t7), "password", p)
  BY ONLY <1>6, <1>18, <1>21, 0 \in Nat, ZenonT(60)
<1>24. /\ t8[Len(t1)] = Blank /\ t8[Len(t3)] = Blank
       /\ t8[Len(t5)] = Blank /\ t8[Len(t7)] = Blank
  BY ONLY <1>21, <1>22, Zenon
<1>25. /\ Len(t1) = 2 + Len(h) /\ Len(t3) = Len(t1) + 3
       /\ Len(t5) = Len(t3) + 2 + Len(n) /\ Len(t7) = Len(t5) + 2 + Len(u)
       /\ Len(t8) = Len(t7) + 1 + Len(p)
  <2>1. Len(t1) = 2 + Len(h)
    <3>1. /\ Len(x1) = 1 + Len(h) /\ Len(t1) = Len(x1) + 1
          /\ Len(h) \in Nat
      BY ONLY <1>4, <1>21, Zenon
    <3> QED
      BY ONLY <3>1
  <2>2. Len(t3) = Len(t1) + 3
    <3>1. /\ Len(t2) = Len(t1) + 2 /\ Len(t3) = Len(t2) + 1
          /\ Len(t1) \in Nat
      BY ONLY <1>4, <1>21, Zenon
    <3> QED
      BY ONLY <3>1
  <2>3. Len(t5) = Len(t3) + 2 + Len(n)
    <3>1. /\ Len(t4) = Len(t3) + (1 + Len(n)) /\ Len(t5) = Len(t4) + 1
          /\ Len(t3) \in Nat /\ Len(n) \in Nat
      BY ONLY <1>4, <1>21, Zenon
    <3> QED
      BY ONLY <3>1
  <2>4. Len(t7) = Len(t5) + 2 + Len(u)
    <3>1. /\ Len(t6) = Len(t5) + (1 + Len(u)) /\ Len(t7) = Len(t6) + 1
          /\ Len(t5) \in Nat /\ Len(u) \in Nat
      BY ONLY <1>4, <1>21, Zenon
    <3> QED
      BY ONLY <3>1
  <2>5. Len(t8) = Len(t7) + 1 + Len(p)
    <3>1. /\ Len(t8) = Len(t7) + (1 + Len(p))
          /\ Len(t7) \in Nat /\ Len(p) \in Nat
      BY ONLY <1>4, <1>21, Zenon
    <3> QED
      BY ONLY <3>1
  <2> QED
    BY ONLY <2>1, <2>2, <2>3, <2>4, <2>5
<1>26. Places(c, t8, Len(t1), Len(t3), Len(t5), Len(t7))
  BY ONLY h = c.host, n = c.dbname, u = c.user, p = c.password,
          one = <<Digits(c.port)>>, <1>18, <1>21, <1>23, <1>24, <1>25,
          ZenonT(60) DEF Places
<1> QED
  BY ONLY <1>1, <1>26, Zenon

(* What the settings meant cost: one piece more than the text has.         *)
LEMMA MeantCosts ==
    ASSUME NEW c, c.host \in Seq(ConnPieces), c.dbname \in Seq(ConnPieces),
           c.user \in Seq(ConnPieces), c.password \in Seq(ConnPieces),
           c.port \in Nat, NEW a, NEW b, NEW d, NEW e, NEW text,
           Places(c, text, a, b, d, e)
    PROVE  Sum(MeantBy(c)) = Len(text) + 1
<1> PICK one : one = <<Digits(c.port)>>
  OBVIOUS
<1> PICK meant : meant = MeantBy(c)
  OBVIOUS
<1>1. /\ meant["host"] = {c.host} /\ meant["port"] = {one}
      /\ meant["dbname"] = {c.dbname} /\ meant["user"] = {c.user}
      /\ meant["password"] = {c.password} /\ meant["other"] = {}
  BY DEF MeantBy, ConnOptions
<1>2. one \in Seq(ConnPieces) /\ Len(one) = 1
  <2>1. Digits(c.port) \in ConnPieces
    BY DEF ConnPieces, Digits
  <2> QED
    BY <2>1
<1>3. /\ Size({}) = 0
      /\ \A value \in Seq(ConnPieces) : Size({value}) = 2 + Len(value)
  BY Sizes
<1>4. /\ Size(meant["host"]) = 2 + Len(c.host)
      /\ Size(meant["port"]) = 2 + Len(one)
      /\ Size(meant["dbname"]) = 2 + Len(c.dbname)
      /\ Size(meant["user"]) = 2 + Len(c.user)
      /\ Size(meant["password"]) = 2 + Len(c.password)
      /\ Size(meant["other"]) = 0
  BY <1>1, <1>2, <1>3, Zenon
<1>5. PICK h \in Nat : h = Len(c.host)
  OBVIOUS
<1>6. PICK n \in Nat : n = Len(c.dbname)
  OBVIOUS
<1>7. PICK u \in Nat : u = Len(c.user)
  OBVIOUS
<1>8. PICK p \in Nat : p = Len(c.password)
  OBVIOUS
<1>9. Sum(meant) = (2 + h) + (2 + 1) + (2 + n) + (2 + u) + (2 + p) + 0
  BY ONLY <1>2, <1>4, <1>5, <1>6, <1>7, <1>8, Zenon DEF Sum
<1>10. PICK l : l = Len(text)
  OBVIOUS
<1>11. a = 2 + h /\ b = a + 3 /\ d = b + 2 + n /\ e = d + 2 + u /\ l = e + 1 + p
  BY <1>5, <1>6, <1>7, <1>8, <1>10 DEF Places
<1>12. Sum(meant) = l + 1
  BY ONLY <1>9, <1>11, h \in Nat, n \in Nat, u \in Nat, p \in Nat
<1> QED
  BY <1>10, <1>12

(* Behind the first o pieces the options of K are set as they are meant,   *)
(* the others not yet.                                                     *)
ReadAsMeant(f, o, K, meant) ==
    /\ f[o].mode = "name"
    /\ \A k \in ConnOptions : f[o].set[k] = IF k \in K THEN meant[k] ELSE {}

(* f reads the text, which is as long as what is meant costs.              *)
ReadsTextOf(f, text, meant) ==
    text \in Seq(ConnPieces) /\ Reads(f, text) /\ Sum(meant) = Len(text) + 1

(* A setting with a blank behind it, the piece before next + 1.            *)
SettingAt(text, o, k, value, next) ==
    /\ o \in Nat /\ k \in ConnOptions /\ value \in Seq(ConnPieces)
    /\ Has(text, o, k, value)
    /\ next \in 1..Len(text) /\ next = o + 2 + Len(value) /\ text[next] = Blank

(* One more such setting: read as it is meant, or lost.                    *)
LEMMA NextSetting ==
    ASSUME NEW text, NEW f, NEW meant, ReadsTextOf(f, text, meant),
           NEW o, NEW k, NEW value, NEW next,
           SettingAt(text, o, k, value, next), meant[k] = {value},
           NEW K, NEW L, L = K \cup {k}, ReadAsMeant(f, o, K, meant)
    PROVE  /\ NeedsNoQuotes(value) => ReadAsMeant(f, next, L, meant)
           /\ ~NeedsNoQuotes(value) => LibpqReads(text) # {meant}
<1>1. /\ text \in Seq(ConnPieces) /\ Reads(f, text)
      /\ Sum(meant) = Len(text) + 1
  BY DEF ReadsTextOf
<1>2. /\ o \in Nat /\ k \in ConnOptions /\ value \in Seq(ConnPieces)
      /\ Has(text, o, k, value)
      /\ next \in 1..Len(text) /\ next = o + 2 + Len(value)
      /\ text[next] = Blank
  BY DEF SettingAt
<1>3. /\ f[o].mode = "name"
      /\ \A j \in ConnOptions :
             f[o].set[j] = IF j \in K THEN meant[j] ELSE {}
  BY DEF ReadAsMeant
<1>4. ASSUME NeedsNoQuotes(value) PROVE ReadAsMeant(f, next, L, meant)
  <2>1. /\ f[next].mode = "name" /\ f[next].set[k] = {value}
        /\ \A j \in ConnOptions \ {k} : f[next].set[j] = f[o].set[j]
    BY <1>1, <1>2, <1>3, <1>4, SettingIsRead
  <2> QED
    BY <1>3, <2>1 DEF ReadAsMeant
<1>5. ASSUME ~NeedsNoQuotes(value) PROVE LibpqReads(text) # {meant}
  <2>1. value = <<>> => o + 2 <= Len(text) /\ text[o + 2] = Blank
    BY <1>2
  <2>2. \E i \in 0..Len(text) : Lost(f[i], i, meant)
    BY <1>1, <1>2, <1>3, <1>5, <2>1, UnquotedIsLost, ZenonT(60)
  <2> QED
    BY <1>1, <2>2, LostForGood
<1> QED
  BY <1>4, <1>5

(* Only the options of K and k are meant to be set.                        *)
MeantOnly(meant, K, k) ==
    /\ meant = [j \in ConnOptions |-> meant[j]]
    /\ \A j \in ConnOptions : j \in K \/ j = k \/ meant[j] = {}

(* A setting that is not to nothing and ends the text.                     *)
EndsWith(text, o, k, value) ==
    /\ o \in Nat /\ k \in ConnOptions /\ value \in Seq(ConnPieces)
    /\ value # <<>> /\ Has(text, o, k, value) /\ Len(text) = o + 1 + Len(value)

(* The last setting, which ends the text.                                  *)
LEMMA LastSetting ==
    ASSUME NEW text, NEW f, NEW meant, ReadsTextOf(f, text, meant),
           NEW o, NEW k, NEW value, EndsWith(text, o, k, value),
           meant[k] = {value}, NEW K, ReadAsMeant(f, o, K, meant),
           MeantOnly(meant, K, k)
    PROVE  /\ NeedsNoQuotes(value) => LibpqReads(text) = {meant}
           /\ ~NeedsNoQuotes(value) => LibpqReads(text) # {meant}
<1>0. /\ o \in Nat /\ k \in ConnOptions /\ value \in Seq(ConnPieces)
      /\ value # <<>> /\ Has(text, o, k, value)
      /\ Len(text) = o + 1 + Len(value)
  BY DEF EndsWith
<1>1. /\ text \in Seq(ConnPieces) /\ Reads(f, text)
      /\ Sum(meant) = Len(text) + 1
  BY DEF ReadsTextOf
<1>2. /\ f[o].mode = "name"
      /\ \A j \in ConnOptions \ {k} : f[o].set[j] = meant[j]
  BY DEF ReadAsMeant, MeantOnly
<1>3. ASSUME NeedsNoQuotes(value) PROVE LibpqReads(text) = {meant}
  <2>0. Taken(f[o + 1 + Len(value)], k, value, f[o].set)
    BY ONLY <1>0, <1>1, <1>2, <1>3, WholeIsTaken, ZenonT(60)
  <2> PICK r : r = f[o + 1 + Len(value)]
    OBVIOUS
  <2>1. /\ r.mode = "value" /\ r.open = {k} /\ r.value = value
        /\ r.set = f[o].set
    BY ONLY <2>0, r = f[o + 1 + Len(value)], Zenon DEF Taken
  <2>2. LibpqReads(text) = {Stored(r).set}
    BY <1>0, <1>1, <2>1 DEF Reads, Settings
  <2>3. Stored(r).set = meant
    BY <1>0, <1>2, <2>1 DEF Stored, MeantOnly
  <2> QED
    BY <2>2, <2>3
<1>4. ASSUME ~NeedsNoQuotes(value) PROVE LibpqReads(text) # {meant}
  <2>1. value = <<>> => o + 2 <= Len(text) /\ text[o + 2] = Blank
    BY <1>0
  <2>2. \E i \in 0..Len(text) : Lost(f[i], i, meant)
    BY ONLY <1>0, <1>1, <1>2, <1>4, <2>1, meant[k] = {value},
            UnquotedIsLost, ZenonT(60)
  <2> QED
    BY <1>1, <2>2, LostForGood
<1> QED
  BY <1>3, <1>4

(* What postgres_conninfo makes of a configuration reads back exactly where*)
(* none of its values needs quotes.                                        *)
LEMMA ConfigReadsBack ==
    ASSUME NEW c, c.host \in Seq(ConnPieces), c.dbname \in Seq(ConnPieces),
           c.user \in Seq(ConnPieces), c.password \in Seq(ConnPieces),
           c.password # <<>>, c.port \in Nat
    PROVE  LibpqReads(Conninfo(c)) = {MeantBy(c)}
               <=> /\ NeedsNoQuotes(c.host) /\ NeedsNoQuotes(c.dbname)
                   /\ NeedsNoQuotes(c.user) /\ NeedsNoQuotes(c.password)
<1> PICK text : text = Conninfo(c)
  OBVIOUS
<1> PICK meant : meant = MeantBy(c)
  OBVIOUS
<1> PICK one : one = <<Digits(c.port)>>
  OBVIOUS
<1> PICK h : h = c.host
  OBVIOUS
<1> PICK n : n = c.dbname
  OBVIOUS
<1> PICK u : u = c.user
  OBVIOUS
<1> PICK p : p = c.password
  OBVIOUS
<1>1. \E a, b, d, e : Places(c, text, a, b, d, e)
  BY ConninfoIsLaid
<1>2. PICK a, b, d, e : Places(c, text, a, b, d, e)
  BY <1>1
<1>3. /\ text \in Seq(ConnPieces) /\ Len(text) \in Nat
      /\ h \in Seq(ConnPieces) /\ n \in Seq(ConnPieces)
      /\ u \in Seq(ConnPieces) /\ p \in Seq(ConnPieces)
      /\ Len(h) \in Nat /\ Len(n) \in Nat /\ Len(u) \in Nat /\ Len(p) \in Nat
  <2>1. text \in Seq(ConnPieces)
    BY <1>2 DEF Places
  <2>2. /\ h \in Seq(ConnPieces) /\ n \in Seq(ConnPieces)
        /\ u \in Seq(ConnPieces) /\ p \in Seq(ConnPieces)
    OBVIOUS
  <2>3. \A s \in Seq(ConnPieces) : Len(s) \in Nat
    OBVIOUS
  <2> QED
    BY ONLY <2>1, <2>2, <2>3
<1>4. PICK f : Reads(f, text)
  BY <1>3, ReadsInSteps
<1>5. Sum(meant) = Len(text) + 1
  BY <1>2, MeantCosts
<1>6. /\ meant["host"] = {h} /\ meant["port"] = {one}
      /\ meant["dbname"] = {n} /\ meant["user"] = {u}
      /\ meant["password"] = {p} /\ meant["other"] = {}
      /\ meant = [j \in ConnOptions |-> meant[j]]
  BY DEF MeantBy, ConnOptions
<1>7. /\ one \in Seq(ConnPieces) /\ Len(one) = 1 /\ NeedsNoQuotes(one)
  <2>1. /\ Digits(c.port) \in ConnPieces
        /\ Digits(c.port) \notin {Blank, Backslash, Quote}
    BY DEF ConnPieces, Digits, Blank, Backslash, Quote
  <2>2. /\ one \in Seq(ConnPieces) /\ Len(one) = 1 /\ one[1] = Digits(c.port)
        /\ DOMAIN one = {1} /\ one # <<>>
    BY <2>1
  <2> QED
    BY <2>1, <2>2 DEF NeedsNoQuotes
<1>8. /\ a \in Nat /\ b \in Nat /\ d \in Nat /\ e \in Nat
      /\ a = 0 + 2 + Len(h) /\ b = a + 2 + Len(one) /\ d = b + 2 + Len(n)
      /\ e = d + 2 + Len(u) /\ Len(text) = e + 1 + Len(p)
  <2>1. /\ a \in Nat /\ b \in Nat /\ d \in Nat /\ e \in Nat
        /\ a = 2 + Len(h) /\ b = a + 3 /\ d = b + 2 + Len(n)
        /\ e = d + 2 + Len(u) /\ Len(text) = e + 1 + Len(p)
    BY <1>2 DEF Places
  <2> QED
    BY ONLY <1>3, <1>7, <2>1
<1>9. /\ a \in 1..Len(text) /\ b \in 1..Len(text)
      /\ d \in 1..Len(text) /\ e \in 1..Len(text)
  BY ONLY <1>3, <1>7, <1>8
<1>10. /\ Has(text, 0, "host", h) /\ text[a] = Blank
       /\ Has(text, a, "port", one) /\ text[b] = Blank
       /\ Has(text, b, "dbname", n) /\ text[d] = Blank
       /\ Has(text, d, "user", u) /\ text[e] = Blank
       /\ Has(text, e, "password", p)
  BY <1>2 DEF Places
<1> PICK K0 : K0 = {}
  OBVIOUS
<1> PICK K1 : K1 = K0 \cup {"host"}
  OBVIOUS
<1> PICK K2 : K2 = K1 \cup {"port"}
  OBVIOUS
<1> PICK K3 : K3 = K2 \cup {"dbname"}
  OBVIOUS
<1> PICK K4 : K4 = K3 \cup {"user"}
  OBVIOUS
<1>11. ReadAsMeant(f, 0, K0, meant)
  BY <1>4 DEF Reads, NothingRead, ReadAsMeant
<1>12. ReadsTextOf(f, text, meant)
  BY <1>3, <1>4, <1>5 DEF ReadsTextOf
<1>13. /\ "host" \in ConnOptions /\ "port" \in ConnOptions
       /\ "dbname" \in ConnOptions /\ "user" \in ConnOptions
       /\ "password" \in ConnOptions
       /\ \A j \in ConnOptions : j \in K4 \/ j = "password" \/ j = "other"
  BY DEF ConnOptions
<1>14. /\ SettingAt(text, 0, "host", h, a) /\ SettingAt(text, a, "port", one, b)
       /\ SettingAt(text, b, "dbname", n, d) /\ SettingAt(text, d, "user", u, e)
  BY ONLY <1>3, <1>7, <1>8, <1>9, <1>10, <1>13, 0 \in Nat, Zenon DEF SettingAt
<1>15. /\ NeedsNoQuotes(h) => ReadAsMeant(f, a, K1, meant)
       /\ ~NeedsNoQuotes(h) => LibpqReads(text) # {meant}
  <2>1. SettingAt(text, 0, "host", h, a) /\ meant["host"] = {h}
    BY <1>6, <1>14
  <2>2. ReadAsMeant(f, 0, K0, meant)
    BY <1>11
  <2> QED
    BY ONLY <1>12, <2>1, <2>2, K1 = K0 \cup {"host"}, NextSetting, ZenonT(60)
<1>16. ASSUME NeedsNoQuotes(h)
       PROVE  ReadAsMeant(f, b, K2, meant)
  <2>1. SettingAt(text, a, "port", one, b) /\ meant["port"] = {one}
    BY <1>6, <1>14
  <2>2. ReadAsMeant(f, a, K1, meant) /\ NeedsNoQuotes(one)
    BY <1>7, <1>15, <1>16
  <2> QED
    BY ONLY <1>12, <2>1, <2>2, K2 = K1 \cup {"port"}, NextSetting, ZenonT(60)
<1>17. ASSUME NeedsNoQuotes(h)
       PROVE  /\ NeedsNoQuotes(n) => ReadAsMeant(f, d, K3, meant)
              /\ ~NeedsNoQuotes(n) => LibpqReads(text) # {meant}
  <2>1. SettingAt(text, b, "dbname", n, d) /\ meant["dbname"] = {n}
    BY <1>6, <1>14
  <2>2. ReadAsMeant(f, b, K2, meant)
    BY <1>16, <1>17
  <2> QED
    BY ONLY <1>12, <2>1, <2>2, K3 = K2 \cup {"dbname"}, NextSetting, ZenonT(60)
<1>18. ASSUME NeedsNoQuotes(h) /\ NeedsNoQuotes(n)
       PROVE  /\ NeedsNoQuotes(u) => ReadAsMeant(f, e, K4, meant)
              /\ ~NeedsNoQuotes(u) => LibpqReads(text) # {meant}
  <2>1. SettingAt(text, d, "user", u, e) /\ meant["user"] = {u}
    BY <1>6, <1>14
  <2>2. ReadAsMeant(f, d, K3, meant)
    BY <1>17, <1>18
  <2> QED
    BY ONLY <1>12, <2>1, <2>2, K4 = K3 \cup {"user"}, NextSetting, ZenonT(60)
<1>19. ASSUME ReadAsMeant(f, e, K4, meant)
       PROVE  LibpqReads(text) = {meant} <=> NeedsNoQuotes(p)
  <2>1. p # <<>> /\ p \in Seq(ConnPieces)
    BY <1>3
  <2>2. \A j \in ConnOptions : j \in K4 \/ j = "password" \/ meant[j] = {}
    BY <1>6, <1>13, Zenon
  <2>3. meant["password"] = {p} /\ MeantOnly(meant, K4, "password")
    BY <1>6, <2>2 DEF MeantOnly
  <2>4. EndsWith(text, e, "password", p)
    BY <1>8, <1>10, <1>13, <2>1 DEF EndsWith
  <2>5. /\ NeedsNoQuotes(p) => LibpqReads(text) = {meant}
        /\ ~NeedsNoQuotes(p) => LibpqReads(text) # {meant}
    BY ONLY <1>12, <1>19, <2>3, <2>4, LastSetting, ZenonT(60)
  <2> QED
    BY ONLY <2>5, Zenon
<1> QED
  BY <1>15, <1>17, <1>18, <1>19, Zenon

(* Config.cpp:59-64: libpq reads what postgres_conninfo made of every      *)
(* configuration as the settings it was made from exactly where no value   *)
(* needs quotes, and the port among them.                                  *)
THEOREM UnquotedValuesReadBack == Spec => []ConninfoReadsBack
<1>1. ASSUME NEW env \in Environments, NEW c \in FromEnv(env).config
      PROVE  LibpqReads(Conninfo(c)) = {MeantBy(c)}
                 <=> \A v \in {c.host, c.dbname, c.user, c.password} :
                         NeedsNoQuotes(v)
  <2> PICK spec : spec = ReadEnvOr(env, "POSTGRES_HOST", NoSpec)
    OBVIOUS
  <2>1. /\ Missing(env) = {}
        /\ \E n \in PortOf(spec) : c = PostgresOf(env, spec, n)
    BY DEF FromEnv
  <2>2. \A name \in Required : \A fallback :
            ReadEnvOr(env, name, fallback) \in ReadEnv(env, name)
    BY <2>1, ReadsWhatIsSet DEF Missing
  <2>3. \A name \in GivenToPostgres :
            ReadEnv(env, name) \subseteq Seq(ConnPieces) \ {<<>>}
    BY EnvironmentsAssumption DEF ReadEnv, Nothing, GivenToPostgres
  <2>4. spec.host \in Seq(ConnPieces)
    <3>1. spec \in env.POSTGRES_HOST
      BY <2>2 DEF ReadEnv, Required
    <3> QED
      BY <3>1, EnvironmentsAssumption
  <2>5. PortOf(spec) \subseteq Nat
    <3>1. 1..MaxPort \subseteq Nat
      OBVIOUS
    <3>2. FromChars16(spec.port) \subseteq 1..MaxPort
      BY Zenon DEF FromChars16
    <3>3. DefaultPort \in Nat
      BY DEF DefaultPort
    <3> QED
      BY ONLY <3>1, <3>2, <3>3 DEF PortOf
  <2>6. /\ c.host = spec.host /\ c.port \in Nat
        /\ c.dbname = ReadEnvOr(env, "POSTGRES_DATABASE", <<>>)
        /\ c.user = ReadEnvOr(env, "POSTGRES_USER", <<>>)
        /\ c.password = ReadEnvOr(env, "POSTGRES_PASSWORD", <<>>)
    BY <2>1, <2>5 DEF PostgresOf
  <2>7. /\ c.dbname \in Seq(ConnPieces) \ {<<>>}
        /\ c.user \in Seq(ConnPieces) \ {<<>>}
        /\ c.password \in Seq(ConnPieces) \ {<<>>}
    BY <2>2, <2>3, <2>6 DEF Required, GivenToPostgres
  <2>8. LibpqReads(Conninfo(c)) = {MeantBy(c)}
            <=> /\ NeedsNoQuotes(c.host) /\ NeedsNoQuotes(c.dbname)
                /\ NeedsNoQuotes(c.user) /\ NeedsNoQuotes(c.password)
    BY <2>4, <2>6, <2>7, ConfigReadsBack
  <2> QED
    BY <2>8, Zenon
<1>2. InputOK => ConninfoReadsBack
  BY <1>1 DEF InputOK, ConninfoReadsBack
<1> QED
  BY <1>2, InputsStay, PTL
=============================================================================
