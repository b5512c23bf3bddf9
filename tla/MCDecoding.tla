----------------------------- MODULE MCDecoding -----------------------------
(* Decoding on small universes of inputs.                                  *)
EXTENDS Decoding, Functions

(* Rows: one to five pieces; only the shapes near an accepted one are taken*)
(* past three pieces, to keep the universe small.                          *)

MCPieces == {"", "BTC", "PERPETUAL", "27JUN25", "31JUN25", "0", "100000",
             "C", "P"}
MCExpiryOf ==
    [p \in MCPieces |->
        CASE p = "27JUN25" -> ParseExpiry(DateText(27, "JUN", 25))
          [] p = "31JUN25" -> ParseExpiry(DateText(31, "JUN", 25))
          [] OTHER -> {}]
MCNumberOf == [p \in MCPieces |-> CASE p = "0" -> {0}
                                    [] p = "100000" -> {100000}
                                    [] OTHER -> {}]

PieceLists ==
    {<<p>> : p \in MCPieces}
    \cup (MCPieces \X MCPieces)
    \cup {<<"BTC", p, "100000">> : p \in MCPieces}
    \cup ({"", "BTC"} \X {"27JUN25", "31JUN25", "C"} \X {"0", "100000", "P"}
              \X MCPieces)
    \cup {<<"BTC", "27JUN25", "100000", "C", p>> : p \in MCPieces}

MCSymbols == {s \in [under : Underscores, parts : PieceLists] :
                  s.parts = <<"">> => s.under = "none"}

MCRows ==
    [instrument_id : {7}, symbol : MCSymbols,
     instrument_type : {"option", "future", "currency", "perpetual"},
     option_type : Optional({"call", "put", "straddle"}),
     strike : Optional({99999}),
     expiration : Optional({11})]

(* Texts near an expiry: each day, month and year of the century, days that*)
(* are in no calendar, pieces that are no number or no month.              *)
OptionalNumbers(S) == {{}} \cup {{n} : n \in S}
MCTexts ==
    [size : {7}, day : OptionalNumbers(0..33),
     month : Range(Months) \cup {"XXX"},
     year : OptionalNumbers(0..99)]
    \cup [size : {5, 6, 8}, day : OptionalNumbers(0..9),
          month : Range(Months), year : {{25}}]

(* Payloads: timestamps on both sides of what Bits hold, in milliseconds   *)
(* and once widened, in the three ways JSON has for a number.              *)
Number(type, S) == {{[type |-> type, n |-> n]} : n \in S}
NoNumbers == {{}, {[type |-> "null"]}, {[type |-> "string", text |-> "1"]}}
Stamps ==
    NoNumbers \cup Number("int64", {-13, -1, 0, 5, 12, 13, 127})
    \cup Number("uint64", {0, 5, 12, 13, 200})
    \cup Number("double", {-1, 0, 10, 11, 24, 26, 600})
Prices ==
    NoNumbers \cup Number("int64", {0, 1}) \cup Number("uint64", {2})
    \cup Number("double", {0, 3})
Names == {{}, {[type |-> "null"]}, {[type |-> "string", text |-> ""]},
          {[type |-> "string", text |-> "BTC-27JUN25"]}}
MCPayloads == [timestamp : Stamps, last_price : Prices, price : Prices,
             instrument_name : Names]

(* Environments: each variable absent, set to nothing, or set; hosts with  *)
(* and without a port of every kind.                                       *)
Word == <<Plain("v")>>
Values == {{}, {<<>>}, {<<"v">>}}
PostgresValues == {{}, {<<>>}, {Word}}
Hosts == {{}} \cup {{s} : s \in HostSpecs({<<>>, <<Plain("db")>>},
                                              {0, 5432, 65535, 65536})}

(* Hosts and passwords of two pieces and three, of every kind of piece.    *)
Kinds == {Blank, Backslash, Quote, Plain("v"), NameOf("host"),
          NameOf("password"), NameOf("other")}
UpTo(n) == UNION {[1..k -> Kinds] : k \in 1..n}
OneHost(host) == {[host |-> host, colon |-> TRUE,
                   port |-> [NoText EXCEPT !.number = {5432}]]}

MCEnvironments ==
    [CLIENT_ID : {{}, {<<"v">>}}, CLIENT_SECRET : Values,
     POSTGRES_HOST : Hosts, POSTGRES_DATABASE : PostgresValues,
     POSTGRES_USER : {{}, {Word}},
     POSTGRES_PASSWORD : PostgresValues,
     DERIBIT_WS_HOST : {{}}, DERIBIT_WS_PORT : {{<<"8443">>}},
     DERIBIT_TICKER_INTERVAL : {{}, {<<>>}, {<<"raw">>}},
     QUANT_LOG_LEVEL : {{}}]
    \cup [CLIENT_ID : {{<<"v">>}}, CLIENT_SECRET : {{<<"v">>}},
          POSTGRES_HOST : {{NoSpec}}, POSTGRES_DATABASE : PostgresValues,
          POSTGRES_USER : PostgresValues, POSTGRES_PASSWORD : PostgresValues,
          DERIBIT_WS_HOST : Values, DERIBIT_WS_PORT : Values,
          DERIBIT_TICKER_INTERVAL : Values,
          QUANT_LOG_LEVEL : Values \cup {{<<"off">>}, {<<"warn">>}}]
    \cup [CLIENT_ID : {{<<"v">>}}, CLIENT_SECRET : {{<<"v">>}},
          POSTGRES_HOST : {OneHost(v) : v \in UpTo(2) \cup {<<>>}},
          POSTGRES_DATABASE : {{Word}, {<<Quote, NameOf("host"), Quote>>}},
          POSTGRES_USER : {{Word}, {<<Plain("v"), Blank, Plain("w")>>}},
          POSTGRES_PASSWORD : {{v} : v \in UpTo(3)},
          DERIBIT_WS_HOST : {{}}, DERIBIT_WS_PORT : {{}},
          DERIBIT_TICKER_INTERVAL : {{}}, QUANT_LOG_LEVEL : {{}}]

=============================================================================
