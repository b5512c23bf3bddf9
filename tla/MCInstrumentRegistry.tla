------------------------ MODULE MCInstrumentRegistry ------------------------
(* InstrumentRegistry on the rows of a small security_master.              *)
EXTENDS InstrumentRegistry

Sym(under, parts) == [under |-> under, parts |-> parts]

MCPieces == {"BTC", "PERPETUAL", "27JUN25", "100000", "90000", "C", "btc_usd"}
MCExpiryOf == [p \in MCPieces |-> IF p = "27JUN25" THEN {10} ELSE {}]
MCNumberOf == [p \in MCPieces |-> IF p \in {"100000", "90000"} THEN {1} ELSE {}]

MCSymbols ==
    {Sym("inside", <<"btc_usd">>), Sym("none", <<"BTC", "PERPETUAL">>),
     Sym("none", <<"BTC", "27JUN25">>),
     Sym("none", <<"BTC", "27JUN25", "100000", "C">>),
     Sym("none", <<"BTC", "27JUN25", "90000", "C">>)}

MCRows ==
    [instrument_id : 1..5, symbol : MCSymbols,
     instrument_type : {"option", "future", "currency"},
     option_type : {{}, {"straddle"}}, strike : {{}}, expiration : {{}}]

=============================================================================
