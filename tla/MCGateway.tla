----------------------------- MODULE MCGateway ------------------------------
(* The gateway on a small security_master: an option, a future, the index, *)
(* and a row that is not mapped; payloads with one price, both or none.    *)
EXTENDS Gateway

Sym(under, parts) == [under |-> under, parts |-> parts]
Row(id, type, symbol) ==
    [instrument_id |-> id, symbol |-> symbol, instrument_type |-> type,
     option_type |-> {}, strike |-> {}, expiration |-> {}]

MCPieces == {"BTC", "PERPETUAL", "27JUN25", "90000", "C", "btc_usd"}
MCExpiryOf == [p \in MCPieces |-> IF p = "27JUN25" THEN {486392} ELSE {}]
MCNumberOf == [p \in MCPieces |-> IF p = "90000" THEN {90000} ELSE {}]

MCRows ==
    {Row(1, "future", Sym("none", <<"BTC", "PERPETUAL">>)),
     Row(2, "option", Sym("none", <<"BTC", "27JUN25", "90000", "C">>)),
     Row(3, "future", Sym("none", <<"BTC", "27JUN25">>)),
     Row(4, "currency", Sym("inside", <<"btc_usd">>))}

Num(n) == {[type |-> "int64", n |-> n]}
MCPayloads ==
    {[timestamp |-> Num(1), last_price |-> Num(5), price |-> {}],
     [timestamp |-> Num(1), last_price |-> {}, price |-> Num(6)],
     [timestamp |-> {}, last_price |-> Num(5), price |-> Num(6)]}

=============================================================================
