-------------------------- MODULE InstrumentMapping -------------------------
(***************************************************************************)
(* From a database row to the gateway's identity of an instrument:         *)
(* parse_symbol (model.cpp), to_instrument_key (InstrumentRepository.cpp)  *)
(* and channel_for (InstrumentRegistry.cpp).  All three are pure.          *)
(*                                                                         *)
(* A std::optional is a set of at most one element, {} being nullopt; so   *)
(* is a double that may be NaN.  A symbol is what parse_symbol looks at:   *)
(* where its first underscore is, and its pieces between dashes.           *)
(***************************************************************************)
EXTENDS Integers, Sequences

CONSTANTS
    ExpiryOf,       \* the instant parse_expiry makes of a piece, or {}
    NumberOf,       \* the number from_chars makes of a piece, or {}
    Interval        \* the ticker interval of the session

Optional(S) == {{}} \cup {{x} : x \in S}

(* Where find('_') hits: nowhere, at either end of the symbol, or inside. *)
Underscores == {"none", "edge", "inside"}

(* Mutant of OrElse: what the symbol says wins over the database. *)
SymbolWins(a, b) == IF b # {} THEN b ELSE a

OrElse(a, b) == IF a # {} THEN a ELSE b
-----------------------------------------------------------------------------
(* parse_symbol *)

(* The fields a key is constructed with: id 0, strike NaN, expiry the epoch*)
(* (here {}), right Call.                                                  *)
KeyOf(symbol, kind) ==
    [id |-> 0, symbol |-> symbol, kind |-> kind,
     expiry |-> {}, strike |-> {}, right |-> "Call"]

HasPieces(s, n) == s.under = "none" /\ Len(s.parts) = n /\ s.parts[1] # ""

IsPerpetual(s) == HasPieces(s, 2) /\ s.parts[2] = "PERPETUAL"

IsFuture(s) ==
    /\ HasPieces(s, 2)
    /\ s.parts[2] # "PERPETUAL"
    /\ ExpiryOf[s.parts[2]] # {}

(* Mutant of IsOption: a strike of zero will do. *)
IsOptionAnyStrike(s) ==
    /\ HasPieces(s, 4)
    /\ ExpiryOf[s.parts[2]] # {}
    /\ NumberOf[s.parts[3]] # {}
    /\ s.parts[4] \in {"C", "P"}

IsOption(s) ==
    /\ HasPieces(s, 4)
    /\ ExpiryOf[s.parts[2]] # {}
    /\ \E strike \in NumberOf[s.parts[3]] : strike > 0
    /\ s.parts[4] \in {"C", "P"}

ParseSymbol(s) ==
    CASE s.under = "inside" -> {KeyOf(s, "Index")}
      [] IsPerpetual(s)     -> {KeyOf(s, "Perpetual")}
      [] IsFuture(s)        -> {[KeyOf(s, "Future") EXCEPT
                                     !.expiry = ExpiryOf[s.parts[2]]]}
      [] IsOption(s)        -> {[KeyOf(s, "Option") EXCEPT
                                     !.expiry = ExpiryOf[s.parts[2]],
                                     !.strike = NumberOf[s.parts[3]],
                                     !.right = IF s.parts[4] = "C"
                                               THEN "Call" ELSE "Put"]}
      [] OTHER              -> {}
-----------------------------------------------------------------------------
(* to_instrument_key *)

(* The database's own strike, right and expiry win where it has them; a    *)
(* right that is neither call nor put condemns the row.                    *)
WithOptionColumns(key, row) ==
    IF row.option_type \in {{}, {"call"}, {"put"}}
    THEN {[key EXCEPT !.id = row.instrument_id,
                      !.strike = OrElse(row.strike, key.strike),
                      !.right = CASE row.option_type = {"call"} -> "Call"
                                  [] row.option_type = {"put"} -> "Put"
                                  [] OTHER -> key.right,
                      !.expiry = OrElse(row.expiration, key.expiry)]}
    ELSE {}

(* Mutant of ToInstrumentKey: the type column is not consulted. *)
ToKeyBySymbol(row) ==
    UNION {WithOptionColumns(key, row) : key \in ParseSymbol(row.symbol)}

(* What the row's type column claims, against what its symbol says: only a *)
(* row on which both agree is mapped.                                      *)
ToInstrumentKey(row) ==
    UNION {CASE row.instrument_type = "option" /\ key.kind = "Option" ->
                    WithOptionColumns(key, row)
             [] row.instrument_type = "future" /\ key.kind = "Future" ->
                    {[key EXCEPT !.id = row.instrument_id,
                                 !.expiry = OrElse(row.expiration, key.expiry),
                                 !.strike = {}]}
             [] row.instrument_type = "currency" /\ key.kind = "Index" ->
                    {[key EXCEPT !.id = row.instrument_id, !.strike = {}]}
             [] OTHER -> {} : key \in ParseSymbol(row.symbol)}
-----------------------------------------------------------------------------
(* channel_for: a channel is its prefix, symbol and interval; the index has*)
(* no interval, and an instrument that is not subscribed has no channel.   *)
ChannelFor(key) ==
    CASE key.kind \in {"Option", "Future"} -> {<<"ticker", key.symbol, Interval>>}
      [] key.kind = "Index" -> {<<"deribit_price_index", key.symbol, "">>}
      [] OTHER -> {}

=============================================================================
