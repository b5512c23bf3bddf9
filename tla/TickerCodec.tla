---------------------------- MODULE TickerCodec -----------------------------
(***************************************************************************)
(* marketdata/TickerCodec.cpp: from a notification's payload to a Tick.    *)
(*                                                                         *)
(* A payload maps each key to a set of at most one JSON value, {} where the*)
(* key is absent.  Boost.JSON holds a number as an int64, an uint64 or a   *)
(* double; Bits stands for the 64 of them.  A double is counted in halves, *)
(* so that there is a fraction for a conversion to cut off.                *)
(*                                                                         *)
(* A decoder's result is the set of ticks that may come of it: {} is       *)
(* nullopt, and more than one where the conversion is undefined.           *)
(***************************************************************************)
EXTENDS Integers

CONSTANTS
    Bits,           \* the width of std::int64_t
    NanosPerMilli   \* 1000000

(* The second conjunct follows from the first, by an induction the provers *)
(* have no rule for: powers are opaque to them.                            *)
ASSUME WidthAssumption ==
    /\ Bits \in Nat \ {0} /\ NanosPerMilli \in Nat \ {0}
    /\ 2^(Bits - 1) \in Nat \ {0}

MaxInt == 2^(Bits - 1) - 1
MinInt == 0 - 2^(Bits - 1)
Ints == MinInt..MaxInt

Wrap(n) == IF n > MaxInt THEN n - 2^Bits ELSE n

(* Outside of what an int64 holds the outcome is anybody's. *)
InRangeOrAny(n) == IF n \in Ints THEN {n} ELSE Ints

Truncated(halves) ==
    IF halves < 0 THEN 0 - ((0 - halves) \div 2) ELSE halves \div 2
-----------------------------------------------------------------------------
(* Mutant of NumberOrNan: integers are not taken for numbers. *)
DoublesOnly(data, key) == {v.n : v \in {x \in data[key] : x.type = "double"}}

(* number_or_nan, with {} for NaN *)
NumberOrNan(data, key) ==
    UNION {CASE v.type = "double" -> {v.n}
             [] v.type \in {"int64", "uint64"} -> {2 * v.n}
             [] OTHER -> {} : v \in data[key]}

StringOrEmpty(data, key) ==
    {v.text : v \in {x \in data[key] : x.type = "string"}} \ {""}

Millis(v) ==
    CASE v.type = "int64" -> {v.n}
      [] v.type = "uint64" -> {Wrap(v.n)}
      [] v.type = "double" -> InRangeOrAny(Truncated(v.n))
      [] OTHER -> {}

(* Mutant of TimestampMs: a double is cast after the widening. *)
WidensDoubleFirst(data) ==
    UNION {IF v.type = "double"
           THEN InRangeOrAny(Truncated(v.n * NanosPerMilli))
           ELSE UNION {InRangeOrAny(m * NanosPerMilli) : m \in Millis(v)} :
               v \in data["timestamp"]}

(* timestamp_ms: from milliseconds to nanoseconds, in 64 bits. *)
TimestampMs(data) ==
    UNION {UNION {InRangeOrAny(m * NanosPerMilli) : m \in Millis(v)} :
               v \in data["timestamp"]}

(* decode_priced: no tick without a timestamp and a price. *)
DecodePriced(data, price_key, id, recv_ts) ==
    [id : {id}, exchange_ts : TimestampMs(data), recv_ts : {recv_ts},
     price : NumberOrNan(data, price_key)]

DecodeTicker(data, id, recv_ts) == DecodePriced(data, "last_price", id, recv_ts)

DecodeIndex(data, id, recv_ts) == DecodePriced(data, "price", id, recv_ts)

InstrumentName(data) == StringOrEmpty(data, "instrument_name")

=============================================================================
