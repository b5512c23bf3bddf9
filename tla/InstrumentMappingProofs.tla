----------------------- MODULE InstrumentMappingProofs ----------------------
(* What the operators of InstrumentMapping give, field by field.           *)
EXTENDS InstrumentMapping, TLAPS

(* What parse_symbol gives is a key with the fields of InstrumentKey.      *)
LEMMA ParsedShape ==
    ASSUME NEW s, NEW key \in ParseSymbol(s)
    PROVE  \E id, kind, expiry, strike, right :
               key = [id |-> id, symbol |-> s, kind |-> kind,
                      expiry |-> expiry, strike |-> strike, right |-> right]
<1>1. CASE key = KeyOf(s, "Index") \/ key = KeyOf(s, "Perpetual")
  BY <1>1 DEF KeyOf
<1>2. CASE key = [KeyOf(s, "Future") EXCEPT !.expiry = ExpiryOf[s.parts[2]]]
  BY <1>2 DEF KeyOf
<1>3. CASE key = [KeyOf(s, "Option") EXCEPT
                      !.expiry = ExpiryOf[s.parts[2]],
                      !.strike = NumberOf[s.parts[3]],
                      !.right = IF s.parts[4] = "C" THEN "Call" ELSE "Put"]
  BY <1>3, ZenonT(60) DEF KeyOf
<1>4. \/ key = KeyOf(s, "Index") \/ key = KeyOf(s, "Perpetual")
      \/ key = [KeyOf(s, "Future") EXCEPT !.expiry = ExpiryOf[s.parts[2]]]
      \/ key = [KeyOf(s, "Option") EXCEPT
                    !.expiry = ExpiryOf[s.parts[2]],
                    !.strike = NumberOf[s.parts[3]],
                    !.right = IF s.parts[4] = "C" THEN "Call" ELSE "Put"]
  <2> DEFINE future == [KeyOf(s, "Future") EXCEPT
                            !.expiry = ExpiryOf[s.parts[2]]]
             option == [KeyOf(s, "Option") EXCEPT
                            !.expiry = ExpiryOf[s.parts[2]],
                            !.strike = NumberOf[s.parts[3]],
                            !.right = IF s.parts[4] = "C" THEN "Call"
                                                          ELSE "Put"]
  <2>1. ParseSymbol(s) = CASE s.under = "inside" -> {KeyOf(s, "Index")}
                           [] IsPerpetual(s) -> {KeyOf(s, "Perpetual")}
                           [] IsFuture(s) -> {future}
                           [] IsOption(s) -> {option}
                           [] OTHER -> {}
    BY DEF ParseSymbol
  <2> HIDE DEF future, option
  <2>2. \/ key = KeyOf(s, "Index") \/ key = KeyOf(s, "Perpetual")
        \/ key = future \/ key = option
    BY <2>1
  <2> QED
    BY <2>2 DEF future, option
<1> QED
  BY <1>1, <1>2, <1>3, <1>4

(* The fields of a parsed key, by its kind.                                *)
LEMMA ParsedFields ==
    ASSUME NEW s, NEW key \in ParseSymbol(s)
    PROVE  /\ key.id = 0 /\ key.symbol = s
           /\ \/ /\ key.kind = "Index" /\ s.under = "inside"
                 /\ key.expiry = {} /\ key.strike = {}
              \/ key.kind = "Perpetual" /\ s.under # "inside" /\ IsPerpetual(s)
              \/ /\ key.kind = "Future" /\ s.under # "inside" /\ IsFuture(s)
                 /\ key.expiry = ExpiryOf[s.parts[2]] /\ key.strike = {}
              \/ /\ key.kind = "Option" /\ s.under # "inside" /\ IsOption(s)
                 /\ key.expiry = ExpiryOf[s.parts[2]]
                 /\ key.strike = NumberOf[s.parts[3]]
<1> DEFINE future == [KeyOf(s, "Future") EXCEPT !.expiry = ExpiryOf[s.parts[2]]]
           option == [KeyOf(s, "Option") EXCEPT
                          !.expiry = ExpiryOf[s.parts[2]],
                          !.strike = NumberOf[s.parts[3]],
                          !.right = IF s.parts[4] = "C" THEN "Call" ELSE "Put"]
<1>1. ParseSymbol(s) = CASE s.under = "inside" -> {KeyOf(s, "Index")}
                         [] IsPerpetual(s) -> {KeyOf(s, "Perpetual")}
                         [] IsFuture(s) -> {future}
                         [] IsOption(s) -> {option}
                         [] OTHER -> {}
  BY DEF ParseSymbol
<1>2. /\ future.id = 0 /\ future.symbol = s /\ future.kind = "Future"
      /\ future.expiry = ExpiryOf[s.parts[2]] /\ future.strike = {}
  BY DEF KeyOf
<1>3. /\ option.id = 0 /\ option.symbol = s /\ option.kind = "Option"
      /\ option.expiry = ExpiryOf[s.parts[2]]
      /\ option.strike = NumberOf[s.parts[3]]
  BY DEF KeyOf
<1>4. /\ KeyOf(s, "Index").id = 0 /\ KeyOf(s, "Index").symbol = s
      /\ KeyOf(s, "Index").kind = "Index"
      /\ KeyOf(s, "Index").expiry = {} /\ KeyOf(s, "Index").strike = {}
      /\ KeyOf(s, "Perpetual").id = 0 /\ KeyOf(s, "Perpetual").symbol = s
      /\ KeyOf(s, "Perpetual").kind = "Perpetual"
  BY DEF KeyOf
<1> HIDE DEF future, option
<1>5. \/ s.under = "inside" /\ key = KeyOf(s, "Index")
      \/ IsPerpetual(s) /\ key = KeyOf(s, "Perpetual")
      \/ IsFuture(s) /\ key = future
      \/ IsOption(s) /\ key = option
  BY <1>1
<1>6. IsPerpetual(s) \/ IsFuture(s) \/ IsOption(s) => s.under # "inside"
  BY DEF IsPerpetual, IsFuture, IsOption, HasPieces
<1> QED
  BY <1>2, <1>3, <1>4, <1>5, <1>6

(* At most one of the four tests of parse_symbol succeeds.                 *)
LEMMA FormsExclude ==
    ASSUME NEW s
    PROVE  /\ IsPerpetual(s) \/ IsFuture(s) \/ IsOption(s) => s.under = "none"
           /\ IsPerpetual(s) => ~IsFuture(s)
           /\ IsPerpetual(s) \/ IsFuture(s) => ~IsOption(s)
<1>1. ~(HasPieces(s, 2) /\ HasPieces(s, 4))
  <2>1. ~(Len(s.parts) = 2 /\ Len(s.parts) = 4)
    <3> DEFINE n == Len(s.parts)
    <3> HIDE DEF n
    <3>1. ~(n = 2 /\ n = 4)
      OBVIOUS
    <3> QED
      BY <3>1 DEF n
  <2> QED
    BY <2>1 DEF HasPieces
<1>2. IsPerpetual(s) => HasPieces(s, 2) /\ ~IsFuture(s)
  BY DEF IsPerpetual, IsFuture
<1>3. IsFuture(s) => HasPieces(s, 2)
  BY DEF IsFuture
<1>4. IsOption(s) => HasPieces(s, 4)
  BY DEF IsOption
<1>5. HasPieces(s, 2) \/ HasPieces(s, 4) => s.under = "none"
  BY DEF HasPieces
<1> QED
  BY <1>1, <1>2, <1>3, <1>4, <1>5

(* And where one succeeds, there is a key of its kind.                     *)
LEMMA FormsAreParsed ==
    ASSUME NEW s
    PROVE  /\ s.under = "inside" => \E k \in ParseSymbol(s) : k.kind = "Index"
           /\ IsPerpetual(s) => \E k \in ParseSymbol(s) : k.kind = "Perpetual"
           /\ IsFuture(s) => \E k \in ParseSymbol(s) : k.kind = "Future"
           /\ IsOption(s) => \E k \in ParseSymbol(s) : k.kind = "Option"
<1> DEFINE future == [KeyOf(s, "Future") EXCEPT !.expiry = ExpiryOf[s.parts[2]]]
           option == [KeyOf(s, "Option") EXCEPT
                          !.expiry = ExpiryOf[s.parts[2]],
                          !.strike = NumberOf[s.parts[3]],
                          !.right = IF s.parts[4] = "C" THEN "Call" ELSE "Put"]
<1>1. ParseSymbol(s) = CASE s.under = "inside" -> {KeyOf(s, "Index")}
                         [] IsPerpetual(s) -> {KeyOf(s, "Perpetual")}
                         [] IsFuture(s) -> {future}
                         [] IsOption(s) -> {option}
                         [] OTHER -> {}
  BY DEF ParseSymbol
<1>2. /\ KeyOf(s, "Index").kind = "Index" /\ future.kind = "Future"
      /\ KeyOf(s, "Perpetual").kind = "Perpetual" /\ option.kind = "Option"
  BY DEF KeyOf
<1> HIDE DEF future, option
<1> QED
  BY <1>1, <1>2, FormsExclude

(* The fields of a mapped row's key: id and symbol are the row's, the kind *)
(* is what type column and symbol agree on, and the database's columns go  *)
(* before what the symbol says.                                            *)
LEMMA MappedFields ==
    ASSUME NEW row, NEW key \in ToInstrumentKey(row)
    PROVE  /\ key.id = row.instrument_id /\ key.symbol = row.symbol
           /\ \E parsed \in ParseSymbol(row.symbol) :
                  /\ key.kind = parsed.kind
                  /\ \/ /\ row.instrument_type = "option" /\ key.kind = "Option"
                        /\ key.strike = OrElse(row.strike, parsed.strike)
                        /\ key.expiry = OrElse(row.expiration, parsed.expiry)
                        /\ row.option_type = {"call"} => key.right = "Call"
                        /\ row.option_type = {"put"} => key.right = "Put"
                     \/ /\ row.instrument_type = "future" /\ key.kind = "Future"
                        /\ key.strike = {}
                        /\ key.expiry = OrElse(row.expiration, parsed.expiry)
                     \/ /\ row.instrument_type = "currency" /\ key.kind = "Index"
                        /\ key.strike = {} /\ key.expiry = parsed.expiry
<1>1. PICK parsed \in ParseSymbol(row.symbol) :
          \/ /\ row.instrument_type = "option" /\ parsed.kind = "Option"
             /\ key \in WithOptionColumns(parsed, row)
          \/ /\ row.instrument_type = "future" /\ parsed.kind = "Future"
             /\ key = [parsed EXCEPT !.id = row.instrument_id,
                             !.expiry = OrElse(row.expiration, parsed.expiry),
                             !.strike = {}]
          \/ /\ row.instrument_type = "currency" /\ parsed.kind = "Index"
             /\ key = [parsed EXCEPT !.id = row.instrument_id, !.strike = {}]
  BY DEF ToInstrumentKey
<1>2. PICK id, kind, expiry, strike, right :
          parsed = [id |-> id, symbol |-> row.symbol, kind |-> kind,
                    expiry |-> expiry, strike |-> strike, right |-> right]
  BY ParsedShape
<1>3. CASE /\ row.instrument_type = "option" /\ parsed.kind = "Option"
           /\ key \in WithOptionColumns(parsed, row)
  <2>1. PICK r : /\ key = [parsed EXCEPT
                              !.id = row.instrument_id,
                              !.strike = OrElse(row.strike, parsed.strike),
                              !.right = r,
                              !.expiry = OrElse(row.expiration, parsed.expiry)]
                 /\ row.option_type = {"call"} => r = "Call"
                 /\ row.option_type = {"put"} => r = "Put"
    BY <1>3 DEF WithOptionColumns
  <2> QED
    BY <1>2, <1>3, <2>1
<1>4. CASE /\ row.instrument_type = "future" /\ parsed.kind = "Future"
           /\ key = [parsed EXCEPT !.id = row.instrument_id,
                           !.expiry = OrElse(row.expiration, parsed.expiry),
                           !.strike = {}]
  BY <1>2, <1>4
<1>5. CASE /\ row.instrument_type = "currency" /\ parsed.kind = "Index"
           /\ key = [parsed EXCEPT !.id = row.instrument_id, !.strike = {}]
  BY <1>2, <1>5
<1> QED
  BY <1>1, <1>3, <1>4, <1>5

=============================================================================
