---------------------- MODULE InstrumentRegistryProofs ----------------------
(* Theorems about InstrumentRegistry, for any rows of security_master.     *)
EXTENDS InstrumentRegistry, InstrumentMappingProofs, KeptProofs,
        FiniteSetTheorems

(* A row taken from the SELECT: new id, new symbol.                        *)
LEMMA RowIsNew ==
    ASSUME TypeOK, NEW row \in Rows, NextRow(row),
           NEW key \in ToInstrumentKey(row)
    PROVE  /\ key \in MappedKeys
           /\ key.id \in Nat \ {0}
           /\ key.id = lastId' /\ lastId' > lastId
           /\ key.id \notin DOMAIN slotById
           /\ key.symbol \notin DOMAIN bySymbol
           /\ key.symbol \in seen' /\ seen \subseteq seen'
BY RowIdsAssumption, MappedFields DEF TypeOK, NextRow, MappedKeys

(* So build_registry never meets a key that add refuses or already has:    *)
(* what main calls unreachable is.                                         *)
LEMMA RowsAreInserted ==
    ASSUME TypeOK, NEW row \in Rows, RegisterRow(row)
    PROVE  \/ /\ skipped' = skipped + 1
              /\ UNCHANGED <<keys, slotById, bySymbol>>
           \/ \E key \in ToInstrumentKey(row) :
                  /\ skipped' = skipped
                  /\ slotById' = With(slotById, key.id, Len(keys) + 1)
                  /\ bySymbol' = With(bySymbol, key.symbol, key.id)
                  /\ keys' = Append(keys, key)
<1>1. CASE \E key \in ToInstrumentKey(row) :
               /\ Add(key)
               /\ skipped' = IF AddAnswer(key) = {} THEN skipped + 1
                                                    ELSE skipped
  <2> PICK key \in ToInstrumentKey(row) :
               /\ Add(key)
               /\ skipped' = IF AddAnswer(key) = {} THEN skipped + 1
                                                    ELSE skipped
    BY <1>1
  <2>1. /\ key.id # 0 /\ key.id \notin DOMAIN slotById
        /\ BySymbol(key.symbol) = {}
    BY RowIsNew DEF RegisterRow, BySymbol
  <2>2. AddAnswer(key) # {}
    BY <2>1 DEF AddAnswer, OrElse
  <2> QED
    BY <2>1, <2>2 DEF Add, Insert
<1> QED
  BY <1>1 DEF RegisterRow

(* Each step keeps the types, whoever takes it.                            *)
LEMMA RegistryTypeStep ==
    ASSUME TypeOK, [Next]_vars
    PROVE  TypeOK'
<1>1. ASSUME NEW row \in Rows, RegisterRow(row) PROVE TypeOK'
  <2>1. /\ lastId' = row.instrument_id /\ lastId' > lastId
        /\ lastId' \in Nat /\ seen \subseteq seen'
        /\ UNCHANGED <<byChannel, phase>>
    BY <1>1, RowIdsAssumption DEF RegisterRow, NextRow, TypeOK
  <2>2. CASE /\ skipped' = skipped + 1
             /\ UNCHANGED <<keys, slotById, bySymbol>>
    BY <2>1, <2>2 DEF TypeOK
  <2>3. ASSUME NEW key \in ToInstrumentKey(row),
               skipped' = skipped,
               slotById' = With(slotById, key.id, Len(keys) + 1),
               bySymbol' = With(bySymbol, key.symbol, key.id),
               keys' = Append(keys, key)
        PROVE  TypeOK'
    <3>1. /\ key \in MappedKeys /\ key.id \in Nat \ {0}
          /\ key.id = lastId' /\ key.symbol \in seen'
      BY <1>1, RowIsNew DEF RegisterRow
    <3>2. keys' \in Seq(MappedKeys) /\ Len(keys') = Len(keys) + 1
      BY <2>3, <3>1 DEF TypeOK
    <3>3. /\ slotById' \in [DOMAIN slotById' -> 1..Len(keys')]
          /\ DOMAIN slotById' \subseteq 1..lastId'
      BY <2>1, <2>3, <3>1, <3>2 DEF TypeOK, With
    <3>4. /\ bySymbol' \in [DOMAIN bySymbol' -> Nat \ {0}]
          /\ DOMAIN bySymbol' \subseteq seen'
      BY <2>1, <2>3, <3>1 DEF TypeOK, With
    <3> QED
      BY <2>1, <2>3, <3>2, <3>3, <3>4 DEF TypeOK
  <2> QED
    BY <1>1, <2>2, <2>3, RowsAreInserted
<1>2. CASE FinishBuild
  BY <1>2 DEF FinishBuild, TypeOK
<1>3. ASSUME NEW i \in 1..Len(keys), BindChannel(keys[i]) PROVE TypeOK'
  <2>1. keys[i].id \in Nat \ {0}
    <3>1. PICK row \in Rows : keys[i] \in ToInstrumentKey(row)
      BY DEF TypeOK, MappedKeys
    <3> QED
      BY <3>1, MappedFields, RowIdsAssumption
  <2> QED
    BY <1>3, <2>1 DEF BindChannel, TypeOK, With
<1>4. CASE UNCHANGED vars
  BY <1>4 DEF vars, TypeOK
<1> QED
  BY <1>1, <1>2, <1>3, <1>4 DEF Next

(* Every variable keeps its type, and no lookup table runs ahead of the    *)
(* rows that were read.                                                    *)
THEOREM RegistryTypeCorrect == Spec => []TypeOK
<1>1. Init => TypeOK
  BY DEF Init, TypeOK, Empty
<1>2. TypeOK /\ [Next]_vars => TypeOK'
  BY RegistryTypeStep
<1> QED
  BY <1>1, <1>2, PTL DEF Spec

(* Whatever rows the SELECT yields, ids, symbols and positions name the    *)
(* same instruments: find(by_symbol(s)) is the instrument called s.        *)
THEOREM IdsAndSymbolsAgree == Spec => []RoundTrip
<1>1. Init => RoundTrip
  BY DEF Init, RoundTrip, Empty
<1>2. TypeOK /\ RoundTrip /\ [Next]_vars => RoundTrip'
  <2> SUFFICES ASSUME TypeOK, RoundTrip, [Next]_vars PROVE RoundTrip'
    OBVIOUS
  <2>1. ASSUME NEW row \in Rows, NEW key \in ToInstrumentKey(row),
               NextRow(row),
               slotById' = With(slotById, key.id, Len(keys) + 1),
               bySymbol' = With(bySymbol, key.symbol, key.id),
               keys' = Append(keys, key)
        PROVE  RoundTrip'
    <3>1. /\ key.id \notin DOMAIN slotById
          /\ key.symbol \notin DOMAIN bySymbol
          /\ key \in MappedKeys
      BY <2>1, RowIsNew
    <3>2. /\ Len(keys') = Len(keys) + 1 /\ Len(keys) \in Nat
          /\ \A i \in 1..Len(keys) : keys'[i] = keys[i]
          /\ keys'[Len(keys) + 1] = key
      BY <2>1, <3>1 DEF TypeOK
    <3>3. /\ DOMAIN slotById' = DOMAIN slotById \cup {key.id}
          /\ slotById'[key.id] = Len(keys) + 1
          /\ \A id \in DOMAIN slotById : slotById'[id] = slotById[id]
      BY <2>1, <3>1 DEF With
    <3>4. /\ DOMAIN bySymbol' = DOMAIN bySymbol \cup {key.symbol}
          /\ bySymbol'[key.symbol] = key.id
          /\ \A s \in DOMAIN bySymbol : bySymbol'[s] = bySymbol[s]
      BY <2>1, <3>1 DEF With
    <3>5. ASSUME NEW i \in 1..Len(keys')
          PROVE  /\ keys'[i].id \in DOMAIN slotById'
                 /\ slotById'[keys'[i].id] = i
                 /\ keys'[i].symbol \in DOMAIN bySymbol'
                 /\ bySymbol'[keys'[i].symbol] = keys'[i].id
      <4>1. CASE i = Len(keys) + 1
        BY <4>1, <3>2, <3>3, <3>4
      <4>2. CASE i \in 1..Len(keys)
        BY <4>2, <3>2, <3>3, <3>4 DEF RoundTrip
      <4> QED
        BY <4>1, <4>2, <3>2
    <3>6. ASSUME NEW s \in DOMAIN bySymbol'
          PROVE  /\ bySymbol'[s] \in DOMAIN slotById'
                 /\ keys'[slotById'[bySymbol'[s]]].symbol = s
      <4>1. CASE s = key.symbol
        BY <4>1, <3>2, <3>3, <3>4
      <4>2. CASE s \in DOMAIN bySymbol
        <5>1. /\ bySymbol[s] \in DOMAIN slotById
              /\ slotById[bySymbol[s]] \in 1..Len(keys)
              /\ keys[slotById[bySymbol[s]]].symbol = s
          BY <4>2 DEF RoundTrip, TypeOK
        <5> QED
          BY <4>2, <5>1, <3>2, <3>3, <3>4
      <4> QED
        BY <4>1, <4>2, <3>4
    <3> QED
      BY <3>5, <3>6 DEF RoundTrip
  <2>2. CASE UNCHANGED <<keys, slotById, bySymbol>>
    BY <2>2 DEF RoundTrip
  <2>3. ASSUME NEW row \in Rows, RegisterRow(row) PROVE RoundTrip'
    BY <2>1, <2>2, <2>3, RowsAreInserted DEF RegisterRow
  <2> QED
    BY <2>2, <2>3 DEF Next, FinishBuild, BindChannel, vars
<1> QED
  BY <1>1, <1>2, RegistryTypeCorrect, PTL DEF Spec

(* A notification on a bound channel always resolves to the instrument the *)
(* channel carries.                                                        *)
THEOREM NotificationsRouteHome == Spec => []ChannelsRouteHome
<1>1. Init => ChannelsRouteHome
  BY DEF Init, ChannelsRouteHome, Empty
<1>2. TypeOK /\ RoundTrip /\ ChannelsRouteHome /\ [Next]_vars
          => ChannelsRouteHome'
  <2> SUFFICES ASSUME TypeOK, RoundTrip, ChannelsRouteHome, [Next]_vars
               PROVE  ChannelsRouteHome'
    OBVIOUS
  <2>1. ASSUME NEW row \in Rows, NEW key \in ToInstrumentKey(row),
               NextRow(row),
               slotById' = With(slotById, key.id, Len(keys) + 1),
               keys' = Append(keys, key),
               byChannel' = byChannel,
               NEW ch \in DOMAIN byChannel
        PROVE  Find(byChannel[ch])' = Find(byChannel[ch])
    <3>1. PICK k \in Find(byChannel[ch]) : TRUE
      BY DEF ChannelsRouteHome
    <3>2. /\ byChannel[ch] \in DOMAIN slotById
          /\ slotById[byChannel[ch]] \in 1..Len(keys)
      BY <3>1 DEF Find, TypeOK
    <3>3. key.id \notin DOMAIN slotById /\ key \in MappedKeys
      BY <2>1, RowIsNew
    <3>4. slotById'[byChannel[ch]] = slotById[byChannel[ch]]
      BY <2>1, <3>2, <3>3 DEF With
    <3>5. keys'[slotById[byChannel[ch]]] = keys[slotById[byChannel[ch]]]
      BY <2>1, <3>2, <3>3 DEF TypeOK
    <3> QED
      BY <2>1, <3>2, <3>4, <3>5 DEF Find, With
  <2>2. CASE UNCHANGED <<keys, slotById, byChannel>>
    BY <2>2 DEF ChannelsRouteHome, Find
  <2>3. ASSUME NEW row \in Rows, RegisterRow(row) PROVE ChannelsRouteHome'
    <3>1. byChannel' = byChannel /\ NextRow(row)
      BY <2>3 DEF RegisterRow
    <3>2. CASE UNCHANGED <<keys, slotById, bySymbol>>
      BY <2>2, <3>1, <3>2
    <3>3. CASE \E key \in ToInstrumentKey(row) :
                   /\ slotById' = With(slotById, key.id, Len(keys) + 1)
                   /\ keys' = Append(keys, key)
      BY <2>1, <3>1, <3>3 DEF ChannelsRouteHome
    <3> QED
      BY <2>3, <3>2, <3>3, RowsAreInserted
  <2>4. ASSUME NEW i \in 1..Len(keys), BindChannel(keys[i])
        PROVE  ChannelsRouteHome'
    <3>1. PICK c \in ChannelFor(keys[i]) :
              byChannel' = With(byChannel, c, keys[i].id)
      BY <2>4 DEF BindChannel
    <3>2. UNCHANGED <<keys, slotById>>
      BY <2>4 DEF BindChannel
    <3>3. ChannelFor(keys[i]) = {c}
      BY <3>1 DEF ChannelFor
    <3>4. Find(keys[i].id) = {keys[i]}
      BY DEF Find, RoundTrip
    <3>5. ASSUME NEW ch \in DOMAIN byChannel'
          PROVE  \E key \in Find(byChannel'[ch]) : ChannelFor(key) = {ch}
      <4>1. CASE ch = c
        BY <4>1, <3>1, <3>3, <3>4 DEF With
      <4>2. CASE ch # c
        BY <4>2, <3>1 DEF With, ChannelsRouteHome
      <4> QED
        BY <4>1, <4>2
    <3> QED
      BY <3>2, <3>5 DEF ChannelsRouteHome, Find
  <2> QED
    BY <2>2, <2>3, <2>4 DEF Next, FinishBuild, vars
<1> QED
  BY <1>1, <1>2, RegistryTypeCorrect, IdsAndSymbolsAgree, PTL DEF Spec

(* A mapped row has one of three kinds, and with it a channel.             *)
LEMMA MappedKinds ==
    ASSUME NEW key \in MappedKeys
    PROVE  /\ key.kind \in {"Index", "Future", "Option"}
           /\ ChannelFor(key) # {}
           /\ key.id \in Nat \ {0}
<1>1. PICK row \in Rows : key \in ToInstrumentKey(row)
  BY DEF MappedKeys
<1>2. key.kind \in {"Index", "Future", "Option"}
  BY <1>1, MappedFields
<1> QED
  BY <1>1, <1>2, MappedFields, RowIdsAssumption DEF ChannelFor

(* So the subscription is the three groups, and leaves no key out.         *)
LEMMA SubscriptionGroups ==
    ASSUME TypeOK
    PROVE  /\ KeysOfKind("Index") \in Seq(MappedKeys)
           /\ KeysOfKind("Future") \in Seq(MappedKeys)
           /\ KeysOfKind("Option") \in Seq(MappedKeys)
           /\ SubscriptionOrder = KeysOfKind("Index") \o KeysOfKind("Future")
                                      \o KeysOfKind("Option")
<1> DEFINE groups == KeysOfKind("Index") \o KeysOfKind("Future")
                         \o KeysOfKind("Option")
<1>1. /\ KeysOfKind("Index") \in Seq(MappedKeys)
      /\ KeysOfKind("Future") \in Seq(MappedKeys)
      /\ KeysOfKind("Option") \in Seq(MappedKeys)
  BY KeptElements DEF KeysOfKind, TypeOK
<1>2. groups \in Seq(MappedKeys)
  BY <1>1
<1>3. \A i \in 1..Len(groups) : groups[i] \in Subscribed
  <2>1. \A i \in 1..Len(groups) : groups[i] \in MappedKeys
    BY <1>2
  <2> QED
    BY <2>1, MappedKinds DEF Subscribed
<1>4. SubscriptionOrder = Kept(groups, Subscribed)
  BY DEF SubscriptionOrder
<1> HIDE DEF groups
<1>5. SubscriptionOrder = groups
  BY <1>2, <1>3, <1>4, KeptAll
<1> QED
  BY <1>1, <1>5 DEF groups

(* Each key is in one group and in no other, so none is lost or doubled.   *)
LEMMA SubscriptionLength ==
    ASSUME TypeOK
    PROVE  Len(SubscriptionOrder) = Len(keys)
<1> DEFINE two == OfKind("Index") \cup OfKind("Future")
<1>1. keys \in Seq(MappedKeys)
  BY DEF TypeOK
<1>2. \A i \in 1..Len(keys) : keys[i] \in two \cup OfKind("Option")
  <2>1. \A i \in 1..Len(keys) : keys[i] \in MappedKeys
    BY <1>1
  <2> QED
    BY <2>1, MappedKinds DEF OfKind
<1>3. two \cap OfKind("Option") = {}
  BY DEF OfKind
<1>4. OfKind("Index") \cap OfKind("Future") = {}
  BY DEF OfKind
<1>5. Len(Kept(keys, two)) = Len(KeysOfKind("Index")) + Len(KeysOfKind("Future"))
  BY <1>1, <1>4, KeptLengths DEF KeysOfKind
<1> HIDE DEF two
<1>6. Kept(keys, two \cup OfKind("Option")) = keys
  BY <1>1, <1>2, KeptAll
<1>7. Len(keys) = Len(Kept(keys, two)) + Len(KeysOfKind("Option"))
  BY <1>1, <1>3, <1>6, KeptLengths DEF KeysOfKind
<1>8. Len(SubscriptionOrder) = Len(KeysOfKind("Index"))
          + Len(KeysOfKind("Future")) + Len(KeysOfKind("Option"))
  BY SubscriptionGroups
<1> QED
  BY <1>5, <1>7, <1>8, SubscriptionGroups

(* The ids of the keys go up, for the rows come in the order of their ids. *)
IdsAscend ==
    /\ \A i \in 1..Len(keys) : keys[i].id <= lastId
    /\ \A i, j \in 1..Len(keys) : i < j => keys[i].id < keys[j].id

(* What is in one of the groups, and how.                                  *)
LEMMA GroupContents ==
    ASSUME TypeOK, IdsAscend, NEW kind
    PROVE  /\ \A i \in 1..Len(KeysOfKind(kind)) :
                  /\ KeysOfKind(kind)[i].kind = kind
                  /\ KeysOfKind(kind)[i] \in MappedKeys
           /\ \A i, j \in 1..Len(KeysOfKind(kind)) :
                  i < j => KeysOfKind(kind)[i].id < KeysOfKind(kind)[j].id
           /\ \A i \in 1..Len(keys) :
                  keys[i].kind = kind =>
                      \E j \in 1..Len(KeysOfKind(kind)) :
                          KeysOfKind(kind)[j] = keys[i]
<1> DEFINE R == {p \in MappedKeys \X MappedKeys : p[1].id < p[2].id}
<1>1. keys \in Seq(MappedKeys)
  BY DEF TypeOK
<1>2. \A i, j \in 1..Len(keys) : i < j => <<keys[i], keys[j]>> \in R
  BY <1>1 DEF IdsAscend
<1>3. \A i, j \in 1..Len(KeysOfKind(kind)) :
          i < j => <<KeysOfKind(kind)[i], KeysOfKind(kind)[j]>> \in R
  <2> HIDE DEF R
  <2> QED
    BY <1>1, <1>2, KeptOrder DEF KeysOfKind
<1>4. \A i \in 1..Len(keys) :
          keys[i] \in OfKind(kind) =>
              \E j \in 1..Len(KeysOfKind(kind)) : KeysOfKind(kind)[j] = keys[i]
  BY <1>1, KeptElements DEF KeysOfKind
<1>5. \A i \in 1..Len(KeysOfKind(kind)) : KeysOfKind(kind)[i] \in OfKind(kind)
  BY <1>1, KeptElements DEF KeysOfKind
<1>6. \A i \in 1..Len(keys) : keys[i] \in MappedKeys
  BY <1>1
<1> QED
  BY <1>3, <1>4, <1>5, <1>6 DEF OfKind

(* build_registry adds in the order the SELECT's ORDER BY gives it.        *)
LEMMA KeysInIdOrder == Spec => []IdsAscend
<1>1. Init => IdsAscend
  BY DEF Init, IdsAscend
<1>2. TypeOK /\ IdsAscend /\ [Next]_vars => IdsAscend'
  <2> SUFFICES ASSUME TypeOK, IdsAscend, [Next]_vars PROVE IdsAscend'
    OBVIOUS
  <2>1. ASSUME NEW row \in Rows, RegisterRow(row) PROVE IdsAscend'
    <3>1. lastId' > lastId /\ lastId \in Nat /\ lastId' \in Nat
      BY <2>1, RowIdsAssumption DEF RegisterRow, NextRow, TypeOK
    <3>2. \A i \in 1..Len(keys) : keys[i] \in MappedKeys
      BY DEF TypeOK
    <3>3. \A i \in 1..Len(keys) : keys[i].id \in Nat
      BY <3>2, MappedKinds
    <3>4. CASE keys' = keys
      BY <3>1, <3>3, <3>4, SMTT(30) DEF IdsAscend
    <3>5. ASSUME NEW key \in ToInstrumentKey(row), keys' = Append(keys, key)
          PROVE  IdsAscend'
      <4>1. key \in MappedKeys /\ key.id = lastId'
        BY <2>1, RowIsNew DEF RegisterRow
      <4>2. /\ Len(keys') = Len(keys) + 1 /\ Len(keys) \in Nat
            /\ \A i \in 1..Len(keys) : keys'[i] = keys[i]
            /\ keys'[Len(keys) + 1] = key
        BY <3>5, <4>1 DEF TypeOK
      <4>3. \A i \in 1..Len(keys) : keys'[i].id < lastId'
        BY <3>1, <3>3, <4>2 DEF IdsAscend
      <4>4. \A i \in 1..Len(keys') : keys'[i].id <= lastId'
        BY <3>1, <4>1, <4>2, <4>3, <3>3
      <4>5. \A i, j \in 1..Len(keys') : i < j => keys'[i].id < keys'[j].id
        <5> SUFFICES ASSUME NEW i \in 1..Len(keys'), NEW j \in 1..Len(keys'),
                            i < j
                     PROVE  keys'[i].id < keys'[j].id
          OBVIOUS
        <5>1. i \in 1..Len(keys)
          BY <4>2
        <5>2. CASE j \in 1..Len(keys)
          BY <5>1, <5>2, <4>2 DEF IdsAscend
        <5>3. CASE j = Len(keys) + 1
          BY <5>1, <5>3, <4>1, <4>2, <4>3
        <5> QED
          BY <5>2, <5>3, <4>2
      <4> QED
        BY <4>4, <4>5 DEF IdsAscend
    <3> QED
      BY <2>1, <3>4, <3>5, RowsAreInserted
  <2>2. CASE UNCHANGED <<keys, lastId>>
    BY <2>2 DEF IdsAscend
  <2> QED
    BY <2>1, <2>2 DEF Next, FinishBuild, BindChannel, vars
<1> QED
  BY <1>1, <1>2, RegistryTypeCorrect, PTL DEF Spec

(* Each row the SELECT yielded is a key or is counted as skipped.          *)
RowsCounted ==
    /\ IsFiniteSet(seen)
    /\ Len(keys) + skipped = Cardinality(seen)

(* The count that main logs at the end of the build is right all along.    *)
LEMMA NoRowUncounted == Spec => []RowsCounted
<1>1. Init => RowsCounted
  BY FS_EmptySet DEF Init, RowsCounted
<1>2. TypeOK /\ RowsCounted /\ [Next]_vars => RowsCounted'
  <2> SUFFICES ASSUME TypeOK, RowsCounted, [Next]_vars PROVE RowsCounted'
    OBVIOUS
  <2>1. ASSUME NEW row \in Rows, RegisterRow(row) PROVE RowsCounted'
    <3>1. /\ seen' = seen \cup {row.symbol} /\ row.symbol \notin seen
          /\ IsFiniteSet(seen)
      BY <2>1 DEF RegisterRow, NextRow, RowsCounted
    <3>2. /\ IsFiniteSet(seen') /\ Cardinality(seen') = Cardinality(seen) + 1
      BY <3>1, FS_AddElement
    <3>3. Len(keys') + skipped' = Len(keys) + skipped + 1
      <4>1. Len(keys) \in Nat /\ skipped \in Nat
        BY DEF TypeOK
      <4>2. CASE skipped' = skipped + 1 /\ keys' = keys
        BY <4>1, <4>2
      <4>3. ASSUME NEW key \in ToInstrumentKey(row),
                   skipped' = skipped, keys' = Append(keys, key)
            PROVE  Len(keys') + skipped' = Len(keys) + skipped + 1
        <5>1. key \in MappedKeys
          BY <2>1, RowIsNew DEF RegisterRow
        <5>2. Len(keys') = Len(keys) + 1
          BY <4>3, <5>1 DEF TypeOK
        <5> QED
          BY <4>1, <4>3, <5>2
      <4> QED
        BY <2>1, <4>2, <4>3, RowsAreInserted
    <3> QED
      BY <3>2, <3>3 DEF RowsCounted
  <2>2. CASE UNCHANGED <<keys, skipped, seen>>
    BY <2>2 DEF RowsCounted
  <2> QED
    BY <2>1, <2>2 DEF Next, FinishBuild, BindChannel, vars
<1> QED
  BY <1>1, <1>2, RegistryTypeCorrect, PTL DEF Spec

(* However many rows the SELECT yields, none goes quietly missing: each is *)
(* subscribed, once and in its place, or counted as skipped.               *)
THEOREM NoInstrumentGoesMissing == Spec => []SubscriptionComplete
<1>1. TypeOK /\ IdsAscend /\ RowsCounted => SubscriptionComplete
  <2> SUFFICES ASSUME TypeOK, IdsAscend, RowsCounted
               PROVE  SubscriptionComplete
    OBVIOUS
  <2> DEFINE sub == SubscriptionOrder
             I == KeysOfKind("Index")
             F == KeysOfKind("Future")
             O == KeysOfKind("Option")
  <2>1. Len(sub) = Len(keys) /\ Len(sub) + skipped = Cardinality(seen)
    BY SubscriptionLength DEF RowsCounted
  <2>2. /\ I \in Seq(MappedKeys) /\ F \in Seq(MappedKeys)
        /\ O \in Seq(MappedKeys) /\ sub = I \o F \o O
    BY SubscriptionGroups
  <2>3. /\ Len(I) \in Nat /\ Len(F) \in Nat /\ Len(O) \in Nat
        /\ Len(sub) = Len(I) + Len(F) + Len(O)
        /\ \A i \in 1..Len(I) : sub[i] = I[i]
        /\ \A i \in 1..Len(F) : sub[Len(I) + i] = F[i]
        /\ \A i \in 1..Len(O) : sub[Len(I) + Len(F) + i] = O[i]
    <3> HIDE DEF sub, I, F, O
    <3> QED
      BY <2>2
  <2>4. ASSUME NEW i \in 1..Len(keys)
        PROVE  \E j \in 1..Len(sub) : sub[j] = keys[i]
    <3>1. keys[i].kind \in {"Index", "Future", "Option"}
      BY MappedKinds DEF TypeOK
    <3>2. CASE keys[i].kind = "Index"
      <4>1. PICK j \in 1..Len(I) : I[j] = keys[i]
        BY <3>2, GroupContents
      <4> HIDE DEF sub, I, F, O
      <4> QED
        BY <4>1, <2>3
    <3>3. CASE keys[i].kind = "Future"
      <4>1. PICK j \in 1..Len(F) : F[j] = keys[i]
        BY <3>3, GroupContents
      <4> HIDE DEF sub, I, F, O
      <4>2. Len(I) + j \in 1..Len(sub) /\ sub[Len(I) + j] = keys[i]
        BY <4>1, <2>3
      <4> QED
        BY <4>2
    <3>4. CASE keys[i].kind = "Option"
      <4>1. PICK j \in 1..Len(O) : O[j] = keys[i]
        BY <3>4, GroupContents
      <4> HIDE DEF sub, I, F, O
      <4>2. /\ Len(I) + Len(F) + j \in 1..Len(sub)
            /\ sub[Len(I) + Len(F) + j] = keys[i]
        BY <4>1, <2>3
      <4> QED
        BY <4>2
    <3> QED
      BY <3>1, <3>2, <3>3, <3>4
  <2>5. ASSUME NEW i \in 1..Len(sub), NEW j \in 1..Len(sub), i < j
        PROVE  \/ Rank(sub[i].kind) < Rank(sub[j].kind)
               \/ sub[i].kind = sub[j].kind /\ sub[i].id < sub[j].id
    <3>1. /\ \A n \in 1..Len(I) : I[n].kind = "Index"
          /\ \A n \in 1..Len(F) : F[n].kind = "Future"
          /\ \A n \in 1..Len(O) : O[n].kind = "Option"
          /\ \A m, n \in 1..Len(I) : m < n => I[m].id < I[n].id
          /\ \A m, n \in 1..Len(F) : m < n => F[m].id < F[n].id
          /\ \A m, n \in 1..Len(O) : m < n => O[m].id < O[n].id
      BY GroupContents
    <3> HIDE DEF sub, I, F, O
    <3> DEFINE InI(n) == /\ n \in 1..Len(I) /\ sub[n].kind = "Index"
                         /\ sub[n] = I[n]
               InF(n) == /\ n - Len(I) \in 1..Len(F)
                         /\ sub[n].kind = "Future"
                         /\ sub[n] = F[n - Len(I)]
               InO(n) == /\ n - Len(I) - Len(F) \in 1..Len(O)
                         /\ sub[n].kind = "Option"
                         /\ sub[n] = O[n - Len(I) - Len(F)]
    <3>2. ASSUME NEW n \in 1..Len(sub) PROVE InI(n) \/ InF(n) \/ InO(n)
      <4>1. CASE n <= Len(I)
        <5>1. n \in 1..Len(I)
          BY <4>1
        <5>2. sub[n] = I[n]
          BY <5>1, <2>3
        <5>3. I[n].kind = "Index"
          BY ONLY <5>1, <3>1
        <5> QED
          BY ONLY <5>1, <5>2, <5>3, Zenon DEF InI
      <4>2. CASE Len(I) < n /\ n <= Len(I) + Len(F)
        <5> DEFINE m == n - Len(I)
        <5>1. m \in 1..Len(F) /\ Len(I) + m = n
          BY <4>2, <2>3
        <5> HIDE DEF m
        <5>2. sub[Len(I) + m] = F[m]
          BY <5>1, <2>3
        <5>3. F[m].kind = "Future"
          BY ONLY <5>1, <3>1
        <5> QED
          BY ONLY <5>1, <5>2, <5>3, Zenon DEF InF, m
      <4>3. CASE Len(I) + Len(F) < n
        <5> DEFINE m == n - Len(I) - Len(F)
        <5>1. m \in 1..Len(O) /\ Len(I) + Len(F) + m = n
          BY <4>3, <2>3
        <5> HIDE DEF m
        <5>2. sub[Len(I) + Len(F) + m] = O[m]
          BY <5>1, <2>3
        <5>3. O[m].kind = "Option"
          BY ONLY <5>1, <3>1
        <5> QED
          BY ONLY <5>1, <5>2, <5>3, Zenon DEF InO, m
      <4> QED
        BY <4>1, <4>2, <4>3, <2>3
    <3>3. Rank("Index") = 1 /\ Rank("Future") = 2 /\ Rank("Option") = 3
      BY DEF Rank
    <3>4. CASE InI(i) /\ InI(j)
      BY <2>5, <3>1, <3>4
    <3>5. CASE InF(i) /\ InF(j)
      <4>1. i - Len(I) < j - Len(I)
        BY <2>3, <2>5
      <4> QED
        BY <3>1, <3>5, <4>1
    <3>6. CASE InO(i) /\ InO(j)
      <4>1. i - Len(I) - Len(F) < j - Len(I) - Len(F)
        BY <2>3, <2>5
      <4> QED
        BY <3>1, <3>6, <4>1
    <3>7. CASE \/ InI(i) /\ (InF(j) \/ InO(j))
               \/ InF(i) /\ InO(j)
      BY <3>3, <3>7
    <3>8. ~ (InF(i) /\ InI(j)) /\ ~ (InO(i) /\ (InI(j) \/ InF(j)))
      BY <2>3, <2>5
    <3>9. (InI(i) \/ InF(i) \/ InO(i)) /\ (InI(j) \/ InF(j) \/ InO(j))
      BY <3>2
    <3> HIDE DEF InI, InF, InO
    <3> QED
      BY <3>4, <3>5, <3>6, <3>7, <3>8, <3>9, Zenon
  <2> QED
    BY <2>1, <2>4, <2>5 DEF SubscriptionComplete
<1> QED
  BY <1>1, RegistryTypeCorrect, KeysInIdOrder, NoRowUncounted, PTL

=============================================================================
