------------------------- MODULE InstrumentRegistry -------------------------
(***************************************************************************)
(* marketdata/InstrumentRegistry.cpp and the boot that fills it: main's    *)
(* build_registry takes the rows of the startup SELECT one by one, maps    *)
(* each and adds it; the gateway then runs on the registry, or exits when  *)
(* it is empty.  The session binds the channels it subscribes.             *)
(***************************************************************************)
EXTENDS InstrumentMapping, FiniteSets, Kept

CONSTANTS
    Rows,           \* the rows security_master may hold
    MaxRows         \* bound on the rows of one SELECT

(* instrument_id is a bigserial primary key: no row has id 0 or less. *)
ASSUME RowIdsAssumption == \A row \in Rows : row.instrument_id \in Nat \ {0}

VARIABLES
    keys,           \* m_keys, in insertion order
    slotById,       \* m_slot_by_id: id -> position in keys
    bySymbol,       \* m_by_symbol: symbol -> id
    byChannel,      \* m_by_channel: channel -> id
    skipped,        \* build_registry's count of skipped rows
    phase,          \* "building", "serving" or "exited"
    \* What the SELECT has yielded so far:
    lastId,         \* the id of the last row
    seen            \* the symbols of the rows

vars == <<keys, slotById, bySymbol, byChannel, skipped, phase, lastId, seen>>

MappedKeys == UNION {ToInstrumentKey(row) : row \in Rows}

Empty == [x \in {} |-> {}]

(* The map f with x put to y: emplace where x is new, else insert_or_assign.*)
With(f, x, y) == [z \in DOMAIN f \cup {x} |-> IF z = x THEN y ELSE f[z]]

Init ==
    /\ keys = <<>>
    /\ slotById = Empty
    /\ bySymbol = Empty
    /\ byChannel = Empty
    /\ skipped = 0
    /\ phase = "building"
    /\ lastId = 0
    /\ seen = {}
-----------------------------------------------------------------------------
(* Queries. *)

Find(id) == IF id \in DOMAIN slotById THEN {keys[slotById[id]]} ELSE {}
BySymbol(s) == IF s \in DOMAIN bySymbol THEN {bySymbol[s]} ELSE {}
ByChannel(ch) == IF ch \in DOMAIN byChannel THEN {byChannel[ch]} ELSE {}

OfKind(kind) == {k \in MappedKeys : k.kind = kind}
Subscribed == {k \in MappedKeys : ChannelFor(k) # {}}

KeysOfKind(kind) == Kept(keys, OfKind(kind))

(* Mutant of SubscriptionOrder: the options before the futures. *)
OptionsFirst ==
    Kept(KeysOfKind("Index") \o KeysOfKind("Option") \o KeysOfKind("Future"),
         Subscribed)

(* The keys a session subscribes to, in order; each is subscribed on its   *)
(* ChannelFor, and one without a channel is left out.                      *)
SubscriptionOrder ==
    Kept(KeysOfKind("Index") \o KeysOfKind("Future") \o KeysOfKind("Option"),
         Subscribed)
-----------------------------------------------------------------------------
(* add *)

(* Mutant of Insert: the slot is taken after the key has been appended. *)
InsertLateSlot(key) ==
    /\ slotById' = IF key.id \in DOMAIN slotById THEN slotById
                   ELSE With(slotById, key.id, Len(keys) + 2)
    /\ bySymbol' = With(bySymbol, key.symbol, key.id)
    /\ keys' = Append(keys, key)

Insert(key) ==
    /\ slotById' = IF key.id \in DOMAIN slotById THEN slotById
                   ELSE With(slotById, key.id, Len(keys) + 1)
    /\ bySymbol' = With(bySymbol, key.symbol, key.id)
    /\ keys' = Append(keys, key)

(* A key with no id is refused, and a symbol already there is answered with*)
(* its id: neither changes the registry.                                   *)
Add(key) ==
    IF key.id # 0 /\ BySymbol(key.symbol) = {}
    THEN Insert(key)
    ELSE UNCHANGED <<keys, slotById, bySymbol>>

AddAnswer(key) ==
    IF key.id = 0 THEN {} ELSE OrElse(BySymbol(key.symbol), {key.id})
-----------------------------------------------------------------------------
(* The rows come ordered by instrument_id, the primary key, and the schema *)
(* has UNIQUE (venue_id, symbol): all rows are of one venue.               *)
NextRow(row) ==
    /\ phase = "building"
    /\ Cardinality(seen) < MaxRows
    /\ row.instrument_id > lastId
    /\ row.symbol \notin seen
    /\ lastId' = row.instrument_id
    /\ seen' = seen \cup {row.symbol}

(* build_registry's loop body.  An unmappable row is skipped and counted;  *)
(* so is one that add refuses, which main calls unreachable.               *)
RegisterRow(row) ==
    /\ NextRow(row)
    /\ \/ /\ ToInstrumentKey(row) = {}
          /\ skipped' = skipped + 1
          /\ UNCHANGED <<keys, slotById, bySymbol>>
       \/ \E key \in ToInstrumentKey(row) :
              /\ Add(key)
              /\ skipped' = IF AddAnswer(key) = {} THEN skipped + 1 ELSE skipped
    /\ UNCHANGED <<byChannel, phase>>

(* main goes on with the registry, or exits when nothing was registered.   *)
FinishBuild ==
    /\ phase = "building"
    /\ phase' = IF Len(keys) = 0 THEN "exited" ELSE "serving"
    /\ UNCHANGED <<keys, slotById, bySymbol, byChannel, skipped, lastId, seen>>

(* Mutant of BindChannel: the id bound is the one registered last. *)
BindChannelToLast(key) ==
    /\ phase = "serving"
    /\ \E ch \in ChannelFor(key) :
           byChannel' = With(byChannel, ch, keys[Len(keys)].id)
    /\ UNCHANGED <<keys, slotById, bySymbol, skipped, phase, lastId, seen>>

(* bind_channel, as the session uses it: an instrument of the registry on  *)
(* its own channel, again after each reconnect.                            *)
BindChannel(key) ==
    /\ phase = "serving"
    /\ \E ch \in ChannelFor(key) : byChannel' = With(byChannel, ch, key.id)
    /\ UNCHANGED <<keys, slotById, bySymbol, skipped, phase, lastId, seen>>

Next ==
    \/ \E row \in Rows : RegisterRow(row)
    \/ FinishBuild
    \/ \E i \in 1..Len(keys) : BindChannel(keys[i])

Spec == Init /\ [][Next]_vars
-----------------------------------------------------------------------------
(* Type correctness; what is looked up by id or symbol came from the SELECT.*)
TypeOK ==
    /\ keys \in Seq(MappedKeys)
    /\ slotById \in [DOMAIN slotById -> 1..Len(keys)]
    /\ DOMAIN slotById \subseteq 1..lastId
    /\ bySymbol \in [DOMAIN bySymbol -> Nat \ {0}]
    /\ DOMAIN bySymbol \subseteq seen
    /\ byChannel \in [DOMAIN byChannel -> Nat \ {0}]
    /\ skipped \in Nat
    /\ lastId \in Nat
    /\ phase \in {"building", "serving", "exited"}

(* Ids and symbols name the same instruments: the key at each position is  *)
(* what find gives for its id and by_symbol for its symbol, so no two keys *)
(* share an id or a symbol and no lookup ends on a neighbour.              *)
RoundTrip ==
    /\ \A i \in 1..Len(keys) :
           /\ keys[i].id \in DOMAIN slotById
           /\ slotById[keys[i].id] = i
           /\ keys[i].symbol \in DOMAIN bySymbol
           /\ bySymbol[keys[i].symbol] = keys[i].id
    /\ \A s \in DOMAIN bySymbol :
           /\ bySymbol[s] \in DOMAIN slotById
           /\ keys[slotById[bySymbol[s]]].symbol = s

Rank(kind) == CASE kind = "Index" -> 1 [] kind = "Future" -> 2
                [] kind = "Option" -> 3

(* Every row of the SELECT is in the subscription or counted as skipped: no*)
(* instrument goes quietly missing.  Each registered one is there once, the*)
(* index first, then the futures, then the options, each group in the order*)
(* of ids; the perpetual never is.                                         *)
SubscriptionComplete ==
    LET sub == SubscriptionOrder
    IN  /\ Len(sub) = Len(keys)
        /\ Len(sub) + skipped = Cardinality(seen)
        /\ \A i \in 1..Len(keys) : \E j \in 1..Len(sub) : sub[j] = keys[i]
        /\ \A i, j \in 1..Len(sub) :
               i < j => \/ Rank(sub[i].kind) < Rank(sub[j].kind)
                        \/ /\ sub[i].kind = sub[j].kind
                           /\ sub[i].id < sub[j].id

(* A notification on a bound channel resolves to the instrument that       *)
(* channel carries, through by_channel and find, whatever was bound since. *)
ChannelsRouteHome ==
    \A ch \in DOMAIN byChannel :
        \E key \in Find(byChannel[ch]) : ChannelFor(key) = {ch}

=============================================================================
