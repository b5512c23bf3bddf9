# A verification development of the Quant market data gateway

TLA+ models of the gateway (C++, `src/`) and of the reference-data ingest it
boots from (Python, `py/`), model-checked with TLC, with theorems checked by
TLAPS. Paths are relative to the repository root.

## 1. Inventory

What the repository holds is a gateway in the making: one process that loads
the instruments of Deribit from Postgres, subscribes to their channels over one
WebSocket connection and hands every price update to a consumer thread; and a
scheduled Python job that fills the Postgres schema `security_master`.

| Component | State | Operations | Hard part | Correct when |
|---|---|---|---|---|
| `queue/BlockingQueue.hpp` | deque, drop counter, closed flag, mutex, condition variable | `push`, `pop`, `close` | notifications are sent after the unlock; push displaces at the limit; close with consumers blocked | order kept, every loss counted and told, nobody sleeps for ever |
| `marketdata/QueueSink.hpp` | a queue, a thread, a handler, an atomic feed state | `start`, `stop`, destructor, `on_tick`, `on_feed_state`, the consumer loop | three threads; stop joins a thread that may be blocked, handling or draining | io thread never held up, stop returns and leaves nothing running |
| `marketdata/InstrumentRegistry.cpp` | four maps over one vector of keys | `add`, `find`, `by_symbol`, `by_channel`, `bind_channel`, `ids_of_kind`, `subscription_channels` | several indices that must agree | lookups by id, symbol and channel name one instrument |
| `marketdata/InstrumentRepository.cpp` | none | the startup SELECT, `to_instrument_key` | null columns, rows whose type and symbol disagree | only what is meant to be streamed is mapped |
| `marketdata/model.cpp` | none | `parse_symbol`, `parse_expiry` | four forms of a name; a calendar | each form recognised as its kind, each day of the century at its instant, nothing else |
| `main.cpp` | the registry, the console, the sink, logging | `build_registry`, boot, shutdown | bad rows, four returns, a handler that refers to locals and logs | every row registered or counted, everything taken down at each return, handlers gone before logging |
| `deribit/reference_ingest.py`, `db/reference_data.py`, `db/schema.sql` | tables of `security_master`; a run's open transaction | one run: fetch, upsert, commit | runs may overlap, fail anywhere, lock each other's rows | one stable id per instrument, whole runs only |
| `deribit/client.py`, `deribit/models.py` | none | one HTTP GET, payload parsing | every request and payload may fail | a failure fails the run |
| `marketdata/TickerCodec.cpp` | none | decode a payload | missing, null, odd numbers; 64 bits | a tick for each payload with time and price, and no other |
| `core/Config.cpp`, `config.py` | none | read the environment, make the connection string | two readers of one variable | both start with the same, every error told |
| `core/Log.cpp`, `marketdata/ConsoleSink.hpp` | spdlog's logger | set-up, shutdown, a log line per tick | an unknown level; a line after the shutdown | no silence by a typo, no handler after the shutdown |
| `DeribitSession`, its transport | not in the tree | - | - | external |
| `beast_websocket_example.cpp` | - | - | - | not modelled |

How they meet: the ingest writes the tables and the gateway reads them once, at
boot. `main` maps the rows to keys, fills the registry, starts the sink and, at
shutdown, stops it. The session (not in the tree: `main.cpp:118` refers to a
`session` no file declares, and `tests/test_deribit_session.cpp` includes a
header that is not there) would subscribe the registry's channels, bind them,
and call `on_tick` and `on_feed_state` from the io thread. The sink's queue is
the only thing two threads of the gateway share.

The hazards, each at its line and with the properties that watch it, are listed
in `PROJECT.json` under `hazards`.

## 2. The modules

| Module | Models | Uses |
|---|---|---|
| `LatestWindow` | abstract: a channel that holds the newest items not yet delivered | - |
| `BlockingQueue` | `BlockingQueue.hpp` | refines `LatestWindow` |
| `BlockingQueueProofs` | theorems about it | `BlockingQueue` |
| `QueueSink` | `QueueSink.hpp`, main's start and stop | instance of `BlockingQueue` |
| `QueueSinkProofs` | theorems about it | `QueueSink` |
| `InstrumentMapping` | `parse_symbol`, `to_instrument_key`, `channel_for` | - |
| `InstrumentMappingProofs` | lemmas about what they give, field by field | `InstrumentMapping` |
| `Kept` | the loop that appends what passes a test | - |
| `KeptProofs` | lemmas about it, about equal sequences, and induction over numbers | `Kept` |
| `InstrumentRegistry` | `InstrumentRegistry.cpp`, `build_registry` | extends `InstrumentMapping`, `Kept` |
| `InstrumentRegistryProofs` | theorems about it | `InstrumentRegistry`, the lemmas above |
| `ExpiryDates` | `parse_expiry` and the calendar it uses | - |
| `TickerCodec` | `TickerCodec.cpp` | - |
| `Environment` | `Config.cpp`, `config.py`, the level of `Log.cpp` | - |
| `Decoding` | one input per state for the pure functions, and what each promises | extends `InstrumentMapping`, `ExpiryDates`, `TickerCodec`, `Environment` |
| `DecodingProofs` | theorems about it | `Decoding`, the lemmas above |
| `Gateway` | `main.cpp`, with the handler and the session | extends `InstrumentRegistry`, `TickerCodec` |
| `GatewayProofs` | theorems about it | `Gateway`, `InstrumentRegistryProofs` |
| `SecurityMaster` | abstract: a table that changes by one whole answer of the venue at a time | - |
| `ReferenceIngest` | `reference_ingest.py`, `reference_data.py`, the SELECT | refines `SecurityMaster` |
| `ReferenceIngestProofs` | theorems about it | `ReferenceIngest` |
| `MC*` | finite instances for TLC | the module named |

Definitions commented "Mutant of X" are X with a mistake somebody could make.
They are in no specification; each shows that a property notices the mistake.

### BlockingQueue

Everything done under `m_mutex` is one action: `PushRefused`, `PushFits` and
`PushDisplaces` are the three ways through the locked block of `push`;
`PopTakes`, `PopWaits` and `PopEnds` are the predicate of the wait seen true
with an item, false, and true by `m_closed`; `Close` sets the flag. Outside the
mutex are `NotifyOne` and `NotifyAll`, steps of their own, so any thread may run
between the unlock and the notification. `wait` gives up the mutex and blocks in
one step, as the standard says; a woken thread ("woken") has to take the mutex
and test the predicate again, and `SpuriousWake` wakes one for no reason. An
item is its stamp: how many were accepted up to it. `accepted`, `refused`,
`falses`, `popped` and `last` are history. A closer may close again and again,
as `stop` does. Consumers call `pop` in a loop until it answers false, as
`consume` does. `size`, `dropped` and `closed` only read and have no action.

`LatestWindow` says the same without threads: a window of numbered items that
slides when one is delivered or superseded, and can be shut. The mapping is
`next = accepted - Len(items) + 1`, `lost = dropped`, `shut = closed`; a
notification, a wait or a wakeup is a stutter.

### QueueSink

The queue is `BlockingQueue` instantiated with the io thread as producer, the
sink's thread as consumer and the owner as closer, and each sink action takes a
queue action under conditions of its own: the consumer can pop only when its
thread runs and the handler has returned (`AtPop`), the owner can close only
between two calls of `stop`. That its queue is used only as `BlockingQueue`
provides for is therefore how the module is written and nothing it shows; the
properties are about what the composition adds. `handling` is the tick inside the handler, `under`
the feed state published last before each tick. The owner follows `main`: start
at most once and not after a stop; the io thread makes no call into a sink whose
destructor has begun. `on_feed_state` and the read of it are relaxed atomics; a
read that returns an older value is a read made earlier, which the interleaving
has anyway.

### InstrumentMapping, InstrumentRegistry

A symbol is abstracted to what `parse_symbol` looks at: the place of its first
underscore and its pieces between dashes. `parse_expiry` and `from_chars` are
the constants `ExpiryOf` and `NumberOf`; `MCDecoding` gives `ExpiryOf` the values
`ExpiryDates` computes. A `std::optional`, and a double that
may be NaN, is a set of at most one element. `base_ccy` is left out: it is a
function of the symbol and nothing modelled reads it.

`RegisterRow` is one turn of `build_registry`'s loop with the call of `add` in
it. `NextRow` is what the query and the schema guarantee of the rows: ids grow
(primary key, `ORDER BY`), symbols differ (`UNIQUE (venue_id, symbol)`, one
venue). `FinishBuild` is `main`'s exit on an empty registry. `BindChannel` binds
a registered key to its own channel, as the interface asks of the session. A key
in the subscription stands for its `ChannelFor`. Vector slots count from 1. The
loop of `ids_of_kind` is `Kept`, the recursion over the vector that `SelectSeq`
is too, with the test given as a set of keys: `SelectSeq` takes an operator,
which no fact that is proved can have as a parameter.

### Decoding: ExpiryDates, TickerCodec, Environment

Pure functions. A behaviour of `Decoding` takes one input, a row, a text, a
payload or an environment, and keeps it; each invariant compares what the code
makes of it with a definition made otherwise. `ParseExpiry` takes a text as `parse_expiry` cuts it: its length,
the number its first characters make, three letters, the number its last two
make. `SysDays` and its helpers are what `std::chrono` does, in closed form. The
check has a calendar of its own, the lengths of the months, and asks that each of
its days is accepted, that nothing else is, and that a day comes 24 hours after
the one before.

A payload gives each key a set of at most one JSON value, of the types Boost.JSON
has. Doubles are counted in halves so that there is a fraction to cut off; `Bits`
is the width of `int64_t`, so that values beyond it are in reach. A conversion or
a product that does not fit is undefined (double to integer, signed overflow) and
yields any value; an unsigned one wraps.

An environment gives each variable a set of at most one value; `POSTGRES_HOST`
is a host and what follows its first colon. `FromEnv` is the configuration or the
names its error gives; `PyFromEnv` the settings or nothing. A value Postgres is
given is a sequence of the pieces libpq tells apart (`ConnPieces`): a blank, a
backslash, a quote, `name=` of an option, and text with none of these. `Conninfo`
is the text of `postgres_conninfo`, which quotes and escapes nothing;
`LibpqReads` is what libpq's `conninfo_parse` makes of it, one piece at a time
(`ReadPiece`): blanks before a value are skipped and end it, a quote where a
value begins opens a quoted one, a backslash takes the next piece as it is, what
stands in the place of a name and is none is an error, and a later setting
replaces an earlier one of the same option. `ConninfoReadsBack` says exactly when
libpq is given what the gateway was given, and so where `Config.cpp:60` fails: on
a host that is empty, and on a database, user, password or host that begins with
a quote or has a blank or a backslash in it.

### Gateway

`main` is a program counter through `main.cpp`: configuration, logging, the
SELECT, the loop of `build_registry` (the actions of `InstrumentRegistry`), the
start of the sink, its stop and join, the report, the shutdown of logging, and
the return, where the destructors run in the reverse order of the declarations.
The queue is taken at the level of `LatestWindow`, which `BlockingQueue` is shown
to implement: `OnTick` accepts, supersedes or refuses in one step. The consumer
takes a tick, the handler (`ConsoleSink::on_tick`) returns, and the thread ends
on a queue closed and drained. The session is external: subscribing the head of
the registry's list up to its cap, binding channels, delivering notifications,
losing the connection and starting over, as `tests/test_deribit_session.cpp`
asserts of it. Nothing stops it when `main` stops the sink, so it may go on
calling `on_tick` until `main` returns. Its ordering guard (a tick whose
timestamp does not advance is dropped) is left out: without it more ticks come.

### ReferenceIngest

A run is a process that goes through `run()` statement by statement: the schema
and its own commit, options fetched, upserted in the order of the response, each
by two statements (`UpsertInstrument`, `UpsertSubtype`), futures fetched, the
perpetual dropped, futures upserted, the index upserted, commit. Its uncommitted
rows are in `writes[r]`. One version stands for the columns an API response sets;
`told[r]` is what the venue answered, and each row carries the version its
statement wrote.

What is external is Postgres and the venue: an uncommitted row blocks an upsert
of the same symbol by another run (`Blockers`); a rollback discards `writes[r]`;
a cycle of waiting runs loses one (`AbortDeadlocked`); the sequence is drawn for
every insert tried and never given back; a run that creates a schema another is
creating waits for that one's end (`EndRace`). The draw of the sequence is made
when the upsert goes through rather than when it starts to wait: ids differ in
value, not in uniqueness. `Fail` is every exception and the death of the process;
once the run has ended it does not come back, a scheduler starts another.
`GatewayLoads` is what the startup SELECT would yield in a state.

`SecurityMaster` says what all this comes to for whoever reads the table: no
runs, statements or locks, a table that changes by `Upsert` of one whole answer.
The mapping is `rows = table`: a commit is an `Upsert`, every other step of every
run a stutter. Which of two overlapping answers is the later one it does not say;
nor does the code.

## 3. The runs

| Run | Instance | Shows |
|---|---|---|
| `queue` | 2 producers, 2 consumers, 1 closer, capacity 3, 8 pushes | order, accounting, no lost wakeup, close reaches all, falses tell of losses; refinement of `LatestWindow`; items leave; consumers end |
| `sink` | capacity 2, 5 ticks, 2 feed states | what stop and the destructor leave; each tick in one place; stop returns and accepted ticks are handled or superseded, if the handler returns; on_tick returns all the same |
| `sink_one_channel` | capacity 2, 2 ticks, 2 feed states | violation, see section 6 |
| `decoding` | 251124 inputs, one per initial state: 35200 rows; the texts of every day, real or not, of 2000 to 2099; payloads; environments | the pure functions against definitions made otherwise |
| `mapping_missing`, `env_agree`, `env_missing` | the same | violations, see section 6 |
| `registry` | up to 4 of 150 rows (5 symbols, 5 ids, 3 types, good and bad option types) | the boot and the registry after it |
| `gateway` | 4 rows of which 3 are mapped, cap of 2 channels, queue of 2, 5 notifications, 2 lost connections | the whole process: names of ticks, order of the shutdown, every return, the boot and the shutdown end |
| `ingest_safety` | 3 runs, 2 options, 1 future, the perpetual, the index, 1 change of the listing, symmetric | ids and what is visible of overlapping, failing, deadlocking runs; refinement of `SecurityMaster` |
| `ingest_live` | 2 runs, no symmetry | every run ends |
| `ingest_active_only` | 2 runs | violation, see section 6 |

Why the bounds are enough. Two producers and two consumers are what a lost
wakeup needs: one notification too few with one consumer awake and one asleep.
The pushes are more than twice the capacity, so the deque fills, displaces
several times, drains and fills again, with a close at any point. For the sink
there is one thread of each kind in the code as well. Two options are enough for
two runs to upsert in opposite order, and three runs for a cycle of three or a
run that waits for one that waits; one change of the listing gives two versions
of an instrument, so that an older answer can be committed over a newer one. Four
rows hold all three kinds, a duplicate of one, and skipped rows between them. In
`gateway` five notifications fill the queue twice over, and two lost connections
let channels be bound a third time while ticks wait. In `decoding` eight bits and
ten nanoseconds to the millisecond put timestamps on both sides of each limit. The theorems of section 5 remove the
bounds where they are proved.

`CHECK_DEADLOCK FALSE` stands where the system really stops: a sink that is
destroyed, a process that has exited, runs that have all ended. `queue` checks
deadlock (a close is always possible).

## 4. Fairness

`BlockingQueue!Fairness`: a thread inside `push` or `close`, past the unlock,
gets to its notification; a consumer that asks for the mutex gets it (critical
sections are a few instructions, none blocks). Nobody is obliged to push or to
close, and no spurious wakeup is assumed, so liveness never rests on one.
`QueueSink` adds that `stop` goes on. That the handler returns is no part of it:
`StopReturns` and `TicksReachHandler` have it as a premise (`QuickHandler`), which
`main`'s handler, one log line, meets; `IoNeverHeldUp` holds without it.
`GatewaySpec`: `main` goes on by itself except that nothing says when it stops
serving, and the consumer thread with its handler goes on; the session owes
nothing. `ReferenceIngest!FairSpec`: a run that is not blocked goes on (each
HTTP request has a timeout of 10 s, which is a `Fail`), and Postgres detects
deadlocks. No run has to start or to fail.

## 5. What is proved

Every safety property of a passing run is a theorem, and so are the refinement of
the abstract channel and of the abstract table, and the composition of the
gateway with its registry. By TLAPS, for any finite sets of threads,
any capacity above 0 and any number of pushes (`BlockingQueueProofs`), for any
capacity above 0 of the sink's queue (`QueueSinkProofs`), for any set of rows
with positive ids (`InstrumentRegistryProofs`), for any rows, payloads, caps and
capacities of the whole process (`GatewayProofs`), for any rows, texts of
expiries, payloads and environments (`DecodingProofs`), and for any set of runs,
any finite set of instruments and any number of changes of the listing
(`ReferenceIngestProofs`).

The queue and the sink:

- `TypeCorrect`, `RegistryTypeCorrect`, `SinkTypes`, `IngestTypes`: the type
  invariants, here and of the registry and the ingest. That of the ingest is
  inductive with `Ready`: what a run has to do is among what it was told, and
  between the two statements of an upsert the row is there.
- `DequeHoldsNewest`: `HoldsNewest` is inductive given the types; the lemma
  `DequeSteps` says what each kind of step does to the stamps.
- `EverythingAccounted`: inductive given the types.
- `WakeupsNotLost`: `NoLostWakeup` is inductive with `TypeOK`. The argument
  counts: an accepted item adds one to the deque and one producer to
  `Notifying`; a notification either moves a consumer from `Waiting` to `Woken`
  or finds nobody asleep, and then the invariant asks nothing; a woken consumer
  leaves `Woken` by taking an item, or by finding the deque empty. The
  cardinality lemmas before it say how the two sets grow and shrink.
- `CloseReaches`: a consumer goes to sleep only on an open queue, so at `Close`
  the closer is in `Closing` and its `NotifyAll` empties `Waiting`.
- `EndedMeansDrained`: closed is for good, and a closed queue accepts nothing.
- `LossIsTold`: `ReturnsTellLoss` is inductive with the types; the producers with
  a false still to return are counted as the notifying ones are.
- `QueueImplementsWindow`: `HoldsNewest` and the types are the invariant under
  which each step maps to a step of `LatestWindow` or a stutter.
- `TicksAccounted`: `TicksInOnePlace` with every stamp above 0 (`Accounted`) is
  inductive: a tick enters the handler only when the one before has left it.
- `StoppedIsOver`: `EndedClean` is inductive: the consumer ends on a closed and
  drained queue and outside the handler, and `stop` joins nothing else.

The registry:

- `IdsAndSymbolsAgree`: `RoundTrip` is inductive with the type invariant, which
  bounds the registered ids by `lastId` and the symbols by `seen`. The lemma
  `RowsAreInserted` shows on the way that `add` inserts every mapped row of the
  boot, which is the "unreachable" of `main.cpp:47-50`.
- `NotificationsRouteHome`: from the same invariant; keys are never changed or
  removed.
- `NoInstrumentGoesMissing`: `SubscriptionComplete` needs two more invariants.
  `IdsAscend`: keys are stored in the order of their ids, which is the order of
  the SELECT. `RowsCounted`: each row taken is a key or is counted as skipped, so
  the count `main` logs says how many keys there are. What remains is about
  the three loops of `subscription_channels`: `KeptProofs` shows that `Kept` has
  the elements of the sequence that pass, each once, in their order
  (`KeptElements`, `KeptOrder`, `KeptAll`), and `KeptLengths` that three loops
  over kinds that exclude each other and leave none out are together as long as
  the sequence.

The gateway as a whole:

- `GatewayRunsRegistry`: `main` and the session take no step on the registry that
  its own specification has not (`RegistryStep`), so the behaviours of `Gateway`
  are behaviours of `InstrumentRegistry`; `RegistryHoldsInGateway` collects what
  follows: types, lookups, channels, subscription.
- `HandlersEndBeforeLogging`, `MainCleansUp`: `GatewayInv` is inductive. It has
  the types, `ThreadPhases` (a thread that does not run has nothing queued and
  nothing in its handler, and has ended only on a closed queue, to which the
  session can add nothing more) and `MainPhases` (where the thread and the
  logging are at each statement of `main`). `MainPhases` is needed because that
  the shutdown of logging is safe rests on the join two statements earlier.
- `TicksAreTheirInstruments`: each entry of the queue and of the handler came by
  the channel its id is looked up for, which stays so because keys are never
  changed; it rests on `RegistryHoldsInGateway` at the moment of the decoding.

The pure functions:

- `FourFormsOnly`: `parse_symbol`'s cascade of tests accepts what the grammar
  does (`GrammarIsTests`), and no text has two forms (`FormsExclude`).
- `RowsKeepIdentity`, `StrikesWhereTheyBelong`: from what `ToInstrumentKey` gives
  field by field (`MappedFields`).
- `ExpiriesAreTheDays`: the closed form of `std::chrono` has its months and its
  years, leap or not, follow each other (`MonthsFollow`, `YearsFollow`), so a day
  is one after the day before (`DaysFollow`); the months' lengths are those of the
  reference (`SameCalendar`), so each of its days is accepted and no other.
- `TimestampsAreExact`: a product that fits the width is not wrapped, for any
  width and any number of nanoseconds (`FittingIsExact`).
- `PricesArriveUnchanged`: a payload makes a tick if and only if it has a time
  and the price of its channel.
- `EmptyMeansUnset`, `GatewayImpliesIngest`: from what `read_env` does to each
  variable (`UnsetReadsSame`), and since what `from_chars` takes `int` takes as
  the same number (`FromCharsDigits`).
- `UnquotedValuesReadBack`: libpq's reading goes on piece by piece
  (`ReadsInSteps`). Where no value needs quotes each setting is read as it is
  meant and the next one begins behind its blank (`WholeIsTaken`,
  `SettingIsRead`, `NextSetting`). The other direction is for every value,
  whatever stands behind the first piece that goes wrong: a value might go on
  with `host=` and set an option over again. The argument counts. What a reader
  has set and holds weighs at most one for each piece it has read
  (`WeightStep`, `AbreastStep`), what was meant weighs one more than the whole
  text (`MeantCosts`), a piece that needed quotes adds nothing
  (`UnquotedIsLost`), and a piece lost is never made up for (`LostStep`,
  `LostForGood`), so what is read at the end is something else, or an error.

The ingest:

- `OneIdEach`: `OneIdPerInstrument` is inductive with the ids drawn being below
  the sequence and each row saying its instrument's type (`IdsInv`). A step
  either adds no row or one with the next id, for an instrument that has none:
  a committed row would have been found, another run's would have been waited
  for (`NewRowIsNew`). The mutant `NoBlockers` shows that the wait is needed.
- `IdsStayForGood`: from the same invariant, at each commit.
- `SubtypesMatch`: `Matching` says it of uncommitted rows too, except for the one
  between its two statements; no run is there when it commits.
- `OnlyWholeRuns`: `Progress` says along the loops that what is written and what
  is to be done are together what was told; a commit therefore shows it all.
- `IngestIsSecurityMaster`: from the invariants above each commit is an `Upsert`
  of what the run was told (`CommitUpserts`), and no other step touches the
  table. Written rows are complete and matched before the commit
  (`AlwaysWhole`, `AlwaysMatching`), rows over older ones keep their ids.

The only assumptions are those named in the modules: `CapacityAssumption`,
`BoundAssumption`, `ThreadsAssumption`, `RowIdsAssumption`, `SinkAssumption`,
`SizesAssumption`, `KindsAssumption` (an instrument name is an option, a future, a
perpetual or the index, and there are finitely many), and those of the pure
functions. `WidthAssumption` gives 64 bits and the million nanoseconds the place
of parameters; that the power is a natural number follows from the rest of it,
but the provers know nothing of powers. `RowsAssumption`, `TextsAssumption`,
`PayloadsAssumption` and `EnvironmentsAssumption` say how an input is written
down: a symbol is cut into at least one piece, a `std::optional` has at most one
value, a year has two digits, nine letters are no date. None restricts what the
database, the venue or the operator may supply.

What recursion computes (`Kept`, `LibpqReads`) is proved with the well-founded
order of the naturals: the claim about the first n elements is made a set of
numbers, and a least one outside it is refuted (`SetInduction`, `InductionUpTo`).
The recursive function is first shown to exist, then to follow its equation
(`LoopExists`, `KeptSteps`; `ReadingExists`, `ReadsInSteps`). `MaxPort` is named
so that the provers need not look inside.

Only model-checked: the liveness properties (`EveryItemLeaves`,
`CloseEndsConsumers`, `StopReturns`, `TicksReachHandler`, `IoNeverHeldUp`,
`BootAndShutdownEnd`, `RunsEnd`), which rest on fairness and ENABLED, beyond the
prover's reach; and the violations of section 6, which are counterexamples.

## 6. Where the code and its documents part

1. `docs/marketdata-ingestion-plan.md:310` has ticks and feed state "on the same
   channel", and the consumer told that its price has gone stale.
   `QueueSink::on_feed_state` (`QueueSink.hpp:46`) stores an atomic beside the
   queue; nobody is told, and the state overtakes the queued ticks.
   `sink_one_channel` shows it: a tick is published Live, the feed goes Stale, and
   the handler is then given the tick while `feed_state()` already says Stale.
2. `InstrumentRepository.hpp:42-44` says rows missing strike, right or expiry
   give nullopt. `InstrumentRepository.cpp:54-68` and `77-79` take them from the
   symbol. `mapping_missing` shows it.
3. `docs/marketdata-ingestion-plan.md:388-392` gives the universe as every
   active option and dated future. The query (`InstrumentRepository.cpp:29-30`)
   has no condition on expiry and the ingest removes nothing, so expired
   instruments are loaded, and, by their lower ids, come first under the
   channel cap. `ingest_active_only` shows it.
4. `Config.cpp:72-75` says both programs split `POSTGRES_HOST` "the same way".
   They cut at the same colon and read the rest differently: the gateway refuses
   an empty port, a sign, blanks, 0 and numbers above 65535, the ingest takes
   them. `env_agree` shows it; `IngestRunsWhereGatewayDoes` shows that where the
   gateway starts the ingest does, with the same database.
5. `Config.hpp:46-47` has every missing variable named in one message. A
   malformed port is thrown first, alone (`Config.cpp:85`). `env_missing` shows
   it.

## 7. Plan

Done, in the order of importance: the queue, its abstract channel and the sink;
mapping and registry; the ingest; the pure functions of the boundary; the gateway
as a whole; and the theorems, which now state every safety property the passing
runs check. Left: the queue inside `Gateway` shown to be a `LatestWindow` by a
theorem rather than by its being written at that level.

### Not modelled, and why

- `beast_websocket_example.cpp`: the example program of Boost.Beast under its
  authors' copyright, in no build target.
- `DeribitSession` and its transport beyond the external part of `Gateway`:
  authentication, heartbeats, retry timers and the lifetime of the transport are
  in documents and a test, but their sources are not in the tree.
- The conversions of record fields by pqxx and of payload fields by `models.py`
  (numeric to double, milliseconds to `datetime`): no property is about a value
  they could change; what they may refuse is a failed load or a failed run.
- spdlog's own queue and thread, the wording of log lines, `fingerprint`,
  `is_secret_variable` (which nothing calls), `to_string`, `base_ccy`.
