--------------------------- MODULE ReferenceIngest --------------------------
(***************************************************************************)
(* deribit/reference_ingest.py and db/reference_data.py: the scheduled    *)
(* runs that write the security_master, and the gateway's one SELECT of it.*)
(*                                                                         *)
(* A run creates the schema if there is none, and is one transaction from  *)
(* there: it fetches the options, upserts them one by one, fetches the     *)
(* futures, upserts those, upserts the index and commits.  Nothing keeps   *)
(* two runs apart, so they overlap statement by statement.  Postgres is    *)
(* external: an uncommitted row is locked until its run ends, ON CONFLICT  *)
(* then sees what was committed, a bigserial is drawn for every insert     *)
(* tried and never returned, and one run of a cycle of waiting runs is     *)
(* aborted.                                                                *)
(***************************************************************************)
EXTENDS Integers, Sequences, FiniteSets

CONSTANTS
    Runs,           \* the runs a scheduler starts
    Options,        \* instrument names the venue may list with kind=option
    Futures,        \* with kind=future, dated
    Perpetuals,     \* with kind=future, settlement_period "perpetual"
    Index,          \* BTC_USD_SYMBOL
    MaxListings     \* bound on the changes of the venue's listing

Symbols == Options \cup Futures \cup {Index}

ASSUME KindsAssumption ==
    /\ Options \cap Futures = {}
    /\ Index \notin Options \cup Futures
    /\ Perpetuals \cap Symbols = {}
    /\ IsFiniteSet(Symbols)
    /\ MaxListings \in Nat

VARIABLES
    listed,         \* the active instruments: name -> version of their terms
    listings,       \* how often that has changed
    schema,         \* the schema is there and committed
    table,          \* committed rows: symbol -> [id, type, tick, subtypes]
    sequence,       \* the next value of the bigserial instrument_id
    pc,             \* where each run is
    todo,           \* contracts left in the loop a run is in, in API order
    half,           \* a run is between the two statements of an upsert
    writes,         \* rows a run has written and not committed
    told,           \* what the venue told a run: name -> version
    active          \* what the last run to commit was told

venue == <<listed, listings>>
vars == <<listed, listings, schema, table, sequence, pc, todo, half, writes,
          told, active>>

RunStates == {"idle", "creating", "raced", "fetchOptions", "options",
              "futures", "currency", "commit", "done", "failed", "deadlocked"}
Ended == {"done", "failed", "deadlocked"}
Nothing == [s \in {} |-> {}]

(* The rows of f with those of g over them. *)
Over(f, g) == [s \in DOMAIN f \cup DOMAIN g |->
                   IF s \in DOMAIN g THEN g[s] ELSE f[s]]

Init ==
    /\ \E S \in SUBSET (Options \cup Futures \cup Perpetuals) :
           listed = [s \in S |-> 0]
    /\ listings = 0
    /\ schema = FALSE
    /\ table = Nothing
    /\ sequence = 1
    /\ pc = [r \in Runs |-> "idle"]
    /\ todo = [r \in Runs |-> <<>>]
    /\ half = [r \in Runs |-> FALSE]
    /\ writes = [r \in Runs |-> Nothing]
    /\ told = [r \in Runs |-> Nothing]
    /\ active = Nothing
-----------------------------------------------------------------------------
(* How a run ends. *)

(* Mutant of Commit: what the run wrote takes the place of the table. *)
CommitReplaces(r) ==
    /\ pc[r] = "commit"
    /\ table' = writes[r]
    /\ writes' = [writes EXCEPT ![r] = Nothing]
    /\ active' = told[r]
    /\ pc' = [pc EXCEPT ![r] = "done"]
    /\ UNCHANGED <<venue, schema, sequence, todo, half, told>>

Commit(r) ==
    /\ pc[r] = "commit"
    /\ table' = Over(table, writes[r])
    /\ writes' = [writes EXCEPT ![r] = Nothing]
    /\ active' = told[r]
    /\ pc' = [pc EXCEPT ![r] = "done"]
    /\ UNCHANGED <<venue, schema, sequence, todo, half, told>>

(* Mutant of RollBack: the connection, and its locks, are left open. *)
LeavesTransactionOpen(r, state) ==
    /\ pc' = [pc EXCEPT ![r] = state]
    /\ UNCHANGED <<venue, schema, table, sequence, todo, half, writes, told,
                   active>>

(* The run ends without a commit and Postgres rolls it back. *)
RollBack(r, state) ==
    /\ writes' = [writes EXCEPT ![r] = Nothing]
    /\ todo' = [todo EXCEPT ![r] = <<>>]
    /\ half' = [half EXCEPT ![r] = FALSE]
    /\ told' = [told EXCEPT ![r] = Nothing]
    /\ pc' = [pc EXCEPT ![r] = state]
    /\ UNCHANGED <<venue, schema, table, sequence, active>>

(* An HTTP error, a payload that does not parse, a fractional contract_size*)
(* (_as_int), a lost connection, or the process is killed.                 *)
Fail(r) ==
    /\ pc[r] \notin Ended \cup {"idle"}
    /\ RollBack(r, "failed")
-----------------------------------------------------------------------------
(* ensure_schema: creates what is missing, seeds the venue and commits. *)

Creating == {q \in Runs : pc[q] = "creating"}

GoesTo(r, state) ==
    /\ pc' = [pc EXCEPT ![r] = state]
    /\ UNCHANGED <<venue, table, sequence, todo, half, writes, told, active>>

(* A run that sees no schema creates it, or finds another doing so and     *)
(* waits for that one on the schema's name.                                *)
EnsureSchema(r) ==
    /\ pc[r] = "idle"
    /\ GoesTo(r, CASE schema -> "fetchOptions"
                   [] ~schema /\ Creating = {} -> "creating"
                   [] OTHER -> "raced")
    /\ UNCHANGED schema

CommitSchema(r) ==
    /\ pc[r] = "creating"
    /\ GoesTo(r, "fetchOptions")
    /\ schema' = TRUE

(* IF NOT EXISTS has been answered already: what the other run committed is*)
(* a duplicate name now, an error; what it rolled back is created here.    *)
EndRace(r) ==
    /\ pc[r] = "raced"
    /\ Creating = {}
    /\ IF schema THEN RollBack(r, "failed")
       ELSE GoesTo(r, "creating") /\ UNCHANGED schema
-----------------------------------------------------------------------------
(* The upserts. *)

(* What a run is about to upsert, and who holds that row. *)
Target(r) ==
    CASE pc[r] \in {"options", "futures"} /\ todo[r] # <<>> -> {Head(todo[r])}
      [] pc[r] = "currency" -> {Index}
      [] OTHER -> {}

(* Mutant of Blockers: there is no unique key to wait on. *)
NoBlockers(r) == {}

Blockers(r) == {q \in Runs \ {r} : Target(r) \cap DOMAIN writes[q] # {}}

TypeOf(s) == CASE s \in Options -> "option" [] s \in Futures -> "future"
               [] s = Index -> "currency"

(* The index has a placeholder for a tick size. *)
Word(r, s) == IF s = Index THEN 0 ELSE told[r][s]

NewRow(r, s) == [id |-> sequence, type |-> TypeOf(s), tick |-> Word(r, s),
                 subtypes |-> {}]

(* Mutant of InstrumentRow: the row is replaced, new id and all. *)
RowReplaced(r, s) == NewRow(r, s)

(* ON CONFLICT (venue_id, symbol) DO UPDATE SET tick_size: the id and the  *)
(* type of a row already there stay; a new row takes the id drawn.         *)
InstrumentRow(r, s) ==
    LET seen == Over(table, writes[r])
    IN  IF s \in DOMAIN seen THEN [seen[s] EXCEPT !.tick = Word(r, s)]
        ELSE NewRow(r, s)

(* Mutant of SubtypeRow: DO NOTHING where there is a row. *)
SubtypeKept(r, s) ==
    LET row == writes[r][s]
    IN  IF row.subtypes # {} THEN row
        ELSE [row EXCEPT !.subtypes = {<<TypeOf(s), Word(r, s)>>}]

(* ON CONFLICT (instrument_id) DO UPDATE, on the table of the type. *)
SubtypeRow(r, s) ==
    LET row == writes[r][s]
    IN  [row EXCEPT !.subtypes = {x \in @ : x[1] # TypeOf(s)}
                                     \cup {<<TypeOf(s), Word(r, s)>>}]

(* Mutant of Write: a connection in autocommit. *)
WriteCommits(r, s, row) ==
    /\ writes' = [writes EXCEPT ![r] = Over(@, [x \in {s} |-> row])]
    /\ table' = Over(table, [x \in {s} |-> row])

Write(r, s, row) ==
    /\ writes' = [writes EXCEPT ![r] = Over(@, [x \in {s} |-> row])]
    /\ UNCHANGED table

UpsertInstrument(r) ==
    /\ ~half[r]
    /\ Blockers(r) = {}
    /\ \E s \in Target(r) : Write(r, s, InstrumentRow(r, s))
    /\ sequence' = sequence + 1
    /\ half' = [half EXCEPT ![r] = TRUE]
    /\ UNCHANGED <<venue, schema, pc, todo, told, active>>

(* The second statement; the loop goes on, and after the index the commit. *)
UpsertSubtype(r) ==
    /\ half[r]
    /\ \E s \in Target(r) : Write(r, s, SubtypeRow(r, s))
    /\ half' = [half EXCEPT ![r] = FALSE]
    /\ IF pc[r] = "currency"
       THEN pc' = [pc EXCEPT ![r] = "commit"] /\ UNCHANGED todo
       ELSE todo' = [todo EXCEPT ![r] = Tail(@)] /\ UNCHANGED pc
    /\ UNCHANGED <<venue, schema, sequence, told, active>>

(* Postgres finds a cycle of runs each waiting for a row of the next and   *)
(* aborts one of them.                                                     *)
AbortDeadlocked(r) ==
    /\ \E cycle \in SUBSET Runs :
           /\ r \in cycle
           /\ \A q \in cycle : Blockers(q) # {} /\ Blockers(q) \subseteq cycle
    /\ RollBack(r, "deadlocked")
-----------------------------------------------------------------------------
(* The two requests. *)

(* A response lists the instruments of S in any order. *)
Responses(S) == {f \in [1..Cardinality(S) -> S] :
                     \A i, j \in DOMAIN f : f[i] = f[j] => i = j}

Takes(r, S, state) ==
    /\ \E order \in Responses(S) : todo' = [todo EXCEPT ![r] = order]
    /\ told' = [told EXCEPT ![r] = Over(@, [s \in S |-> listed[s]])]
    /\ pc' = [pc EXCEPT ![r] = state]
    /\ UNCHANGED <<venue, schema, table, sequence, half, writes, active>>

FetchOptions(r) ==
    /\ pc[r] = "fetchOptions"
    /\ Takes(r, DOMAIN listed \cap Options, "options")

(* Mutant of FetchFutures: the perpetual is kept. *)
FetchFuturesAll(r) ==
    /\ pc[r] = "options"
    /\ todo[r] = <<>>
    /\ Takes(r, DOMAIN listed \cap (Futures \cup Perpetuals), "futures")

(* kind=future returns the perpetual too, which is dropped here. *)
FetchFutures(r) ==
    /\ pc[r] = "options"
    /\ todo[r] = <<>>
    /\ Takes(r, (DOMAIN listed \cap (Futures \cup Perpetuals)) \ Perpetuals,
             "futures")

FuturesDone(r) ==
    /\ pc[r] = "futures"
    /\ todo[r] = <<>>
    /\ GoesTo(r, "currency")
    /\ UNCHANGED schema
-----------------------------------------------------------------------------
(* The venue lists a new instrument, changes the terms of one, or one      *)
(* expires.                                                                *)
ListingChanges(s) ==
    /\ listings < MaxListings
    /\ listings' = listings + 1
    /\ \/ listed' = Over(listed, [x \in {s} |-> listings + 1])
       \/ /\ s \in DOMAIN listed
          /\ listed' = [x \in DOMAIN listed \ {s} |-> listed[x]]
    /\ UNCHANGED <<schema, table, sequence, pc, todo, half, writes, told,
                   active>>

(* InstrumentRepository::load: every committed row of a subscribed type,   *)
(* with no condition on what is still active.                              *)
GatewayLoads ==
    {s \in DOMAIN table : table[s].type \in {"option", "future", "currency"}}
-----------------------------------------------------------------------------
Step(r) ==
    \/ CommitSchema(r) \/ EndRace(r)
    \/ FetchOptions(r) \/ FetchFutures(r) \/ FuturesDone(r)
    \/ UpsertInstrument(r) \/ UpsertSubtype(r)
    \/ Commit(r) \/ AbortDeadlocked(r)

Next ==
    \/ \E r \in Runs : EnsureSchema(r) \/ Step(r) \/ Fail(r)
    \/ \E s \in Options \cup Futures \cup Perpetuals : ListingChanges(s)

Spec == Init /\ [][Next]_vars

(* A run that is not blocked goes on, and Postgres looks for deadlocks.    *)
FairSpec == Spec /\ \A r \in Runs : WF_vars(Step(r))
-----------------------------------------------------------------------------
Versions == 0..MaxListings
Kinds == {"option", "future", "currency"}
RowType == [id : Nat \ {0}, type : Kinds, tick : Versions,
            subtypes : SUBSET (Kinds \X Versions)]

IsTable(f) == DOMAIN f \subseteq Symbols /\ f \in [DOMAIN f -> RowType]
IsListing(f) ==
    /\ DOMAIN f \subseteq Options \cup Futures \cup Perpetuals
    /\ f \in [DOMAIN f -> Versions]

(* Type correctness; no table ever holds a symbol outside the universe.    *)
TypeOK ==
    /\ IsListing(listed)
    /\ listings \in Versions
    /\ schema \in BOOLEAN
    /\ IsTable(table)
    /\ sequence \in Nat \ {0}
    /\ pc \in [Runs -> RunStates]
    /\ todo \in [Runs -> Seq(Options \cup Futures)]
    /\ half \in [Runs -> BOOLEAN]
    /\ DOMAIN writes = Runs /\ \A r \in Runs : IsTable(writes[r])
    /\ DOMAIN told = Runs /\ \A r \in Runs : IsListing(told[r])
    /\ IsListing(active)

Committed == {[symbol |-> s, id |-> table[s].id] : s \in DOMAIN table}
Pending(r) == {[symbol |-> s, id |-> writes[r][s].id] : s \in DOMAIN writes[r]}
AllRows == Committed \cup UNION {Pending(r) : r \in Runs}

(* One instrument, one id: neither overlapping runs, nor rollbacks that    *)
(* leave gaps in the sequence, nor upserts of the same name ever give two  *)
(* ids to an instrument or one id to two.                                  *)
OneIdPerInstrument ==
    \A a, b \in AllRows : a.symbol = b.symbol <=> a.id = b.id

(* A committed instrument keeps its id and its type for good: a tick of    *)
(* yesterday joins the row of today.                                       *)
IdsAreStable ==
    [][\A s \in DOMAIN table :
           /\ s \in DOMAIN table'
           /\ table'[s].id = table[s].id
           /\ table'[s].type = table[s].type]_vars

(* The gateway sees whole runs only, as if they had come one after another *)
(* in the order of their commits: the instruments are those the runs that  *)
(* finished were told of, and the index; each says what the last run to    *)
(* commit was told of it, though an overlapping run may have been told     *)
(* later; of a run that failed anywhere, lost the race for the schema or   *)
(* was picked to break a deadlock, nothing shows.                          *)
WholeRunsOnly ==
    /\ GatewayLoads = UNION {DOMAIN told[r] \cup {Index} :
                                 r \in {q \in Runs : pc[q] = "done"}}
    /\ \A s \in DOMAIN active : table[s].tick = active[s]

(* The startup SELECT's LEFT JOINs find the subtype row the type promises  *)
(* and no other, and the two rows say what one response said: a strike     *)
(* never ends up on a future, nor an old expiry beside a new tick_size.    *)
SubtypeMatchesType ==
    \A s \in DOMAIN table :
        table[s].subtypes = {<<table[s].type, table[s].tick>>}

Master == INSTANCE SecurityMaster WITH rows <- table

(* Overlapping runs, deadlocks, rollbacks and failures anywhere come to    *)
(* what one whole answer after the other would have made of the table: no  *)
(* reader sees an upsert on its own, a run never takes back a row another  *)
(* run committed while it was running, and an id, once read, is good.      *)
ActsAsSecurityMaster == Master!Spec

(* A run that has begun ends, whatever rows the other runs hold and whoever*)
(* creates the schema.                                                     *)
RunsEnd == \A r \in Runs : (pc[r] # "idle") ~> (pc[r] \in Ended)

(* docs/marketdata-ingestion-plan.md, 7.1: what is subscribed to is "Every *)
(* active BTC option" and every dated future, "the complete universe".  So *)
(* an instrument that has expired, and that the last run to commit was no  *)
(* longer told of, is not loaded.                                          *)
OnlyActiveLoaded ==
    GatewayLoads \subseteq DOMAIN active \cup DOMAIN listed \cup {Index}

=============================================================================
