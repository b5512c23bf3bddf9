------------------------ MODULE ReferenceIngestProofs -----------------------
(* Theorems about ReferenceIngest, for any runs, instruments and changes   *)
(* of the venue's listing.                                                 *)
EXTENDS ReferenceIngest, FiniteSetTheorems, TLAPS

(* A step is one run's, the venue's, or a stutter.                         *)
LEMMA IngestStepCases ==
    ASSUME [Next]_vars
    PROVE  \/ \E r \in Runs :
                 \/ EnsureSchema(r) \/ CommitSchema(r) \/ EndRace(r)
                 \/ FetchOptions(r) \/ FetchFutures(r) \/ FuturesDone(r)
                 \/ UpsertInstrument(r) \/ UpsertSubtype(r) \/ Commit(r)
                 \/ AbortDeadlocked(r) \/ Fail(r)
           \/ \E s \in Options \cup Futures \cup Perpetuals : ListingChanges(s)
           \/ UNCHANGED vars
BY DEF Next, Step
-----------------------------------------------------------------------------
(* Types. *)

(* Laying one function over another of its kind gives a third.             *)
LEMMA OverTable ==
    ASSUME NEW f, NEW g, IsTable(f), IsTable(g)
    PROVE  IsTable(Over(f, g))
BY DEF IsTable, Over

(* The same of the listings.                                               *)
LEMMA OverListing ==
    ASSUME NEW f, NEW g, IsListing(f), IsListing(g)
    PROVE  IsListing(Over(f, g))
BY DEF IsListing, Over

(* The empty function is of both kinds.                                    *)
LEMMA NothingIsEmpty == IsTable(Nothing) /\ IsListing(Nothing)
BY DEF IsTable, IsListing, Nothing

(* What keeps the loops of a run inside what it was told, and its second   *)
(* statement on the row of its first.  Inductive with TypeOK.              *)
Ready ==
    \A r \in Runs :
        /\ \A i \in DOMAIN todo[r] : todo[r][i] \in DOMAIN told[r]
        /\ half[r] => Target(r) # {} /\ Target(r) \subseteq DOMAIN writes[r]

(* A run upserts an instrument it was told of, or the index.               *)
LEMMA TargetTold ==
    ASSUME TypeOK, Ready, NEW r \in Runs, NEW s \in Target(r)
    PROVE  s \in Symbols /\ TypeOf(s) \in Kinds /\ Word(r, s) \in Versions
<1>1. 0 \in Versions
  BY KindsAssumption DEF Versions
<1>2. CASE s = Index
  BY <1>1, <1>2, KindsAssumption DEF Symbols, TypeOf, Kinds, Word
<1>3. CASE s # Index
  <2>1. todo[r] # <<>> /\ s = Head(todo[r])
    BY <1>3 DEF Target
  <2>2. todo[r] \in Seq(Options \cup Futures)
    BY DEF TypeOK
  <2>3. s \in Options \cup Futures /\ 1 \in DOMAIN todo[r] /\ s = todo[r][1]
    BY <2>1, <2>2
  <2>4. s \in DOMAIN told[r]
    BY <2>3 DEF Ready
  <2>5. told[r][s] \in Versions
    BY <2>4 DEF TypeOK, IsListing
  <2> QED
    BY <1>3, <2>3, <2>5, KindsAssumption DEF Symbols, TypeOf, Kinds, Word
<1> QED
  BY <1>2, <1>3

(* Both statements write a row.                                            *)
LEMMA RowsWritten ==
    ASSUME TypeOK, Ready, NEW r \in Runs, NEW s \in Target(r)
    PROVE  /\ InstrumentRow(r, s) \in RowType
           /\ s \in DOMAIN writes[r] => SubtypeRow(r, s) \in RowType
<1> USE TargetTold
<1>1. IsTable(Over(table, writes[r]))
  BY OverTable DEF TypeOK
<1>2. NewRow(r, s) \in RowType
  BY DEF NewRow, RowType, TypeOK
<1>3. s \in DOMAIN Over(table, writes[r]) =>
          [Over(table, writes[r])[s] EXCEPT !.tick = Word(r, s)] \in RowType
  BY <1>1 DEF IsTable, RowType
<1>4. ASSUME s \in DOMAIN writes[r]
      PROVE  SubtypeRow(r, s) \in RowType
  <2>1. writes[r][s] \in RowType
    BY <1>4 DEF TypeOK, IsTable
  <2>2. <<TypeOf(s), Word(r, s)>> \in Kinds \X Versions
    OBVIOUS
  <2>3. {x \in writes[r][s].subtypes : x[1] # TypeOf(s)}
            \cup {<<TypeOf(s), Word(r, s)>>} \in SUBSET (Kinds \X Versions)
    BY <2>1, <2>2 DEF RowType
  <2> QED
    BY <2>1, <2>3 DEF SubtypeRow, RowType
<1> QED
  BY <1>2, <1>3, <1>4 DEF InstrumentRow

(* Writing a row adds its symbol to the run's rows; other runs are as were.*)
LEMMA WriteTypes ==
    ASSUME TypeOK, NEW r \in Runs, NEW s \in Symbols, NEW row \in RowType,
           Write(r, s, row)
    PROVE  /\ DOMAIN writes' = Runs
           /\ \A q \in Runs : IsTable(writes'[q])
           /\ DOMAIN writes'[r] = DOMAIN writes[r] \cup {s}
           /\ \A q \in Runs \ {r} : writes'[q] = writes[q]
           /\ table' = table
<1> DEFINE one == [x \in {s} |-> row]
<1>1. IsTable(one)
  BY DEF IsTable
<1>2. DOMAIN Over(writes[r], one) = DOMAIN writes[r] \cup {s}
  BY DEF Over
<1>3. IsTable(Over(writes[r], one))
  BY <1>1, OverTable DEF TypeOK
<1> HIDE DEF one
<1>4. /\ table' = table
      /\ writes' = [writes EXCEPT ![r] = Over(writes[r], one)]
  BY DEF Write, one
<1> QED
  BY <1>2, <1>3, <1>4 DEF TypeOK

(* A response fits the loop it is taken into.                              *)
LEMMA TakesFits ==
    ASSUME TypeOK, Ready, NEW r \in Runs, NEW S, NEW state \in RunStates,
           S \subseteq DOMAIN listed \cap (Options \cup Futures),
           Target(r) = {}, Takes(r, S, state)
    PROVE  TypeOK' /\ Ready'
<1>1. IsFiniteSet(S)
  <2>1. S \subseteq Symbols
    BY DEF Symbols
  <2> QED
    BY <2>1, FS_Subset, KindsAssumption
<1>2. PICK order \in Responses(S) : todo' = [todo EXCEPT ![r] = order]
  BY DEF Takes
<1>3. /\ order \in Seq(Options \cup Futures)
      /\ \A i \in DOMAIN order : order[i] \in S
  <2>1. order \in [1..Cardinality(S) -> S] /\ Cardinality(S) \in Nat
    BY <1>1, <1>2, FS_CardinalityType DEF Responses
  <2> QED
    BY <2>1
<1> DEFINE heard == [s \in S |-> listed[s]]
<1>4. IsListing(heard)
  BY DEF TypeOK, IsListing
<1>5. IsListing(Over(told[r], heard))
  BY <1>4, OverListing DEF TypeOK
<1>6. S \subseteq DOMAIN Over(told[r], heard)
  BY DEF Over
<1> HIDE DEF heard
<1>7. /\ told' = [told EXCEPT ![r] = Over(told[r], heard)]
      /\ pc' = [pc EXCEPT ![r] = state]
      /\ UNCHANGED <<listed, listings, schema, table, sequence, half, writes,
                     active>>
  BY DEF Takes, venue, heard
<1>8. TypeOK'
  BY <1>2, <1>3, <1>5, <1>7 DEF TypeOK, IsListing, IsTable
<1>9. ~half[r]
  BY DEF Ready
<1>10. ASSUME NEW q \in Runs, q # r
       PROVE  /\ todo'[q] = todo[q] /\ told'[q] = told[q]
              /\ half'[q] = half[q] /\ pc'[q] = pc[q]
  BY <1>2, <1>7, <1>10 DEF TypeOK
<1>11. ASSUME NEW q \in Runs, q # r PROVE Target(q)' = Target(q)
  BY <1>10, <1>11 DEF Target
<1>12. todo'[r] = order /\ told'[r] = Over(told[r], heard) /\ ~half'[r]
  BY <1>2, <1>7, <1>9 DEF TypeOK
<1>13. Ready'
  BY <1>3, <1>6, <1>7, <1>10, <1>11, <1>12 DEF Ready
<1> QED
  BY <1>8, <1>13

(* A run that only moves on between two loops, or ends, holds no half row. *)
LEMMA PlaceFits ==
    ASSUME TypeOK, Ready, NEW r \in Runs, NEW state \in RunStates,
           Target(r) = {}, pc' = [pc EXCEPT ![r] = state],
           UNCHANGED <<todo, half, told>>, DOMAIN writes' = Runs,
           \A q \in Runs \ {r} : writes'[q] = writes[q]
    PROVE  pc' \in [Runs -> RunStates] /\ Ready'
<1>1. pc' \in [Runs -> RunStates]
  BY DEF TypeOK
<1>2. ASSUME NEW q \in Runs, q # r PROVE Target(q)' = Target(q)
  BY <1>2 DEF Target, TypeOK
<1>3. ~half[r]
  BY DEF Ready
<1> QED
  BY <1>1, <1>2, <1>3 DEF Ready

(* A run rolled back has nothing left to do and nothing written.           *)
LEMMA RollBackFits ==
    ASSUME TypeOK, Ready, NEW r \in Runs, NEW state \in RunStates,
           RollBack(r, state)
    PROVE  TypeOK' /\ Ready'
<1>1. TypeOK'
  BY NothingIsEmpty DEF RollBack, venue, TypeOK, IsTable, IsListing
<1>2. ASSUME NEW q \in Runs, q # r
      PROVE  /\ todo'[q] = todo[q] /\ told'[q] = told[q]
             /\ half'[q] = half[q] /\ pc'[q] = pc[q] /\ writes'[q] = writes[q]
  BY <1>2 DEF RollBack, TypeOK
<1>3. ASSUME NEW q \in Runs, q # r PROVE Target(q)' = Target(q)
  BY <1>2, <1>3 DEF Target
<1>4. todo'[r] = <<>> /\ ~half'[r]
  BY DEF RollBack, TypeOK
<1> QED
  BY <1>1, <1>2, <1>3, <1>4 DEF Ready

(* The first statement of an upsert leaves the run on the row it wrote.    *)
LEMMA UpsertInstrumentFits ==
    ASSUME TypeOK, Ready, NEW r \in Runs, UpsertInstrument(r)
    PROVE  TypeOK' /\ Ready'
<1>1. PICK s \in Target(r) : Write(r, s, InstrumentRow(r, s))
  BY DEF UpsertInstrument
<1>2. s \in Symbols /\ InstrumentRow(r, s) \in RowType
  BY TargetTold, RowsWritten
<1>3. /\ DOMAIN writes' = Runs
      /\ \A q \in Runs : IsTable(writes'[q])
      /\ DOMAIN writes'[r] = DOMAIN writes[r] \cup {s}
      /\ \A q \in Runs \ {r} : writes'[q] = writes[q]
      /\ table' = table
  BY <1>1, <1>2, WriteTypes
<1>4. /\ half' = [half EXCEPT ![r] = TRUE] /\ sequence' = sequence + 1
      /\ UNCHANGED <<listed, listings, schema, pc, todo, told, active>>
  BY DEF UpsertInstrument, venue
<1>5. TypeOK'
  BY <1>3, <1>4 DEF TypeOK, IsTable, IsListing
<1>6. \A q \in Runs : Target(q)' = Target(q)
  BY <1>4 DEF Target
<1>7. Target(r) = {s}
  BY <1>1 DEF Target
<1>8. \A q \in Runs \ {r} : half'[q] = half[q]
  BY <1>4 DEF TypeOK
<1>9. ASSUME NEW q \in Runs, half'[q]
      PROVE  Target(q) # {} /\ Target(q) \subseteq DOMAIN writes'[q]
  <2>1. CASE q = r
    BY <2>1, <1>3, <1>7
  <2>2. CASE q # r
    BY <2>2, <1>3, <1>8, <1>9 DEF Ready
  <2> QED
    BY <2>1, <2>2
<1>10. Ready'
  BY <1>4, <1>6, <1>9 DEF Ready
<1> QED
  BY <1>5, <1>10

(* The second statement goes on to the next instrument, one it was told of.*)
LEMMA UpsertSubtypeFits ==
    ASSUME TypeOK, Ready, NEW r \in Runs, UpsertSubtype(r)
    PROVE  TypeOK' /\ Ready'
<1>1. PICK s \in Target(r) : Write(r, s, SubtypeRow(r, s))
  BY DEF UpsertSubtype
<1>2. s \in DOMAIN writes[r]
  BY DEF UpsertSubtype, Ready
<1>3. s \in Symbols /\ SubtypeRow(r, s) \in RowType
  BY <1>2, TargetTold, RowsWritten
<1>4. /\ DOMAIN writes' = Runs
      /\ \A q \in Runs : IsTable(writes'[q])
      /\ \A q \in Runs \ {r} : writes'[q] = writes[q]
      /\ table' = table
  BY <1>1, <1>3, WriteTypes
<1>5. /\ half' = [half EXCEPT ![r] = FALSE]
      /\ UNCHANGED <<listed, listings, schema, sequence, told, active>>
  BY DEF UpsertSubtype, venue
<1>6. /\ pc' \in [Runs -> RunStates]
      /\ todo' \in [Runs -> Seq(Options \cup Futures)]
      /\ \A q \in Runs \ {r} : todo'[q] = todo[q] /\ pc'[q] = pc[q]
      /\ \A i \in DOMAIN todo'[r] : todo'[r][i] \in DOMAIN told[r]
  <2>1. CASE pc[r] = "currency"
    BY <2>1 DEF UpsertSubtype, TypeOK, Ready, RunStates
  <2>2. CASE pc[r] # "currency"
    <3>1. todo[r] # <<>>
      BY <1>1, <2>2 DEF Target
    <3>2. /\ Tail(todo[r]) \in Seq(Options \cup Futures)
          /\ \A i \in DOMAIN Tail(todo[r]) :
                 i + 1 \in DOMAIN todo[r] /\ Tail(todo[r])[i] = todo[r][i + 1]
      BY <3>1 DEF TypeOK
    <3>3. todo' = [todo EXCEPT ![r] = Tail(todo[r])] /\ pc' = pc
      BY <2>2 DEF UpsertSubtype
    <3> QED
      BY <3>2, <3>3 DEF TypeOK, Ready
  <2> QED
    BY <2>1, <2>2
<1>7. TypeOK'
  BY <1>4, <1>5, <1>6 DEF TypeOK, IsTable, IsListing
<1>8. ASSUME NEW q \in Runs, q # r PROVE Target(q)' = Target(q)
  BY <1>6, <1>8 DEF Target
<1>9. ~half'[r] /\ \A q \in Runs \ {r} : half'[q] = half[q]
  BY <1>5 DEF TypeOK
<1> QED
  BY <1>4, <1>5, <1>6, <1>7, <1>8, <1>9, SMTT(30) DEF Ready

(* TypeOK and Ready together survive every step.                           *)
LEMMA FitsStep ==
    ASSUME TypeOK, Ready, [Next]_vars
    PROVE  TypeOK' /\ Ready'
<1>1. ASSUME NEW r \in Runs, NEW state \in RunStates, GoesTo(r, state),
             schema' \in BOOLEAN, Target(r) = {}
      PROVE  TypeOK' /\ Ready'
  <2>1. /\ pc' = [pc EXCEPT ![r] = state]
        /\ UNCHANGED <<listed, listings, table, sequence, todo, half, writes,
                       told, active>>
    BY <1>1 DEF GoesTo, venue
  <2>2. pc' \in [Runs -> RunStates] /\ Ready'
    BY <1>1, <2>1, PlaceFits DEF TypeOK
  <2> QED
    BY <1>1, <2>1, <2>2 DEF TypeOK, IsTable, IsListing
<1>2. CASE \E r \in Runs : EnsureSchema(r) \/ CommitSchema(r) \/ FuturesDone(r)
  <2> PICK r \in Runs : EnsureSchema(r) \/ CommitSchema(r) \/ FuturesDone(r)
    BY <1>2
  <2>1. Target(r) = {} /\ schema' \in BOOLEAN
    BY DEF EnsureSchema, CommitSchema, FuturesDone, Target, TypeOK
  <2>2. \E state \in RunStates : GoesTo(r, state)
    BY DEF EnsureSchema, CommitSchema, FuturesDone, RunStates
  <2> QED
    BY <1>1, <2>1, <2>2
<1>3. CASE \E r \in Runs : EndRace(r) \/ AbortDeadlocked(r) \/ Fail(r)
  <2> PICK r \in Runs : EndRace(r) \/ AbortDeadlocked(r) \/ Fail(r)
    BY <1>3
  <2>1. CASE \E state \in RunStates : RollBack(r, state)
    BY <2>1, RollBackFits
  <2>2. CASE GoesTo(r, "creating") /\ pc[r] = "raced" /\ UNCHANGED schema
    BY <2>2, <1>1 DEF Target, TypeOK, RunStates
  <2> QED
    BY <2>1, <2>2 DEF EndRace, AbortDeadlocked, Fail, RunStates
<1>4. CASE \E r \in Runs : FetchOptions(r) \/ FetchFutures(r)
  <2> PICK r \in Runs : FetchOptions(r) \/ FetchFutures(r)
    BY <1>4
  <2>1. CASE FetchOptions(r)
    BY <2>1, TakesFits DEF FetchOptions, Target, RunStates
  <2>2. CASE FetchFutures(r)
    BY <2>2, TakesFits DEF FetchFutures, Target, RunStates
  <2> QED
    BY <2>1, <2>2
<1>5. CASE \E r \in Runs : UpsertInstrument(r) \/ UpsertSubtype(r)
  BY <1>5, UpsertInstrumentFits, UpsertSubtypeFits
<1>6. CASE \E r \in Runs : Commit(r)
  <2> PICK r \in Runs : Commit(r)
    BY <1>6
  <2>1. /\ pc[r] = "commit"
        /\ table' = Over(table, writes[r])
        /\ writes' = [writes EXCEPT ![r] = Nothing]
        /\ active' = told[r]
        /\ pc' = [pc EXCEPT ![r] = "done"]
        /\ UNCHANGED <<listed, listings, schema, sequence, todo, half, told>>
    BY DEF Commit, venue
  <2>2. IsTable(table')
    BY <2>1, OverTable DEF TypeOK
  <2>3. /\ DOMAIN writes' = Runs
        /\ \A q \in Runs : IsTable(writes'[q])
        /\ \A q \in Runs \ {r} : writes'[q] = writes[q]
    BY <2>1, NothingIsEmpty DEF TypeOK
  <2>4. Target(r) = {}
    BY <2>1 DEF Target
  <2>5. pc' \in [Runs -> RunStates] /\ Ready'
    BY <2>1, <2>3, <2>4, PlaceFits DEF RunStates
  <2> QED
    BY <2>1, <2>2, <2>3, <2>5 DEF TypeOK, IsListing, IsTable
<1>7. CASE \E s \in Options \cup Futures \cup Perpetuals : ListingChanges(s)
  <2> PICK s \in Options \cup Futures \cup Perpetuals : ListingChanges(s)
    BY <1>7
  <2>1. listings + 1 \in Versions /\ listings' = listings + 1
    BY KindsAssumption DEF ListingChanges, TypeOK, Versions
  <2>2. IsListing([x \in {s} |-> listings + 1])
    BY <2>1 DEF IsListing
  <2>3. IsListing([x \in DOMAIN listed \ {s} |-> listed[x]])
    BY DEF IsListing, TypeOK
  <2>4. IsListing(listed')
    BY <2>2, <2>3, OverListing DEF ListingChanges, TypeOK
  <2>5. UNCHANGED <<schema, table, sequence, pc, todo, half, writes, told,
                   active>>
    BY DEF ListingChanges
  <2>6. Ready'
    BY <2>5 DEF Ready, Target
  <2> QED
    BY <2>1, <2>4, <2>5, <2>6 DEF TypeOK, IsTable, IsListing
<1>8. CASE UNCHANGED vars
  BY <1>8 DEF vars, venue, TypeOK, IsTable, IsListing, Ready, Target
<1> QED
  BY <1>2, <1>3, <1>4, <1>5, <1>6, <1>7, <1>8, IngestStepCases

(* So both hold of every reachable state.                                  *)
LEMMA AlwaysReady == Spec => [](TypeOK /\ Ready)
<1>1. Init => TypeOK /\ Ready
  <2> SUFFICES ASSUME Init PROVE TypeOK /\ Ready
    OBVIOUS
  <2>1. IsListing(listed) /\ listings \in Versions
    BY KindsAssumption DEF Init, IsListing, Versions
  <2>2. half \in [Runs -> BOOLEAN] /\ schema \in BOOLEAN
    BY Zenon DEF Init
  <2> QED
    BY <2>1, <2>2, NothingIsEmpty DEF Init, TypeOK, Ready, RunStates
<1>2. TypeOK /\ Ready /\ [Next]_vars => (TypeOK /\ Ready)'
  BY FitsStep
<1> QED
  BY <1>1, <1>2, PTL DEF Spec

(* Every variable keeps its type.                                          *)
THEOREM IngestTypes == Spec => []TypeOK
BY AlwaysReady, PTL
-----------------------------------------------------------------------------
(* Ids. *)

RowOf(s, i) == [symbol |-> s, id |-> i]

(* The rows there are, committed or not, one by one.                       *)
LEMMA RowsThere ==
    \A a : a \in AllRows <=>
              \/ \E s \in DOMAIN table : a = RowOf(s, table[s].id)
              \/ \E r \in Runs : \E s \in DOMAIN writes[r] :
                     a = RowOf(s, writes[r][s].id)
BY DEF AllRows, Committed, Pending, RowOf

(* The same after a step.                                                  *)
LEMMA RowsThereNext ==
    \A a : a \in AllRows' <=>
              \/ \E s \in DOMAIN table' : a = RowOf(s, table'[s].id)
              \/ \E r \in Runs : \E s \in DOMAIN writes'[r] :
                     a = RowOf(s, writes'[r][s].id)
BY DEF AllRows, Committed, Pending, RowOf

(* Every row of an instrument says its type.                               *)
TypesFit ==
    /\ \A s \in DOMAIN table : table[s].type = TypeOf(s)
    /\ \A r \in Runs : \A s \in DOMAIN writes[r] : writes[r][s].type = TypeOf(s)

(* The sequence is past every id it gave, committed, rolled back or open.  *)
IdsDrawn == \A a \in AllRows : a.id < sequence

(* Inductive with the types.                                               *)
IdsInv == OneIdPerInstrument /\ IdsDrawn /\ TypesFit

(* A new id can only be given to an instrument no run has a row for: the   *)
(* committed row is found, the run's own is found, another run's is waited *)
(* for.                                                                    *)
LEMMA NewRowIsNew ==
    ASSUME TypeOK, Ready, NEW r \in Runs, NEW s \in Target(r),
           Blockers(r) = {}, s \notin DOMAIN Over(table, writes[r])
    PROVE  \A a \in AllRows : a.symbol # s
<1>1. s \notin DOMAIN table /\ s \notin DOMAIN writes[r]
  BY DEF Over
<1>2. \A q \in Runs : s \notin DOMAIN writes[q]
  BY <1>1 DEF Blockers
<1> QED
  BY <1>1, <1>2, RowsThere DEF RowOf

(* What a step does to the rows: nothing new, or one new row with the next *)
(* id of the sequence for an instrument that had none.                     *)
Fresh(s) ==
    /\ \A a \in AllRows : a.symbol # s
    /\ AllRows' \subseteq AllRows \cup {RowOf(s, sequence)}
    /\ sequence' = sequence + 1

OldRows == AllRows' \subseteq AllRows /\ sequence' >= sequence

(* One statement adds at most the row it writes, and keeps the types apart.*)
LEMMA WriteRows ==
    ASSUME TypeOK, NEW r \in Runs, NEW s \in Symbols, NEW row \in RowType,
           TypesFit, row.type = TypeOf(s), Write(r, s, row)
    PROVE  AllRows' \subseteq AllRows \cup {RowOf(s, row.id)} /\ TypesFit'
<1> DEFINE new == Over(writes[r], [x \in {s} |-> row])
<1>1. /\ DOMAIN new = DOMAIN writes[r] \cup {s}
      /\ new[s] = row
      /\ \A x \in DOMAIN writes[r] \ {s} : new[x] = writes[r][x]
  BY DEF Over
<1> HIDE DEF new
<1>2. table' = table /\ writes' = [writes EXCEPT ![r] = new]
  BY DEF Write, new
<1>3. writes'[r] = new /\ \A q \in Runs \ {r} : writes'[q] = writes[q]
  BY <1>2 DEF TypeOK
<1>4. ASSUME NEW q \in Runs, NEW x \in DOMAIN writes'[q]
      PROVE  \/ x = s /\ writes'[q][x] = row
             \/ x \in DOMAIN writes[q] /\ writes'[q][x] = writes[q][x]
  BY <1>1, <1>3
<1>5. TypesFit'
  <2>1. \A x \in DOMAIN table' : table'[x].type = TypeOf(x)
    BY <1>2 DEF TypesFit
  <2>2. ASSUME NEW q \in Runs, NEW x \in DOMAIN writes'[q]
        PROVE  writes'[q][x].type = TypeOf(x)
    BY <1>4 DEF TypesFit
  <2> QED
    BY <2>1, <2>2 DEF TypesFit
<1>6. ASSUME NEW a \in AllRows'
      PROVE  a \in AllRows \cup {RowOf(s, row.id)}
  <2>1. CASE \E x \in DOMAIN table' : a = RowOf(x, table'[x].id)
    BY <2>1, <1>2, RowsThere
  <2>2. CASE \E q \in Runs : \E x \in DOMAIN writes'[q] :
                 a = RowOf(x, writes'[q][x].id)
    BY <2>2, <1>4, RowsThere
  <2> QED
    BY <2>1, <2>2, RowsThereNext
<1> QED
  BY <1>5, <1>6

(* Every step is of one of these two sorts.                                *)
LEMMA RowsStep ==
    ASSUME TypeOK, Ready, TypesFit, [Next]_vars
    PROVE  (OldRows \/ \E s : Fresh(s)) /\ TypesFit'
<1> USE DEF OldRows
<1>0. sequence \in Nat
  BY DEF TypeOK
<1>1. CASE UNCHANGED <<table, writes, sequence>>
  <2>1. AllRows' = AllRows
    BY <1>1 DEF AllRows, Committed, Pending
  <2>2. TypesFit'
    BY <1>1 DEF TypesFit
  <2> QED
    BY <1>0, <1>1, <2>1, <2>2
<1>2. ASSUME NEW r \in Runs, UpsertInstrument(r)
      PROVE  (OldRows \/ \E s : Fresh(s)) /\ TypesFit'
  <2>1. PICK s \in Target(r) : Write(r, s, InstrumentRow(r, s))
    BY <1>2 DEF UpsertInstrument
  <2>2. Blockers(r) = {} /\ sequence' = sequence + 1
    BY <1>2 DEF UpsertInstrument
  <2>3. s \in Symbols /\ TypeOf(s) \in Kinds /\ InstrumentRow(r, s) \in RowType
    BY TargetTold, RowsWritten
  <2> DEFINE seen == Over(table, writes[r])
  <2>4. CASE s \in DOMAIN seen
    <3>1. seen[s] \in RowType /\ seen[s].type = TypeOf(s)
      BY <2>4, OverTable DEF TypeOK, IsTable, TypesFit, Over
    <3>2. RowOf(s, seen[s].id) \in AllRows
      BY <2>4, RowsThere DEF Over
    <3>3. /\ InstrumentRow(r, s).id = seen[s].id
          /\ InstrumentRow(r, s).type = TypeOf(s)
      BY <2>4, <3>1 DEF InstrumentRow, RowType
    <3> HIDE DEF seen
    <3>4. AllRows' \subseteq AllRows \cup {RowOf(s, seen[s].id)} /\ TypesFit'
      BY <2>1, <2>3, <3>3, WriteRows
    <3> QED
      BY <1>0, <2>2, <3>2, <3>4
  <2>5. CASE s \notin DOMAIN seen
    <3>1. /\ InstrumentRow(r, s).id = sequence
          /\ InstrumentRow(r, s).type = TypeOf(s)
      BY <2>5 DEF InstrumentRow, NewRow
    <3>2. AllRows' \subseteq AllRows \cup {RowOf(s, sequence)} /\ TypesFit'
      BY <2>1, <2>3, <3>1, WriteRows
    <3>3. \A a \in AllRows : a.symbol # s
      BY <2>2, <2>5, NewRowIsNew
    <3> QED
      BY <2>2, <3>2, <3>3 DEF Fresh
  <2> QED
    BY <2>4, <2>5
<1>3. ASSUME NEW r \in Runs, UpsertSubtype(r)
      PROVE  OldRows /\ TypesFit'
  <2>1. PICK s \in Target(r) : Write(r, s, SubtypeRow(r, s))
    BY <1>3 DEF UpsertSubtype
  <2>2. sequence' = sequence /\ s \in DOMAIN writes[r]
    BY <1>3 DEF UpsertSubtype, Ready
  <2>3. s \in Symbols /\ SubtypeRow(r, s) \in RowType
    BY <2>2, TargetTold, RowsWritten
  <2>4. writes[r][s] \in RowType /\ writes[r][s].type = TypeOf(s)
    BY <2>2 DEF TypeOK, IsTable, TypesFit
  <2>5. /\ SubtypeRow(r, s).id = writes[r][s].id
        /\ SubtypeRow(r, s).type = TypeOf(s)
    BY <2>4 DEF SubtypeRow, RowType
  <2>6. RowOf(s, writes[r][s].id) \in AllRows
    BY <2>2, RowsThere
  <2>7. AllRows' \subseteq AllRows \cup {RowOf(s, writes[r][s].id)} /\ TypesFit'
    BY <2>1, <2>3, <2>5, WriteRows
  <2> QED
    BY <1>0, <2>2, <2>6, <2>7
<1>4. ASSUME NEW r \in Runs, writes' = [writes EXCEPT ![r] = Nothing],
             sequence' = sequence,
             table' = table \/ table' = Over(table, writes[r])
      PROVE  OldRows /\ TypesFit'
  <2>1. /\ DOMAIN writes'[r] = {}
        /\ \A q \in Runs \ {r} : writes'[q] = writes[q]
    BY <1>4 DEF TypeOK, Nothing
  <2>2. ASSUME NEW s \in DOMAIN table'
        PROVE  \/ s \in DOMAIN table /\ table'[s] = table[s]
               \/ s \in DOMAIN writes[r] /\ table'[s] = writes[r][s]
    BY <1>4 DEF Over
  <2>3. TypesFit'
    <3>1. \A s \in DOMAIN table' : table'[s].type = TypeOf(s)
      BY <2>2 DEF TypesFit
    <3>2. ASSUME NEW q \in Runs, NEW s \in DOMAIN writes'[q]
          PROVE  writes'[q][s].type = TypeOf(s)
      BY <2>1 DEF TypesFit
    <3> QED
      BY <3>1, <3>2 DEF TypesFit
  <2>4. ASSUME NEW a \in AllRows' PROVE a \in AllRows
    <3>1. CASE \E s \in DOMAIN table' : a = RowOf(s, table'[s].id)
      BY <3>1, <2>2, RowsThere
    <3>2. CASE \E q \in Runs : \E s \in DOMAIN writes'[q] :
                   a = RowOf(s, writes'[q][s].id)
      BY <3>2, <2>1, RowsThere
    <3> QED
      BY <3>1, <3>2, RowsThereNext
  <2> QED
    BY <1>0, <1>4, <2>3, <2>4
<1>5. ASSUME NEW r \in Runs, NEW state, RollBack(r, state)
      PROVE  OldRows /\ TypesFit'
  BY <1>4, <1>5 DEF RollBack
<1>6. ASSUME NEW r \in Runs, EndRace(r) \/ AbortDeadlocked(r) \/ Fail(r)
      PROVE  OldRows /\ TypesFit'
  <2>1. CASE \E state : RollBack(r, state)
    BY <2>1, <1>5
  <2>2. CASE GoesTo(r, "creating")
    <3>1. UNCHANGED <<table, writes, sequence>>
      BY <2>2 DEF GoesTo
    <3>2. AllRows' = AllRows
      BY <3>1 DEF AllRows, Committed, Pending
    <3> QED
      BY <1>0, <3>1, <3>2 DEF TypesFit
  <2> QED
    BY <2>1, <2>2, <1>6 DEF EndRace, AbortDeadlocked, Fail
<1>7. ASSUME NEW r \in Runs, Commit(r)
      PROVE  OldRows /\ TypesFit'
  BY <1>4, <1>7 DEF Commit
<1> QED
  BY <1>1, <1>2, <1>3, <1>6, <1>7, IngestStepCases
  DEF EnsureSchema, CommitSchema, FuturesDone, GoesTo, FetchOptions,
      FetchFutures, Takes, ListingChanges, vars

(* So one id for each instrument stays one id for each instrument.         *)
LEMMA IdsStep ==
    ASSUME TypeOK, Ready, IdsInv, [Next]_vars
    PROVE  IdsInv'
<1>1. sequence \in Nat /\ \A a \in AllRows : a.id \in Nat
  <2>1. \A s \in DOMAIN table : table[s].id \in Nat
    BY DEF TypeOK, IsTable, RowType
  <2>2. \A r \in Runs : \A s \in DOMAIN writes[r] : writes[r][s].id \in Nat
    BY DEF TypeOK, IsTable, RowType
  <2> QED
    BY <2>1, <2>2, RowsThere DEF RowOf, TypeOK
<1>2. TypesFit' /\ (OldRows \/ \E s : Fresh(s))
  BY RowsStep DEF IdsInv
<1>3. CASE OldRows
  <2>1. OneIdPerInstrument'
    BY <1>3 DEF OldRows, IdsInv, OneIdPerInstrument
  <2>2. ASSUME NEW a \in AllRows' PROVE a.id < sequence'
    <3>1. sequence' \in Nat /\ sequence' >= sequence
      BY <1>3, FitsStep DEF TypeOK, OldRows
    <3>2. a.id \in Nat /\ a.id < sequence
      BY <1>1, <1>3 DEF OldRows, IdsInv, IdsDrawn
    <3> QED
      BY <1>1, <3>1, <3>2
  <2> QED
    BY <1>2, <2>1, <2>2 DEF IdsInv, IdsDrawn
<1>4. CASE \E s : Fresh(s)
  <2> PICK s : Fresh(s)
    BY <1>4
  <2>1. \A a \in AllRows' : \/ /\ a \in AllRows /\ a.symbol # s
                               /\ a.id \in Nat /\ a.id < sequence
                            \/ a.symbol = s /\ a.id = sequence
    BY <1>1 DEF Fresh, RowOf, IdsInv, IdsDrawn
  <2>2. OneIdPerInstrument'
    BY <1>1, <2>1 DEF IdsInv, OneIdPerInstrument
  <2>3. ASSUME NEW a \in AllRows' PROVE a.id < sequence'
    <3>1. sequence' = sequence + 1
      BY DEF Fresh
    <3>2. a.id \in Nat /\ a.id <= sequence
      BY <1>1, <2>1
    <3> QED
      BY <1>1, <3>1, <3>2
  <2> QED
    BY <1>2, <2>2, <2>3 DEF IdsInv, IdsDrawn
<1> QED
  BY <1>2, <1>3, <1>4

(* And it holds of every reachable state.                                  *)
LEMMA AlwaysIds == Spec => []IdsInv
<1>1. Init => IdsInv
  <2> SUFFICES ASSUME Init PROVE IdsInv
    OBVIOUS
  <2>1. DOMAIN table = {} /\ \A r \in Runs : DOMAIN writes[r] = {}
    BY DEF Init, Nothing
  <2>2. AllRows = {}
    BY <2>1, RowsThere
  <2> QED
    BY <2>1, <2>2 DEF IdsInv, OneIdPerInstrument, IdsDrawn, TypesFit
<1>2. TypeOK /\ Ready /\ IdsInv /\ [Next]_vars => IdsInv'
  BY IdsStep
<1> QED
  BY <1>1, <1>2, AlwaysReady, PTL DEF Spec

(* However runs overlap, fail and deadlock, an instrument has one id and an*)
(* id one instrument, in the table and in what is still to be committed.   *)
THEOREM OneIdEach == Spec => []OneIdPerInstrument
<1>1. IdsInv => OneIdPerInstrument
  BY DEF IdsInv
<1> QED
  BY <1>1, AlwaysIds, PTL

(* A committed row keeps its id and type through every later commit.       *)
THEOREM IdsStayForGood == Spec => IdsAreStable
<1> DEFINE Kept == \A s \in DOMAIN table :
                       /\ s \in DOMAIN table'
                       /\ table'[s].id = table[s].id
                       /\ table'[s].type = table[s].type
<1>1. TypeOK /\ Ready /\ IdsInv /\ [Next]_vars => [Kept]_vars
  <2> SUFFICES ASSUME TypeOK, Ready, IdsInv, [Next]_vars PROVE Kept
    OBVIOUS
  <2>1. CASE table' = table
    BY <2>1
  <2>2. ASSUME NEW r \in Runs, Commit(r), NEW s \in DOMAIN table
        PROVE  /\ s \in DOMAIN table'
               /\ table'[s].id = table[s].id
               /\ table'[s].type = table[s].type
    <3>1. table' = Over(table, writes[r])
      BY <2>2 DEF Commit
    <3>2. CASE s \notin DOMAIN writes[r]
      BY <3>1, <3>2, <2>2 DEF Over
    <3>3. CASE s \in DOMAIN writes[r]
      <4>1. s \in DOMAIN table' /\ table'[s] = writes[r][s]
        BY <3>1, <3>3 DEF Over
      <4>2. /\ RowOf(s, table[s].id) \in AllRows
            /\ RowOf(s, writes[r][s].id) \in AllRows
        BY <2>2, <3>3, RowsThere
      <4>3. writes[r][s].id = table[s].id
        BY <4>2 DEF IdsInv, OneIdPerInstrument, RowOf
      <4>4. writes[r][s].type = table[s].type
        BY <2>2, <3>3 DEF IdsInv, TypesFit
      <4> QED
        BY <4>1, <4>3, <4>4
    <3> QED
      BY <3>2, <3>3
  <2>3. \A r, s, row : Write(r, s, row) => table' = table
    BY DEF Write
  <2> QED
    BY <2>1, <2>2, <2>3, IngestStepCases
    DEF EnsureSchema, CommitSchema, EndRace, FuturesDone, GoesTo, FetchOptions,
        FetchFutures, Takes, UpsertInstrument, UpsertSubtype, AbortDeadlocked,
        Fail, RollBack, ListingChanges, vars
<1> QED
  BY <1>1, AlwaysReady, AlwaysIds, PTL DEF Spec, IdsAreStable

-----------------------------------------------------------------------------
(* The two rows of an instrument. *)

Matches(row) == row.subtypes = {<<row.type, row.tick>>}

(* A row that is not between its two statements says the same twice; one   *)
(* that is has the new terms in its first half and, in its second, none of *)
(* another type's.                                                         *)
RowFits(r, s) ==
    /\ \A x \in writes[r][s].subtypes : x[1] = TypeOf(s)
    /\ IF half[r] /\ s \in Target(r)
       THEN writes[r][s].tick = Word(r, s)
       ELSE Matches(writes[r][s])

(* Inductive with the types. *)
Matching ==
    /\ \A s \in DOMAIN table : Matches(table[s])
    /\ \A r \in Runs : \A s \in DOMAIN writes[r] : RowFits(r, s)

(* A row another step left alone keeps what Matching says of it.           *)
LEMMA MatchingFrame ==
    ASSUME Matching, NEW r \in Runs, writes'[r] = writes[r],
           half'[r] = half[r],
           half[r] => Target(r)' = Target(r) /\ told'[r] = told[r],
           NEW s \in DOMAIN writes'[r]
    PROVE  RowFits(r, s)'
<1>1. RowFits(r, s)
  BY DEF Matching
<1>2. CASE half[r] /\ s \in Target(r)
  BY <1>1, <1>2 DEF RowFits, Word
<1>3. CASE ~(half[r] /\ s \in Target(r))
  BY <1>1, <1>3 DEF RowFits
<1> QED
  BY <1>2, <1>3

(* A step of one run leaves the other runs where they are, and itself too  *)
(* if it is between two statements and neither goes on nor ends.           *)
LEMMA RunsApart ==
    ASSUME TypeOK, Ready, NEW r \in Runs, NEW q \in Runs,
           \/ /\ EnsureSchema(r) \/ CommitSchema(r) \/ FuturesDone(r)
                 \/ FetchOptions(r) \/ FetchFutures(r) \/ Commit(r)
                 \/ (\E state : GoesTo(r, state) /\ pc[r] = "raced")
           \/ q # r /\ (\E state : RollBack(r, state))
           \/ q # r /\ (UpsertInstrument(r) \/ UpsertSubtype(r))
    PROVE  /\ half'[q] = half[q]
           /\ half[q] => Target(q)' = Target(q) /\ told'[q] = told[q]
<1>1. CASE q # r
  <2>1. /\ half'[q] = half[q] /\ told'[q] = told[q]
        /\ pc'[q] = pc[q] /\ todo'[q] = todo[q]
    BY <1>1
    DEF EnsureSchema, CommitSchema, FuturesDone, FetchOptions, FetchFutures,
        Takes, Commit, GoesTo, RollBack, UpsertInstrument, UpsertSubtype, TypeOK
  <2> QED
    BY <2>1 DEF Target
<1>2. CASE q = r
  <2>1. half' = half /\ Target(q) = {}
    BY <1>2
    DEF EnsureSchema, CommitSchema, FuturesDone, FetchOptions, FetchFutures,
        Takes, Commit, GoesTo, Target
  <2> QED
    BY <2>1 DEF Ready
<1> QED
  BY <1>1, <1>2

(* Every step keeps what is said of the rows.                              *)
LEMMA MatchingStep ==
    ASSUME TypeOK, Ready, TypesFit, Matching, [Next]_vars
    PROVE  Matching'
<1>0. ASSUME \A s \in DOMAIN table' : Matches(table'[s]),
             \A q \in Runs : \A s \in DOMAIN writes'[q] : RowFits(q, s)'
      PROVE  Matching'
  BY <1>0 DEF Matching, Matches
<1>1. ASSUME NEW r \in Runs,
             \/ EnsureSchema(r) \/ CommitSchema(r) \/ FuturesDone(r)
             \/ FetchOptions(r) \/ FetchFutures(r)
             \/ \E state : GoesTo(r, state) /\ pc[r] = "raced"
      PROVE  Matching'
  <2>1. table' = table /\ writes' = writes
    BY <1>1 DEF EnsureSchema, CommitSchema, FuturesDone, GoesTo, FetchOptions,
                FetchFutures, Takes
  <2>2. ASSUME NEW q \in Runs, NEW s \in DOMAIN writes'[q]
        PROVE  RowFits(q, s)'
    <3>1. /\ half'[q] = half[q]
          /\ half[q] => Target(q)' = Target(q) /\ told'[q] = told[q]
      BY <1>1, RunsApart
    <3> QED
      BY <2>1, <3>1, MatchingFrame
  <2> QED
    BY <1>0, <2>1, <2>2 DEF Matching
<1>2. ASSUME NEW r \in Runs, Commit(r) \/ \E state : RollBack(r, state)
      PROVE  Matching'
  <2>1. /\ DOMAIN writes'[r] = {}
        /\ \A q \in Runs \ {r} : writes'[q] = writes[q]
    BY <1>2 DEF Commit, RollBack, TypeOK, Nothing
  <2>2. ASSUME NEW s \in DOMAIN table' PROVE Matches(table'[s])
    <3>1. CASE Commit(r)
      <4>1. ~half[r] /\ table' = Over(table, writes[r])
        BY <3>1 DEF Commit, Ready, Target
      <4>2. \A x \in DOMAIN writes[r] : Matches(writes[r][x])
        BY <4>1 DEF Matching, RowFits
      <4> QED
        BY <4>1, <4>2 DEF Over, Matching
    <3>2. CASE \E state : RollBack(r, state)
      BY <3>2 DEF RollBack, Matching
    <3> QED
      BY <1>2, <3>1, <3>2
  <2>3. ASSUME NEW q \in Runs, NEW s \in DOMAIN writes'[q]
        PROVE  RowFits(q, s)'
    <3>1. q # r /\ writes'[q] = writes[q]
      BY <2>1, <2>3
    <3>2. /\ half'[q] = half[q]
          /\ half[q] => Target(q)' = Target(q) /\ told'[q] = told[q]
      BY <1>2, <3>1, RunsApart
    <3> QED
      BY <3>1, <3>2, MatchingFrame
  <2> QED
    BY <1>0, <2>2, <2>3
<1>3. ASSUME NEW r \in Runs, UpsertInstrument(r) \/ UpsertSubtype(r)
      PROVE  Matching'
  <2> PICK s, row :
        /\ s \in Target(r)
        /\ Write(r, s, row)
        /\ \/ UpsertInstrument(r) /\ row = InstrumentRow(r, s)
           \/ UpsertSubtype(r) /\ row = SubtypeRow(r, s)
    BY <1>3 DEF UpsertInstrument, UpsertSubtype
  <2>1. Target(r) = {s}
    BY DEF Target
  <2>2. /\ table' = table
        /\ \A q \in Runs \ {r} : writes'[q] = writes[q]
        /\ DOMAIN writes'[r] = DOMAIN writes[r] \cup {s}
        /\ writes'[r][s] = row
        /\ \A x \in DOMAIN writes[r] \ {s} : writes'[r][x] = writes[r][x]
    BY DEF Write, Over, TypeOK
  <2>3. s \in Symbols /\ TypeOf(s) \in Kinds
    BY TargetTold
  <2>4. CASE UpsertInstrument(r) /\ row = InstrumentRow(r, s)
    <3>1. /\ half'[r] /\ ~half[r] /\ Target(r)' = {s}
          /\ told' = told
      BY <2>4, <2>1 DEF UpsertInstrument, TypeOK, Target
    <3> DEFINE seen == Over(table, writes[r])
    <3>2. row.tick = Word(r, s) /\ \A x \in row.subtypes : x[1] = TypeOf(s)
      <4>1. CASE s \in DOMAIN seen
        <5>1. /\ seen[s] \in RowType /\ seen[s].type = TypeOf(s)
              /\ Matches(seen[s])
          <6>1. CASE s \in DOMAIN writes[r]
            <7>1. seen[s] = writes[r][s]
              BY <6>1 DEF Over
            <7> QED
              BY <3>1, <6>1, <7>1
              DEF TypeOK, IsTable, TypesFit, Matching, RowFits
          <6>2. CASE s \notin DOMAIN writes[r]
            <7>1. s \in DOMAIN table /\ seen[s] = table[s]
              BY <4>1, <6>2 DEF Over
            <7> QED
              BY <7>1 DEF TypeOK, IsTable, TypesFit, Matching
          <6> QED
            BY <6>1, <6>2
        <5> HIDE DEF seen
        <5>2. row = [seen[s] EXCEPT !.tick = Word(r, s)]
          BY <2>4, <4>1 DEF InstrumentRow, seen
        <5>3. row.tick = Word(r, s) /\ row.subtypes = seen[s].subtypes
          BY <5>1, <5>2 DEF RowType
        <5> QED
          BY <5>1, <5>3 DEF Matches
      <4>2. CASE s \notin DOMAIN seen
        BY <2>4, <4>2 DEF InstrumentRow, NewRow
      <4> QED
        BY <4>1, <4>2
    <3> HIDE DEF seen
    <3>3. RowFits(r, s)'
      BY <2>2, <3>1, <3>2 DEF RowFits, Word
    <3>4. ASSUME NEW x \in DOMAIN writes[r] \ {s} PROVE RowFits(r, x)'
      <4>1. RowFits(r, x) /\ Matches(writes[r][x])
        BY <3>1 DEF Matching, RowFits
      <4> QED
        BY <2>2, <3>1, <4>1 DEF RowFits
    <3>5. \A x \in DOMAIN writes'[r] : RowFits(r, x)'
      BY <2>2, <3>3, <3>4
    <3> QED
      BY <1>0, <2>2, <3>5, <2>4, RunsApart, MatchingFrame DEF Matching
  <2>5. CASE UpsertSubtype(r) /\ row = SubtypeRow(r, s)
    <3>1. half[r] /\ ~half'[r] /\ s \in DOMAIN writes[r]
      BY <2>5 DEF UpsertSubtype, TypeOK, Ready
    <3>2. /\ writes[r][s] \in RowType /\ writes[r][s].type = TypeOf(s)
          /\ RowFits(r, s)
      BY <3>1 DEF TypeOK, IsTable, TypesFit, Matching
    <3>3. {x \in writes[r][s].subtypes : x[1] # TypeOf(s)} = {}
      BY <3>2 DEF RowFits
    <3>4. /\ row.type = TypeOf(s) /\ row.tick = Word(r, s)
          /\ row.subtypes = {<<TypeOf(s), Word(r, s)>>}
      <4>1. row = [writes[r][s] EXCEPT !.subtypes = {<<TypeOf(s), Word(r, s)>>}]
        BY <2>5, <3>3 DEF SubtypeRow
      <4>2. writes[r][s].tick = Word(r, s)
        BY <2>1, <3>1, <3>2 DEF RowFits
      <4> QED
        BY <3>2, <4>1, <4>2 DEF RowType
    <3>5. RowFits(r, s)'
      BY <2>2, <3>1, <3>4 DEF RowFits, Matches
    <3>6. ASSUME NEW x \in DOMAIN writes[r] \ {s} PROVE RowFits(r, x)'
      <4>1. RowFits(r, x) /\ Matches(writes[r][x])
        BY <2>1, <3>1, <3>6 DEF Matching, RowFits
      <4> QED
        BY <2>2, <3>1, <4>1 DEF RowFits
    <3>7. \A x \in DOMAIN writes'[r] : RowFits(r, x)'
      BY <2>2, <3>5, <3>6
    <3> QED
      BY <1>0, <2>2, <3>7, <2>5, RunsApart, MatchingFrame DEF Matching
  <2> QED
    BY <2>4, <2>5
<1>4. CASE \/ \E s \in Options \cup Futures \cup Perpetuals : ListingChanges(s)
           \/ UNCHANGED vars
  <2>1. UNCHANGED <<table, pc, todo, half, writes, told>>
    BY <1>4 DEF ListingChanges, vars
  <2>2. \A q \in Runs : Target(q)' = Target(q)
    BY <2>1 DEF Target
  <2>3. \A q \in Runs : \A s \in DOMAIN writes'[q] : RowFits(q, s)'
    BY <2>1, <2>2, MatchingFrame
  <2> QED
    BY <1>0, <2>1, <2>3 DEF Matching
<1>5. ASSUME NEW r \in Runs, EndRace(r) \/ AbortDeadlocked(r) \/ Fail(r)
      PROVE  Matching'
  <2>1. \/ \E state : RollBack(r, state)
        \/ \E state : GoesTo(r, state) /\ pc[r] = "raced"
    BY <1>5 DEF EndRace, AbortDeadlocked, Fail
  <2> QED
    BY <1>1, <1>2, <2>1
<1> QED
  BY <1>1, <1>2, <1>3, <1>4, <1>5, IngestStepCases

(* So it holds of every reachable state.                                   *)
LEMMA AlwaysMatching == Spec => []Matching
<1>1. Init => Matching
  BY DEF Init, Nothing, Matching
<1>2. TypeOK /\ Ready /\ IdsInv /\ Matching /\ [Next]_vars => Matching'
  BY MatchingStep DEF IdsInv
<1> QED
  BY <1>1, <1>2, AlwaysReady, AlwaysIds, PTL DEF Spec

(* A committed instrument has the one subtype row its type promises, and   *)
(* both rows say what one response said.                                   *)
THEOREM SubtypesMatch == Spec => []SubtypeMatchesType
<1>1. Matching => SubtypeMatchesType
  BY DEF Matching, Matches, SubtypeMatchesType
<1> QED
  BY <1>1, AlwaysMatching, PTL

-----------------------------------------------------------------------------
(* Whole runs. *)

ToDo(r) == {todo[r][i] : i \in DOMAIN todo[r]}

(* What a run has written and what it has still to write is what it was    *)
(* told, all along the way from the first request to the commit.           *)
Progress(r) ==
    /\ DOMAIN told[r] \subseteq Options \cup Futures
    /\ pc[r] \in {"idle", "creating", "raced", "fetchOptions", "failed",
                  "deadlocked"}
           => DOMAIN writes[r] = {} /\ DOMAIN told[r] = {}
    /\ pc[r] = "options" => DOMAIN told[r] \subseteq Options
    /\ pc[r] \in {"options", "futures"}
           => DOMAIN writes[r] \cup ToDo(r) = DOMAIN told[r]
    /\ pc[r] = "currency" => DOMAIN writes[r] \ {Index} = DOMAIN told[r]
    /\ pc[r] = "commit" => DOMAIN writes[r] = DOMAIN told[r] \cup {Index}
    /\ \A s \in DOMAIN writes[r] \ {Index} : writes[r][s].tick = told[r][s]
    /\ Index \in DOMAIN writes[r] => writes[r][Index].tick = 0

Done == {r \in Runs : pc[r] = "done"}
Shown == UNION {DOMAIN told[r] \cup {Index} : r \in Done}

(* Inductive with the types and Ready. *)
Whole ==
    /\ \A r \in Runs : Progress(r)
    /\ DOMAIN table = Shown
    /\ DOMAIN active \subseteq (Options \cup Futures) \cap DOMAIN table
    /\ \A s \in DOMAIN active : table[s].tick = active[s]

(* A response names everything it lists. *)
LEMMA ResponsesName ==
    ASSUME NEW S, IsFiniteSet(S), NEW order \in Responses(S)
    PROVE  {order[i] : i \in DOMAIN order} = S
<1> DEFINE n == Cardinality(S)
           T == {order[i] : i \in DOMAIN order}
<1>1. /\ n \in Nat /\ order \in [1..n -> S]
      /\ \A i, j \in 1..n : order[i] = order[j] => i = j
  BY FS_CardinalityType DEF Responses
<1>2. order \in Bijection(1..n, T)
  BY <1>1 DEF Bijection, Injection, Surjection, IsInjective
<1>3. T \subseteq S
  BY <1>1
<1> HIDE DEF T
<1>4. Cardinality(T) = n
  BY <1>1, <1>2, FS_CountingElements DEF ExistsBijection
<1>5. T = S
  BY <1>3, <1>4, FS_Subset
<1> QED
  BY <1>5 DEF T

(* A step of one run is no progress of another. *)
LEMMA ProgressFrame ==
    ASSUME NEW q \in Runs, Progress(q), pc'[q] = pc[q], todo'[q] = todo[q],
           writes'[q] = writes[q], told'[q] = told[q]
    PROVE  Progress(q)'
<1>1. ToDo(q)' = ToDo(q)
  BY DEF ToDo
<1> QED
  BY <1>1 DEF Progress

(* Nor does a step that commits nothing change what shows. *)
LEMMA WholeFrame ==
    ASSUME Whole, TypeOK, NEW r \in Runs, Progress(r)',
           DOMAIN pc' = Runs, pc[r] # "done", pc'[r] # "done",
           \A q \in Runs \ {r} :
               Progress(q)' /\ pc'[q] = pc[q] /\ told'[q] = told[q],
           table' = table, active' = active
    PROVE  Whole'
<1>1. Done' = Done /\ r \notin Done
  BY DEF Done
<1>2. \A q \in Done : told'[q] = told[q]
  BY <1>1 DEF Done
<1>3. \A q \in Runs : Progress(q)'
  OBVIOUS
<1>4. Shown' = Shown
  BY <1>1, <1>2 DEF Shown
<1> QED
  BY <1>3, <1>4 DEF Whole

(* The steps of a run, and what they leave alone of another. *)
LEMMA OthersStay ==
    ASSUME TypeOK, NEW r \in Runs, NEW q \in Runs, q # r,
           \/ EnsureSchema(r) \/ CommitSchema(r) \/ FuturesDone(r)
           \/ FetchOptions(r) \/ FetchFutures(r) \/ Commit(r)
           \/ \E state : GoesTo(r, state) \/ RollBack(r, state)
           \/ UpsertInstrument(r) \/ UpsertSubtype(r)
    PROVE  /\ pc'[q] = pc[q] /\ todo'[q] = todo[q]
           /\ writes'[q] = writes[q] /\ told'[q] = told[q]
BY DEF EnsureSchema, CommitSchema, FuturesDone, FetchOptions, FetchFutures,
       Takes, Commit, GoesTo, RollBack, UpsertInstrument, UpsertSubtype, Write,
       TypeOK

(* The requests: what is told is what is to be done. *)
LEMMA TakesProgress ==
    ASSUME TypeOK, Ready, NEW r \in Runs, NEW S, NEW state,
           Progress(r), S \subseteq DOMAIN listed,
           \/ /\ pc[r] = "fetchOptions" /\ state = "options"
              /\ S \subseteq Options
           \/ /\ pc[r] = "options" /\ todo[r] = <<>> /\ state = "futures"
              /\ S \subseteq Futures,
           Takes(r, S, state)
    PROVE  Progress(r)'
<1>1. IsFiniteSet(S)
  <2>1. S \subseteq Symbols
    BY DEF Symbols
  <2> QED
    BY <2>1, FS_Subset, KindsAssumption
<1>2. PICK order \in Responses(S) : todo' = [todo EXCEPT ![r] = order]
  BY DEF Takes
<1>3. ToDo(r)' = S
  <2>1. todo'[r] = order
    BY <1>2 DEF TypeOK
  <2> QED
    BY <1>1, <2>1, ResponsesName DEF ToDo
<1>4. /\ pc'[r] = state /\ writes' = writes
      /\ told'[r] = Over(told[r], [s \in S |-> listed[s]])
  BY DEF Takes, TypeOK
<1>5. /\ DOMAIN told'[r] = DOMAIN told[r] \cup S
      /\ \A s \in DOMAIN told[r] \ S : told'[r][s] = told[r][s]
  BY <1>4 DEF Over
<1>6. CASE pc[r] = "fetchOptions"
  BY <1>3, <1>4, <1>5, <1>6 DEF Progress
<1>7. CASE pc[r] = "options"
  <2>1. ToDo(r) = {}
    BY <1>7 DEF ToDo
  <2>2. DOMAIN writes[r] = DOMAIN told[r] /\ DOMAIN told[r] \subseteq Options
    BY <1>7, <2>1 DEF Progress
  <2>3. \A s \in DOMAIN writes[r] : s \in DOMAIN told[r] \ S /\ s # Index
    BY <1>7, <2>2, KindsAssumption
  <2> QED
    BY <1>3, <1>4, <1>5, <1>7, <2>2, <2>3 DEF Progress
<1> QED
  BY <1>6, <1>7

(* The statements: what was to be done is written. *)
LEMMA UpsertProgress ==
    ASSUME TypeOK, Ready, NEW r \in Runs, Progress(r),
           UpsertInstrument(r) \/ UpsertSubtype(r)
    PROVE  Progress(r)' /\ pc[r] # "done" /\ pc'[r] # "done" /\ table' = table
<1> PICK s, row :
      /\ s \in Target(r)
      /\ Write(r, s, row)
      /\ \/ UpsertInstrument(r) /\ row = InstrumentRow(r, s)
         \/ UpsertSubtype(r) /\ row = SubtypeRow(r, s)
  BY DEF UpsertInstrument, UpsertSubtype
<1>1. /\ table' = table
      /\ DOMAIN writes'[r] = DOMAIN writes[r] \cup {s}
      /\ writes'[r][s] = row
      /\ \A x \in DOMAIN writes[r] \ {s} : writes'[r][x] = writes[r][x]
  BY DEF Write, Over, TypeOK
<1>2. told' = told
  BY DEF UpsertInstrument, UpsertSubtype
<1>3. row.tick = Word(r, s)
  <2>1. CASE UpsertInstrument(r) /\ row = InstrumentRow(r, s)
    <3>1. CASE s \in DOMAIN Over(table, writes[r])
      <4>1. IsTable(Over(table, writes[r]))
        BY OverTable DEF TypeOK
      <4>2. Over(table, writes[r])[s] \in RowType
        BY <3>1, <4>1 DEF IsTable
      <4> QED
        BY <2>1, <3>1, <4>2 DEF InstrumentRow, RowType
    <3>2. CASE s \notin DOMAIN Over(table, writes[r])
      BY <2>1, <3>2 DEF InstrumentRow, NewRow
    <3> QED
      BY <3>1, <3>2
  <2>2. CASE UpsertSubtype(r) /\ row = SubtypeRow(r, s)
    <3>1. s \in DOMAIN writes[r]
      BY <2>2 DEF UpsertSubtype, Ready
    <3>2. writes[r][s] \in RowType /\ writes[r][s].tick = Word(r, s)
      BY <3>1 DEF TypeOK, IsTable, Progress, Word
    <3> QED
      BY <2>2, <3>2 DEF SubtypeRow, RowType
  <2> QED
    BY <2>1, <2>2
<1>4. /\ \A x \in DOMAIN writes'[r] \ {Index} : writes'[r][x].tick = told'[r][x]
      /\ Index \in DOMAIN writes'[r] => writes'[r][Index].tick = 0
  BY <1>1, <1>2, <1>3 DEF Progress, Word
<1>5. CASE pc[r] = "currency"
  <2>1. s = Index
    BY <1>5 DEF Target
  <2>2. pc'[r] \in {"currency", "commit"}
    BY <1>5 DEF UpsertInstrument, UpsertSubtype, TypeOK
  <2> QED
    BY <1>1, <1>2, <1>4, <1>5, <2>1, <2>2 DEF Progress
<1>6. CASE pc[r] # "currency"
  <2>1. /\ pc[r] \in {"options", "futures"} /\ pc'[r] = pc[r]
        /\ todo[r] # <<>> /\ s = Head(todo[r])
    BY <1>6 DEF UpsertInstrument, UpsertSubtype, TypeOK, Target
  <2>2. s \in ToDo(r)
    <3>1. todo[r] \in Seq(Options \cup Futures)
      BY DEF TypeOK
    <3>2. 1 \in DOMAIN todo[r] /\ s = todo[r][1]
      BY <2>1, <3>1
    <3> QED
      BY <3>2 DEF ToDo
  <2>3. ToDo(r)' \subseteq ToDo(r) /\ ToDo(r) \subseteq ToDo(r)' \cup {s}
    <3>1. CASE todo'[r] = todo[r]
      BY <3>1 DEF ToDo
    <3>2. CASE todo'[r] = Tail(todo[r])
      <4>1. todo[r] \in Seq(Options \cup Futures)
        BY DEF TypeOK
      <4>2. ASSUME NEW i \in DOMAIN Tail(todo[r])
            PROVE  i + 1 \in DOMAIN todo[r] /\ Tail(todo[r])[i] = todo[r][i + 1]
        BY <2>1, <4>1
      <4>3. ASSUME NEW i \in DOMAIN todo[r], i # 1
            PROVE  /\ i - 1 \in DOMAIN Tail(todo[r])
                   /\ Tail(todo[r])[i - 1] = todo[r][i]
        BY <2>1, <4>1, <4>3
      <4>4. s = todo[r][1]
        BY <2>1, <4>1
      <4>5. ASSUME NEW x \in ToDo(r) PROVE x \in ToDo(r)' \cup {s}
        BY <3>2, <4>3, <4>4 DEF ToDo
      <4>6. ASSUME NEW x \in ToDo(r)' PROVE x \in ToDo(r)
        BY <3>2, <4>2 DEF ToDo
      <4> QED
        BY <4>5, <4>6
    <3>3. todo'[r] = todo[r] \/ todo'[r] = Tail(todo[r])
      BY <1>6 DEF UpsertInstrument, UpsertSubtype, TypeOK
    <3> QED
      BY <3>1, <3>2, <3>3
  <2>4. DOMAIN writes'[r] \cup ToDo(r)' = DOMAIN told'[r]
    BY <1>1, <1>2, <2>1, <2>2, <2>3 DEF Progress
  <2> QED
    BY <1>1, <1>2, <1>4, <2>1, <2>4 DEF Progress
<1> QED
  BY <1>5, <1>6

(* The commit: all that was told shows, in the words of this run. *)
LEMMA CommitWhole ==
    ASSUME TypeOK, Whole, NEW r \in Runs, Commit(r)
    PROVE  Whole'
<1>1. /\ table' = Over(table, writes[r]) /\ active' = told[r] /\ told' = told
      /\ pc[r] = "commit" /\ pc'[r] = "done" /\ DOMAIN writes'[r] = {}
      /\ DOMAIN pc' = Runs /\ \A q \in Runs \ {r} : pc'[q] = pc[q]
  BY DEF Commit, TypeOK, Nothing
<1>2. /\ DOMAIN writes[r] = DOMAIN told[r] \cup {Index}
      /\ DOMAIN told[r] \subseteq Options \cup Futures
      /\ \A s \in DOMAIN told[r] : s # Index /\ writes[r][s].tick = told[r][s]
  BY <1>1, KindsAssumption DEF Whole, Progress
<1>3. ASSUME NEW q \in Runs PROVE Progress(q)'
  <2>1. CASE q = r
    BY <1>1, <1>2, <2>1 DEF Progress
  <2>2. CASE q # r
    BY <2>2, OthersStay, ProgressFrame DEF Whole
  <2> QED
    BY <2>1, <2>2
<1>4. DOMAIN table' = DOMAIN table \cup DOMAIN told[r] \cup {Index}
  BY <1>1, <1>2 DEF Over
<1>5. Done' = Done \cup {r}
  BY <1>1 DEF Done
<1>6. Shown' = Shown \cup DOMAIN told[r] \cup {Index}
  <2>1. \A x : x \in Shown' <=>
                  \E q \in Done' : x \in DOMAIN told[q] \cup {Index}
    BY <1>1 DEF Shown
  <2>2. \A x : x \in Shown <=> \E q \in Done : x \in DOMAIN told[q] \cup {Index}
    BY DEF Shown
  <2>3. \A x : x \in Shown' <=> x \in Shown \cup DOMAIN told[r] \cup {Index}
    BY <1>5, <2>1, <2>2
  <2> QED
    BY <2>3
<1>7. DOMAIN table' = Shown'
  BY <1>4, <1>6 DEF Whole
<1>8. \A s \in DOMAIN active' : table'[s].tick = active'[s]
  BY <1>1, <1>2 DEF Over
<1>9. DOMAIN active' \subseteq (Options \cup Futures) \cap DOMAIN table'
  BY <1>1, <1>2, <1>4
<1> QED
  BY <1>3, <1>7, <1>8, <1>9 DEF Whole

(* Every step keeps the whole of it. *)
LEMMA WholeStep ==
    ASSUME TypeOK, Ready, Whole, [Next]_vars
    PROVE  Whole'
<1>0. /\ TypeOK' /\ DOMAIN pc' = Runs /\ \A r \in Runs : Progress(r)
  BY FitsStep DEF TypeOK, Whole
<1>1. ASSUME NEW r \in Runs, Progress(r)', pc[r] # "done", pc'[r] # "done",
             \/ EnsureSchema(r) \/ CommitSchema(r) \/ FuturesDone(r)
             \/ FetchOptions(r) \/ FetchFutures(r)
             \/ \E state : GoesTo(r, state) \/ RollBack(r, state)
             \/ UpsertInstrument(r) \/ UpsertSubtype(r),
             table' = table
      PROVE  Whole'
  <2>1. active' = active
    BY <1>1 DEF EnsureSchema, CommitSchema, FuturesDone, FetchOptions,
         FetchFutures, Takes, GoesTo, RollBack, UpsertInstrument, UpsertSubtype
  <2>2. ASSUME NEW q \in Runs \ {r}
        PROVE  Progress(q)' /\ pc'[q] = pc[q] /\ told'[q] = told[q]
    <3>1. /\ pc'[q] = pc[q] /\ todo'[q] = todo[q]
          /\ writes'[q] = writes[q] /\ told'[q] = told[q]
      BY <1>1, <2>2, OthersStay
    <3> QED
      BY <1>0, <3>1, ProgressFrame
  <2> QED
    BY <1>0, <1>1, <2>1, <2>2, WholeFrame
<1>2. ASSUME NEW r \in Runs, NEW state, GoesTo(r, state),
             \/ /\ pc[r] \in {"idle", "creating", "raced"}
                /\ state \in {"creating", "raced", "fetchOptions"}
             \/ /\ pc[r] = "futures" /\ todo[r] = <<>> /\ state = "currency"
      PROVE  Whole'
  <2>1. /\ pc'[r] = state /\ UNCHANGED <<table, todo, writes, told>>
    BY <1>2 DEF GoesTo, TypeOK
  <2>2. Progress(r)'
    <3>1. CASE pc[r] # "futures"
      BY <1>0, <1>2, <2>1, <3>1 DEF Progress
    <3>2. CASE pc[r] = "futures"
      <4>1. ToDo(r) = {}
        BY <1>2, <3>2 DEF ToDo
      <4>2. Index \notin DOMAIN told[r]
        BY <1>0, KindsAssumption DEF Progress
      <4> QED
        BY <1>0, <1>2, <2>1, <3>2, <4>1, <4>2 DEF Progress
    <3> QED
      BY <3>1, <3>2
  <2> QED
    BY <1>1, <1>2, <2>1, <2>2
<1>3. ASSUME NEW r \in Runs, NEW state \in {"failed", "deadlocked"},
             pc[r] # "done", RollBack(r, state)
      PROVE  Whole'
  <2>1. /\ pc'[r] = state /\ table' = table
        /\ DOMAIN writes'[r] = {} /\ DOMAIN told'[r] = {}
    BY <1>3 DEF RollBack, TypeOK, Nothing
  <2>2. Progress(r)'
    BY <2>1 DEF Progress
  <2> QED
    BY <1>1, <1>3, <2>1, <2>2
<1>4. ASSUME NEW r \in Runs, FetchOptions(r) \/ FetchFutures(r)
      PROVE  Whole'
  <2>1. table' = table /\ pc[r] # "done" /\ pc'[r] # "done"
    BY <1>4 DEF FetchOptions, FetchFutures, Takes, TypeOK
  <2>2. CASE FetchOptions(r)
    <3>1. Progress(r)'
      BY <1>0, <2>2, TakesProgress DEF FetchOptions
    <3> QED
      BY <1>1, <2>1, <2>2, <3>1
  <2>3. CASE FetchFutures(r)
    <3>1. Progress(r)'
      BY <1>0, <2>3, TakesProgress DEF FetchFutures
    <3> QED
      BY <1>1, <2>1, <2>3, <3>1
  <2> QED
    BY <1>4, <2>2, <2>3
<1>5. ASSUME NEW r \in Runs, UpsertInstrument(r) \/ UpsertSubtype(r)
      PROVE  Whole'
  BY <1>0, <1>1, <1>5, UpsertProgress
<1>6. ASSUME NEW r \in Runs,
             EnsureSchema(r) \/ CommitSchema(r) \/ FuturesDone(r)
      PROVE  Whole'
  <2>1. \/ /\ pc[r] \in {"idle", "creating"}
           /\ \E state \in {"creating", "raced", "fetchOptions"} :
                  GoesTo(r, state)
        \/ pc[r] = "futures" /\ todo[r] = <<>> /\ GoesTo(r, "currency")
    BY <1>6 DEF EnsureSchema, CommitSchema, FuturesDone
  <2> QED
    BY <1>2, <2>1
<1>7. ASSUME NEW r \in Runs, EndRace(r) \/ AbortDeadlocked(r) \/ Fail(r)
      PROVE  Whole'
  <2>1. CASE EndRace(r)
    BY <1>2, <1>3, <2>1 DEF EndRace
  <2>2. CASE AbortDeadlocked(r)
    <3>1. Blockers(r) # {} /\ RollBack(r, "deadlocked")
      BY <2>2 DEF AbortDeadlocked
    <3>2. pc[r] # "done"
      BY <3>1 DEF Blockers, Target
    <3> QED
      BY <1>3, <3>1, <3>2
  <2>3. CASE Fail(r)
    BY <1>3, <2>3 DEF Fail, Ended
  <2> QED
    BY <1>7, <2>1, <2>2, <2>3
<1>8. CASE \/ \E s \in Options \cup Futures \cup Perpetuals : ListingChanges(s)
           \/ UNCHANGED vars
  <2>1. UNCHANGED <<table, pc, todo, writes, told, active>>
    BY <1>8 DEF ListingChanges, vars
  <2>2. \A q \in Runs : Progress(q)'
    BY <1>0, <2>1, ProgressFrame
  <2>3. Shown' = Shown
    BY <2>1 DEF Shown, Done
  <2> QED
    BY <2>1, <2>2, <2>3 DEF Whole
<1> QED
  BY <1>4, <1>5, <1>6, <1>7, <1>8, CommitWhole, IngestStepCases

(* And it holds of every reachable state.                                  *)
LEMMA AlwaysWhole == Spec => []Whole
<1>1. Init => Whole
  <2> SUFFICES ASSUME Init PROVE Whole
    OBVIOUS
  <2>1. \A r \in Runs : /\ pc[r] = "idle"
                        /\ DOMAIN writes[r] = {} /\ DOMAIN told[r] = {}
    BY DEF Init, Nothing
  <2>2. DOMAIN table = {} /\ DOMAIN active = {} /\ Done = {}
    BY <2>1 DEF Init, Nothing, Done
  <2> QED
    BY <2>1, <2>2 DEF Whole, Progress, Shown
<1>2. TypeOK /\ Ready /\ Whole /\ [Next]_vars => Whole'
  BY WholeStep
<1> QED
  BY <1>1, <1>2, AlwaysReady, PTL DEF Spec

(* The tables show what the runs that committed were told, all of it and   *)
(* nothing else, in the words of the last.                                 *)
THEOREM OnlyWholeRuns == Spec => []WholeRunsOnly
<1>1. TypeOK /\ Whole => WholeRunsOnly
  <2> SUFFICES ASSUME TypeOK, Whole PROVE WholeRunsOnly
    OBVIOUS
  <2>1. GatewayLoads = DOMAIN table
    BY DEF GatewayLoads, TypeOK, IsTable, RowType, Kinds
  <2> QED
    BY <2>1 DEF Whole, WholeRunsOnly, Shown, Done
<1> QED
  BY <1>1, AlwaysReady, AlwaysWhole, PTL
-----------------------------------------------------------------------------
(* The abstract table. *)

(* A commit is the upsert of all its run was told: every instrument of the *)
(* answer was written, with both its rows, under the id it has already.    *)
LEMMA CommitUpserts ==
    ASSUME TypeOK, Ready, IdsInv, Matching, Whole, NEW r \in Runs, Commit(r)
    PROVE  Master!Next
<1> DEFINE answer == told[r]
           named == DOMAIN answer \cup {Index}
<1>1. table' = Over(table, writes[r]) /\ pc[r] = "commit"
  BY DEF Commit
<1>2. DOMAIN writes[r] = named /\ DOMAIN answer \subseteq Options \cup Futures
  BY <1>1 DEF Whole, Progress
<1>3. answer \in Master!Answers
  BY <1>2 DEF Master!Answers, Master!Instruments, TypeOK, IsListing
<1>4. /\ DOMAIN table' = DOMAIN table \cup named
      /\ \A s \in named : table'[s] = writes[r][s]
      /\ \A s \in DOMAIN table \ named : table'[s] = table[s]
  BY <1>1, <1>2 DEF Over
<1>5. ASSUME NEW s \in named
      PROVE  Master!Describes(writes[r][s], Master!KindOf(s),
                              Master!Terms(answer, s))
  <2>1. writes[r][s].type = Master!KindOf(s)
    <3>1. s \in Options \cup Futures \cup {Index}
      BY <1>2
    <3>2. TypeOf(s) = Master!KindOf(s)
      BY <3>1, KindsAssumption DEF TypeOf, Master!KindOf
    <3> QED
      BY <1>2, <3>2 DEF IdsInv, TypesFit
  <2>2. writes[r][s].tick = Master!Terms(answer, s)
    BY <1>2 DEF Whole, Progress, Master!Terms
  <2>3. Target(r) = {}
    BY <1>1 DEF Target
  <2>4. Matches(writes[r][s])
    BY <1>2, <2>3 DEF Matching, RowFits
  <2> QED
    BY <2>1, <2>2, <2>4 DEF Matches, Master!Describes
<1>6. ASSUME NEW s \in DOMAIN table
      PROVE  table'[s].id = table[s].id
  <2>1. CASE s \in named
    <3>1. /\ RowOf(s, table[s].id) \in AllRows
          /\ RowOf(s, writes[r][s].id) \in AllRows
      BY <1>2, <2>1, RowsThere
    <3>2. writes[r][s].id = table[s].id
      BY <3>1 DEF IdsInv, OneIdPerInstrument, RowOf
    <3> QED
      BY <1>4, <2>1, <3>2
  <2>2. CASE s \notin named
    BY <1>4, <2>2
  <2> QED
    BY <2>1, <2>2
<1>7. ASSUME NEW s \in DOMAIN table', NEW t \in DOMAIN table',
             table'[s].id = table'[t].id
      PROVE  s = t
  <2>1. IdsInv'
    BY IdsStep DEF Next, Step
  <2>2. /\ RowOf(s, table'[s].id) \in AllRows'
        /\ RowOf(t, table'[t].id) \in AllRows'
    BY RowsThereNext
  <2> QED
    BY <1>7, <2>1, <2>2 DEF IdsInv, OneIdPerInstrument, RowOf
<1>8. Master!Upsert(answer)
  BY <1>4, <1>5, <1>6, <1>7 DEF Master!Upsert
<1> QED
  BY <1>3, <1>8 DEF Master!Next

(* However runs overlap, wait, fail and deadlock, the committed table is   *)
(* the one that whole answers taken one after the other would have made.   *)
THEOREM IngestIsSecurityMaster == Spec => ActsAsSecurityMaster
<1>1. Init => Master!Empty
  BY DEF Init, Nothing, Master!Empty
<1>2. TypeOK /\ Ready /\ IdsInv /\ Matching /\ Whole /\ [Next]_vars
          => [Master!Next]_table
  <2> SUFFICES ASSUME TypeOK, Ready, IdsInv, Matching, Whole, [Next]_vars
               PROVE  Master!Next \/ table' = table
    OBVIOUS
  <2>1. \A r, s, row : Write(r, s, row) => table' = table
    BY DEF Write
  <2> QED
    BY <2>1, CommitUpserts, IngestStepCases
    DEF EnsureSchema, CommitSchema, EndRace, FuturesDone, GoesTo, FetchOptions,
        FetchFutures, Takes, UpsertInstrument, UpsertSubtype, AbortDeadlocked,
        Fail, RollBack, ListingChanges, vars
<1> QED
  BY <1>1, <1>2, AlwaysReady, AlwaysIds, AlwaysMatching, AlwaysWhole, PTL
  DEF Spec, ActsAsSecurityMaster, Master!Spec

=============================================================================
