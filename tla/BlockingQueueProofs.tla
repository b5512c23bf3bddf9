------------------------ MODULE BlockingQueueProofs -------------------------
(* Theorems about BlockingQueue, for every set of threads and capacity.    *)
EXTENDS BlockingQueue, FiniteSetTheorems, TLAPS

(* A step of the specification is a step of one thread or a stutter.       *)
LEMMA StepCases ==
    ASSUME [Next]_vars
    PROVE  \/ \E p \in Producers : PushRefused(p)
           \/ \E p \in Producers : PushFits(p)
           \/ \E p \in Producers : PushDisplaces(p)
           \/ \E p \in Producers : NotifyOne(p)
           \/ \E c \in Consumers : PopTakes(c)
           \/ \E c \in Consumers : PopWaits(c)
           \/ \E c \in Consumers : PopEnds(c)
           \/ \E c \in Consumers : SpuriousWake(c)
           \/ \E t \in Closers : Close(t)
           \/ \E t \in Closers : NotifyAll(t)
           \/ UNCHANGED vars
BY DEF Next, Push, Pop

(* Every variable keeps its type.                                          *)
THEOREM TypeCorrect == Spec => []TypeOK
<1>1. Init => TypeOK
  <2> SUFFICES ASSUME Init PROVE TypeOK
    OBVIOUS
  <2>1. displaced \in [Producers -> BOOLEAN]
    BY Zenon DEF Init
  <2>2. items \in Seq(Nat)
    BY DEF Init
  <2> QED
    BY <2>1, <2>2
    DEF Init, TypeOK, ProducerStates, ConsumerStates, CloserStates
<1>2. TypeOK /\ [Next]_vars => TypeOK'
  <2> SUFFICES ASSUME TypeOK, [Next]_vars PROVE TypeOK'
    OBVIOUS
  <2> USE DEF TypeOK, ProducerStates, ConsumerStates, CloserStates
  <2>1. CASE \E p \in Producers : PushRefused(p)
    BY <2>1 DEF PushRefused
  <2>2. CASE \E p \in Producers : PushFits(p)
    BY <2>2 DEF PushFits
  <2>3. CASE \E p \in Producers : PushDisplaces(p)
    BY <2>3, CapacityAssumption DEF PushDisplaces, Displacing, Full
  <2>4. CASE \E p \in Producers : NotifyOne(p)
    BY <2>4, SMTT(30) DEF NotifyOne, Waiting
  <2>5. CASE \E c \in Consumers : PopTakes(c)
    BY <2>5 DEF PopTakes
  <2>6. CASE \E c \in Consumers : PopWaits(c)
    BY <2>6 DEF PopWaits
  <2>7. CASE \E c \in Consumers : PopEnds(c)
    BY <2>7 DEF PopEnds
  <2>8. CASE \E c \in Consumers : SpuriousWake(c)
    BY <2>8 DEF SpuriousWake
  <2>9. CASE \E t \in Closers : Close(t)
    BY <2>9 DEF Close
  <2>10. CASE \E t \in Closers : NotifyAll(t)
    BY <2>10 DEF NotifyAll
  <2>11. CASE UNCHANGED vars
    BY <2>11 DEF vars
  <2> QED
    BY <2>1, <2>2, <2>3, <2>4, <2>5, <2>6, <2>7, <2>8, <2>9, <2>10, <2>11,
       StepCases
<1> QED
  BY <1>1, <1>2, PTL DEF Spec
-----------------------------------------------------------------------------
(* The contents of the deque. *)

(* What the three steps that change the deque do to its contents.          *)
LEMMA DequeSteps ==
    ASSUME TypeOK
    PROVE  /\ \A p \in Producers : PushFits(p) =>
                 /\ Len(items') = Len(items) + 1
                 /\ \A i \in 1..Len(items) : items'[i] = items[i]
                 /\ items'[Len(items) + 1] = accepted + 1
           /\ \A p \in Producers : PushDisplaces(p) =>
                 /\ Len(items) > 0
                 /\ Len(items') = Len(items)
                 /\ \A i \in 1..(Len(items) - 1) : items'[i] = items[i + 1]
                 /\ items'[Len(items)] = accepted + 1
           /\ \A c \in Consumers : PopTakes(c) =>
                 /\ Len(items) > 0
                 /\ Len(items') = Len(items) - 1
                 /\ \A i \in 1..(Len(items) - 1) : items'[i] = items[i + 1]
                 /\ last' = items[1]
<1>1. ASSUME NEW p \in Producers, PushFits(p)
      PROVE  /\ Len(items') = Len(items) + 1
             /\ \A i \in 1..Len(items) : items'[i] = items[i]
             /\ items'[Len(items) + 1] = accepted + 1
  BY <1>1 DEF PushFits, TypeOK
<1>2. ASSUME NEW p \in Producers, PushDisplaces(p)
      PROVE  /\ Len(items) > 0
             /\ Len(items') = Len(items)
             /\ \A i \in 1..(Len(items) - 1) : items'[i] = items[i + 1]
             /\ items'[Len(items)] = accepted + 1
  <2>1. Len(items) > 0 /\ items # <<>>
    BY <1>2, CapacityAssumption DEF PushDisplaces, Displacing, Full, TypeOK
  <2>2. /\ Tail(items) \in Seq(Nat)
        /\ Len(Tail(items)) = Len(items) - 1
        /\ \A i \in 1..(Len(items) - 1) : Tail(items)[i] = items[i + 1]
    BY <2>1 DEF TypeOK
  <2> QED
    BY <1>2, <2>1, <2>2 DEF PushDisplaces, Displacing, TypeOK
<1>3. ASSUME NEW c \in Consumers, PopTakes(c)
      PROVE  /\ Len(items) > 0
             /\ Len(items') = Len(items) - 1
             /\ \A i \in 1..(Len(items) - 1) : items'[i] = items[i + 1]
             /\ last' = items[1]
  BY <1>3 DEF PopTakes, TypeOK
<1> QED
  BY <1>1, <1>2, <1>3

(* The deque always holds the newest items accepted, in order and without  *)
(* gaps, and nothing older than what was handed out.                       *)
THEOREM DequeHoldsNewest == Spec => []HoldsNewest
<1>1. Init => HoldsNewest
  BY CapacityAssumption DEF Init, HoldsNewest
<1>2. TypeOK /\ HoldsNewest /\ [Next]_vars => HoldsNewest'
  <2> SUFFICES ASSUME TypeOK, HoldsNewest, [Next]_vars PROVE HoldsNewest'
    OBVIOUS
  <2> USE DEF TypeOK, HoldsNewest
  <2>1. CASE \E p \in Producers : PushFits(p)
    <3> PICK p \in Producers : PushFits(p)
      BY <2>1
    <3>1. /\ Len(items') = Len(items) + 1
          /\ \A i \in 1..Len(items) : items'[i] = items[i]
          /\ items'[Len(items) + 1] = accepted + 1
      BY DequeSteps
    <3>2. accepted' = accepted + 1 /\ last' = last /\ Len(items) < Capacity
      BY CapacityAssumption DEF PushFits, Full
    <3>3. ASSUME NEW i \in 1..Len(items')
          PROVE  items'[i] = accepted' - Len(items') + i
      <4>1. CASE i = Len(items) + 1
        BY <4>1, <3>1, <3>2
      <4>2. CASE i \in 1..Len(items)
        BY <4>2, <3>1, <3>2
      <4> QED
        BY <4>1, <4>2, <3>1
    <3> QED
      BY <3>1, <3>2, <3>3, CapacityAssumption
  <2>2. CASE \E p \in Producers : PushDisplaces(p)
    <3> PICK p \in Producers : PushDisplaces(p)
      BY <2>2
    <3>1. /\ Len(items) > 0
          /\ Len(items') = Len(items)
          /\ \A i \in 1..(Len(items) - 1) : items'[i] = items[i + 1]
          /\ items'[Len(items)] = accepted + 1
      BY DequeSteps
    <3>2. accepted' = accepted + 1 /\ last' = last
      BY DEF PushDisplaces, Displacing
    <3>3. ASSUME NEW i \in 1..Len(items')
          PROVE  items'[i] = accepted' - Len(items') + i
      <4>1. CASE i = Len(items)
        BY <4>1, <3>1, <3>2
      <4>2. CASE i \in 1..(Len(items) - 1)
        <5>1. items[i + 1] = accepted - Len(items) + (i + 1)
          BY <4>2
        <5> QED
          BY <4>2, <5>1, <3>1, <3>2
      <4> QED
        BY <4>1, <4>2, <3>1
    <3> QED
      BY <3>1, <3>2, <3>3
  <2>3. CASE \E c \in Consumers : PopTakes(c)
    <3> PICK c \in Consumers : PopTakes(c)
      BY <2>3
    <3>1. /\ Len(items) > 0
          /\ Len(items') = Len(items) - 1
          /\ \A i \in 1..(Len(items) - 1) : items'[i] = items[i + 1]
          /\ last' = items[1]
      BY DequeSteps
    <3>2. accepted' = accepted
      BY DEF PopTakes
    <3>3. last' = accepted - Len(items) + 1
      BY <3>1
    <3>4. ASSUME NEW i \in 1..Len(items')
          PROVE  items'[i] = accepted' - Len(items') + i
      <4>1. items[i + 1] = accepted - Len(items) + (i + 1)
        BY <3>1
      <4> QED
        BY <4>1, <3>1, <3>2
    <3> QED
      BY <3>1, <3>2, <3>3, <3>4, CapacityAssumption
  <2>4. CASE UNCHANGED <<items, accepted, last>>
    BY <2>4
  <2> QED
    BY <2>1, <2>2, <2>3, <2>4, StepCases
    DEF PushRefused, NotifyOne, PopWaits, PopEnds, SpuriousWake, Close,
        NotifyAll, vars
<1> QED
  BY <1>1, <1>2, TypeCorrect, PTL DEF Spec

(* No item is lost without being counted, and none is handed out twice.    *)
THEOREM EverythingAccounted == Spec => []NothingUnaccounted
<1>1. Init => NothingUnaccounted
  BY DEF Init, NothingUnaccounted
<1>2. TypeOK /\ NothingUnaccounted /\ [Next]_vars => NothingUnaccounted'
  <2> SUFFICES ASSUME TypeOK, NothingUnaccounted, [Next]_vars
               PROVE  NothingUnaccounted'
    OBVIOUS
  <2> USE DEF TypeOK, NothingUnaccounted
  <2>1. CASE \E p \in Producers : PushFits(p)
    <3>1. Len(items') = Len(items) + 1
      BY <2>1, DequeSteps
    <3> QED
      BY <2>1, <3>1 DEF PushFits
  <2>2. CASE \E p \in Producers : PushDisplaces(p)
    <3>1. Len(items') = Len(items)
      BY <2>2, DequeSteps
    <3>2. /\ accepted' = accepted + 1
          /\ dropped' = dropped + 1
          /\ popped' = popped
      BY <2>2 DEF PushDisplaces, Displacing
    <3>3. Len(items) \in Nat
      OBVIOUS
    <3> QED
      BY <3>1, <3>2, <3>3
  <2>3. CASE \E c \in Consumers : PopTakes(c)
    <3>1. Len(items') = Len(items) - 1
      BY <2>3, DequeSteps
    <3>2. /\ popped' = popped + 1
          /\ UNCHANGED <<accepted, dropped>>
      BY <2>3 DEF PopTakes
    <3>3. Len(items) \in Nat
      OBVIOUS
    <3> QED
      BY <3>1, <3>2, <3>3
  <2>4. CASE UNCHANGED <<items, accepted, popped, dropped>>
    BY <2>4
  <2> QED
    BY <2>1, <2>2, <2>3, <2>4, StepCases
    DEF PushRefused, NotifyOne, PopWaits, PopEnds, SpuriousWake, Close,
        NotifyAll, vars
<1> QED
  BY <1>1, <1>2, TypeCorrect, PTL DEF Spec
-----------------------------------------------------------------------------
(* The return values of push. *)

(* The producers on their way to return false are finitely many, and one   *)
(* more or one fewer changes the count by one.                             *)
LEMMA LosingIsFinite ==
    IsFiniteSet(Losing) /\ Cardinality(Losing) \in Nat
<1>1. Losing \in SUBSET Producers
  BY DEF Losing
<1> QED
  BY <1>1, ThreadsAssumption, FS_Subset, FS_CardinalityType

(* A push that displaces has a false to return.                            *)
LEMMA LosingGrows ==
    ASSUME TypeOK, NEW p \in Producers, ~displaced[p],
           displaced' = [displaced EXCEPT ![p] = TRUE]
    PROVE  Cardinality(Losing') = Cardinality(Losing) + 1
<1>1. displaced'[p] /\ \A q \in Producers \ {p} : displaced'[q] = displaced[q]
  BY DEF TypeOK
<1>2. Losing' = Losing \cup {p} /\ p \notin Losing
  BY <1>1, Zenon DEF Losing
<1> QED
  BY <1>2, FS_AddElement, LosingIsFinite

(* A false returned leaves the others theirs.                              *)
LEMMA LosingShrinks ==
    ASSUME TypeOK, NEW p \in Producers, displaced[p],
           displaced' = [displaced EXCEPT ![p] = FALSE]
    PROVE  Cardinality(Losing') = Cardinality(Losing) - 1
<1>1. ~displaced'[p] /\ \A q \in Producers \ {p} : displaced'[q] = displaced[q]
  BY DEF TypeOK
<1>2. Losing' = Losing \ {p} /\ p \in Losing
  BY <1>1, Zenon DEF Losing
<1> QED
  BY <1>2, FS_RemoveElement, LosingIsFinite

(* A push that displaced nothing returns no false.                         *)
LEMMA LosingStays ==
    ASSUME TypeOK, NEW p \in Producers, ~displaced[p],
           displaced' = [displaced EXCEPT ![p] = FALSE]
    PROVE  Losing' = Losing
<1>1. ~displaced'[p] /\ \A q \in Producers \ {p} : displaced'[q] = displaced[q]
  BY DEF TypeOK
<1> QED
  BY <1>1, Zenon DEF Losing

(* Of every item displaced or refused one caller of push has been told, or *)
(* is about to be.                                                         *)
THEOREM LossIsTold == Spec => []ReturnsTellLoss
<1>1. Init => ReturnsTellLoss
  <2> SUFFICES ASSUME Init PROVE ReturnsTellLoss
    OBVIOUS
  <2>1. \A p \in Producers : ~displaced[p]
    BY Zenon DEF Init
  <2>2. Losing = {}
    BY <2>1, Zenon DEF Losing
  <2> QED
    BY <2>1, <2>2, FS_EmptySet DEF Init, ReturnsTellLoss
<1>2. TypeOK /\ ReturnsTellLoss /\ [Next]_vars => ReturnsTellLoss'
  <2> SUFFICES ASSUME TypeOK, ReturnsTellLoss, [Next]_vars
               PROVE  ReturnsTellLoss'
    OBVIOUS
  <2> USE LosingIsFinite
  <2>1. CASE \E p \in Producers : PushRefused(p)
    <3>1. Losing' = Losing
      BY <2>1 DEF PushRefused, Losing
    <3> QED
      BY <2>1, <3>1 DEF PushRefused, ReturnsTellLoss, TypeOK
  <2>2. CASE \E p \in Producers : PushFits(p)
    <3>1. Losing' = Losing
      BY <2>2 DEF PushFits, Losing
    <3> QED
      BY <2>2, <3>1 DEF PushFits, CallsPush, ReturnsTellLoss, TypeOK
  <2>3. CASE \E p \in Producers : PushDisplaces(p)
    <3> PICK p \in Producers : PushDisplaces(p)
      BY <2>3
    <3> USE DEF PushDisplaces, Displacing
    <3>1. ~displaced[p]
      BY DEF CallsPush, ReturnsTellLoss
    <3>2. Cardinality(Losing') = Cardinality(Losing) + 1
      BY <3>1, LosingGrows
    <3>3. dropped' + refused' = falses' + Cardinality(Losing')
      <4>1. dropped' = dropped + 1 /\ refused' = refused /\ falses' = falses
        OBVIOUS
      <4> HIDE DEF PushDisplaces, Displacing
      <4> QED
        BY <3>2, <4>1 DEF ReturnsTellLoss, TypeOK
    <3>4. \A q \in Producers : displaced'[q] => producer'[q] = "notify"
      BY DEF ReturnsTellLoss, TypeOK
    <3> QED
      BY <3>3, <3>4 DEF ReturnsTellLoss
  <2>4. CASE \E p \in Producers : NotifyOne(p)
    <3> PICK p \in Producers : NotifyOne(p)
      BY <2>4
    <3>1. dropped' + refused' = falses' + Cardinality(Losing')
      <4>1. CASE displaced[p]
        <5>1. Cardinality(Losing') = Cardinality(Losing) - 1
          BY <4>1, LosingShrinks DEF NotifyOne
        <5> QED
          BY <4>1, <5>1 DEF NotifyOne, ReturnsTellLoss, TypeOK
      <4>2. CASE ~displaced[p]
        <5>1. Losing' = Losing
          BY <4>2, LosingStays DEF NotifyOne
        <5> QED
          BY <4>2, <5>1 DEF NotifyOne, ReturnsTellLoss, TypeOK
      <4> QED
        BY <4>1, <4>2
    <3>2. \A q \in Producers : displaced'[q] => producer'[q] = "notify"
      BY DEF NotifyOne, ReturnsTellLoss, TypeOK
    <3> QED
      BY <3>1, <3>2 DEF ReturnsTellLoss
  <2>5. CASE UNCHANGED <<producer, displaced, dropped, refused, falses>>
    BY <2>5 DEF ReturnsTellLoss, Losing
  <2> QED
    BY <2>1, <2>2, <2>3, <2>4, <2>5, StepCases
    DEF PopTakes, PopWaits, PopEnds, SpuriousWake, Close, NotifyAll, vars
<1> QED
  BY <1>1, <1>2, TypeCorrect, PTL DEF Spec
-----------------------------------------------------------------------------
(* Sleeping and waking. *)

(* The threads counted by NoLostWakeup are finitely many, so that adding or*)
(* removing one changes the count by one.                                  *)
LEMMA CountsAreNaturals ==
    /\ IsFiniteSet(Notifying) /\ Cardinality(Notifying) \in Nat
    /\ IsFiniteSet(Woken) /\ Cardinality(Woken) \in Nat
    /\ Cardinality(Notifying') \in Nat /\ Cardinality(Woken') \in Nat
<1>1. /\ Notifying \in SUBSET Producers /\ Notifying' \in SUBSET Producers
      /\ Woken \in SUBSET Consumers /\ Woken' \in SUBSET Consumers
  BY DEF Notifying, Woken
<1> QED
  BY <1>1, ThreadsAssumption, FS_Subset, FS_CardinalityType

(* How each step moves the two counts.                                     *)
LEMMA NotifyingGrows ==
    ASSUME TypeOK, NEW p \in Producers, producer[p] = "idle",
           producer' = [producer EXCEPT ![p] = "notify"]
    PROVE  Cardinality(Notifying') = Cardinality(Notifying) + 1
<1>1. Notifying' = Notifying \cup {p} /\ p \notin Notifying
  BY DEF Notifying, TypeOK
<1> QED
  BY <1>1, FS_AddElement, CountsAreNaturals

(* A notification sent leaves the other producers theirs.                  *)
LEMMA NotifyingShrinks ==
    ASSUME TypeOK, NEW p \in Producers, producer[p] = "notify",
           producer' = [producer EXCEPT ![p] = "idle"]
    PROVE  Cardinality(Notifying') = Cardinality(Notifying) - 1
<1>1. Notifying' = Notifying \ {p} /\ p \in Notifying
  BY DEF Notifying, TypeOK
<1> QED
  BY <1>1, FS_RemoveElement, CountsAreNaturals

(* A notified consumer joins those that are awake.                         *)
LEMMA WokenGrows ==
    ASSUME TypeOK, NEW c \in Consumers, consumer[c] = "wait",
           consumer' = [consumer EXCEPT ![c] = "woken"]
    PROVE  Cardinality(Woken') = Cardinality(Woken) + 1
<1>1. Woken' = Woken \cup {c} /\ c \notin Woken
  BY DEF Woken, TypeOK
<1> QED
  BY <1>1, FS_AddElement, CountsAreNaturals

(* A woken consumer that goes on leaves the others awake.                  *)
LEMMA WokenShrinksByOne ==
    ASSUME TypeOK, NEW c \in Consumers,
           consumer' = [consumer EXCEPT ![c] = "pop"]
    PROVE  Cardinality(Woken') >= Cardinality(Woken) - 1
<1>1. Woken' = Woken \ {c}
  BY DEF Woken, TypeOK
<1>2. Cardinality(Woken \ {c}) =
          IF c \in Woken THEN Cardinality(Woken) - 1 ELSE Cardinality(Woken)
  BY FS_RemoveElement, CountsAreNaturals
<1> QED
  BY <1>1, <1>2, CountsAreNaturals

(* Although push and close notify outside the lock, no wakeup is lost: each*)
(* item has its notification or its woken consumer while a consumer sleeps.*)
THEOREM WakeupsNotLost == Spec => []NoLostWakeup
<1>1. Init => NoLostWakeup
  BY DEF Init, NoLostWakeup, Waiting
<1>2. TypeOK /\ NoLostWakeup /\ [Next]_vars => NoLostWakeup'
  <2> SUFFICES ASSUME TypeOK, NoLostWakeup, [Next]_vars,
                      Waiting' # {}
               PROVE  (Len(items) <= Cardinality(Notifying)
                                     + Cardinality(Woken))'
    BY DEF NoLostWakeup
  <2> USE CountsAreNaturals
  <2>a. Len(items) \in Nat
    BY DEF TypeOK
  <2>1. CASE \E p \in Producers : PushFits(p)
    <3> PICK p \in Producers : PushFits(p)
      BY <2>1
    <3>1. Len(items') = Len(items) + 1
      BY DequeSteps
    <3>2. Cardinality(Notifying') = Cardinality(Notifying) + 1
      BY NotifyingGrows DEF PushFits, CallsPush
    <3>3. Waiting' = Waiting /\ Woken' = Woken
      BY DEF PushFits, Waiting, Woken
    <3> QED
      BY <2>a, <3>1, <3>2, <3>3 DEF NoLostWakeup
  <2>2. CASE \E p \in Producers : PushDisplaces(p)
    <3> PICK p \in Producers : PushDisplaces(p)
      BY <2>2
    <3>1. Len(items') = Len(items)
      BY DequeSteps
    <3>2. Cardinality(Notifying') = Cardinality(Notifying) + 1
      BY NotifyingGrows DEF PushDisplaces, Displacing, CallsPush
    <3>3. Waiting' = Waiting /\ Woken' = Woken
      BY DEF PushDisplaces, Displacing, Waiting, Woken
    <3> QED
      BY <2>a, <3>1, <3>2, <3>3 DEF NoLostWakeup
  <2>3. CASE \E p \in Producers : NotifyOne(p)
    <3> PICK p \in Producers : NotifyOne(p)
      BY <2>3
    <3>1. Cardinality(Notifying') = Cardinality(Notifying) - 1
      BY NotifyingShrinks DEF NotifyOne
    <3>2. Waiting # {}
      BY DEF NotifyOne, Waiting, TypeOK
    <3>3. Cardinality(Woken') = Cardinality(Woken) + 1
      BY <3>2, WokenGrows DEF NotifyOne, Waiting
    <3>4. items' = items
      BY DEF NotifyOne
    <3> QED
      BY <2>a, <3>1, <3>2, <3>3, <3>4 DEF NoLostWakeup
  <2>4. CASE \E c \in Consumers : PopTakes(c)
    <3> PICK c \in Consumers : PopTakes(c)
      BY <2>4
    <3>1. Len(items') = Len(items) - 1
      BY DequeSteps
    <3>2. Cardinality(Woken') >= Cardinality(Woken) - 1
      BY WokenShrinksByOne DEF PopTakes
    <3>3. Notifying' = Notifying
      BY DEF PopTakes, Notifying
    <3>4. Waiting' = Waiting
      BY DEF PopTakes, HoldsPop, Waiting, TypeOK
    <3> QED
      BY <2>a, <3>1, <3>2, <3>3, <3>4 DEF NoLostWakeup
  <2>5. CASE \E c \in Consumers : PopWaits(c) \/ PopEnds(c)
    BY <2>5 DEF PopWaits, PopEnds
  <2>6. CASE \E c \in Consumers : SpuriousWake(c)
    <3> PICK c \in Consumers : SpuriousWake(c)
      BY <2>6
    <3>1. Cardinality(Woken') = Cardinality(Woken) + 1
      BY WokenGrows DEF SpuriousWake
    <3>2. Waiting # {} /\ Notifying' = Notifying /\ items' = items
      BY DEF SpuriousWake, Waiting, Notifying
    <3> QED
      BY <2>a, <3>1, <3>2 DEF NoLostWakeup
  <2>7. CASE \E t \in Closers : NotifyAll(t)
    BY <2>7 DEF NotifyAll, Waiting
  <2>8. CASE UNCHANGED <<items, producer, consumer>>
    BY <2>8 DEF NoLostWakeup, Waiting, Notifying, Woken
  <2> QED
    BY <2>1, <2>2, <2>3, <2>4, <2>5, <2>6, <2>7, <2>8, StepCases
    DEF PushRefused, Close, vars
<1> QED
  BY <1>1, <1>2, TypeCorrect, PTL DEF Spec

(* A consumer blocked on a closed queue always has a notify_all coming.    *)
THEOREM CloseReaches == Spec => []CloseReachesWaiters
<1>1. Init => CloseReachesWaiters
  BY DEF Init, CloseReachesWaiters
<1>2. TypeOK /\ CloseReachesWaiters /\ [Next]_vars => CloseReachesWaiters'
  <2> SUFFICES ASSUME TypeOK, CloseReachesWaiters, [Next]_vars
               PROVE  CloseReachesWaiters'
    OBVIOUS
  <2> USE DEF CloseReachesWaiters
  <2>1. CASE \E p \in Producers : NotifyOne(p)
    <3>1. Waiting' \subseteq Waiting
      BY <2>1 DEF NotifyOne, Waiting, TypeOK
    <3> QED
      BY <2>1, <3>1 DEF NotifyOne, Closing
  <2>2. CASE \E c \in Consumers : PopTakes(c) \/ PopEnds(c) \/ SpuriousWake(c)
    <3>1. Waiting' \subseteq Waiting
      BY <2>2 DEF PopTakes, PopEnds, SpuriousWake, Waiting, TypeOK
    <3> QED
      BY <2>2, <3>1 DEF PopTakes, PopEnds, SpuriousWake, Closing
  <2>3. CASE \E c \in Consumers : PopWaits(c)
    BY <2>3 DEF PopWaits
  <2>4. CASE \E t \in Closers : Close(t)
    BY <2>4 DEF Close, Closing, TypeOK
  <2>5. CASE \E t \in Closers : NotifyAll(t)
    BY <2>5 DEF NotifyAll, Waiting
  <2>6. CASE UNCHANGED <<closed, consumer, closer>>
    BY <2>6 DEF Waiting, Closing
  <2> QED
    BY <2>1, <2>2, <2>3, <2>4, <2>5, <2>6, StepCases
    DEF PushRefused, PushFits, PushDisplaces, Displacing, vars
<1> QED
  BY <1>1, <1>2, TypeCorrect, PTL DEF Spec

(* pop returns false only when nothing is left, and nothing comes after.   *)
THEOREM EndedMeansDrained == Spec => []DoneMeansDrained
<1>1. Init => DoneMeansDrained
  BY DEF Init, DoneMeansDrained
<1>2. TypeOK /\ DoneMeansDrained /\ [Next]_vars => DoneMeansDrained'
  <2> SUFFICES ASSUME TypeOK, DoneMeansDrained, [Next]_vars,
                      NEW d \in Consumers, consumer'[d] = "done"
               PROVE  (closed /\ items = <<>>)'
    BY DEF DoneMeansDrained
  <2> USE DEF DoneMeansDrained
  <2>1. CASE \E p \in Producers : PushFits(p) \/ PushDisplaces(p)
    BY <2>1 DEF PushFits, PushDisplaces, Displacing
  <2>2. CASE \E p \in Producers : NotifyOne(p)
    <3>1. consumer[d] = "done"
      BY <2>2 DEF NotifyOne, Waiting, TypeOK
    <3> QED
      BY <2>2, <3>1 DEF NotifyOne
  <2>3. CASE \E c \in Consumers : PopTakes(c)
    <3>1. consumer[d] = "done"
      BY <2>3 DEF PopTakes, TypeOK
    <3> QED
      BY <2>3, <3>1 DEF PopTakes
  <2>4. CASE \E c \in Consumers : PopWaits(c) \/ SpuriousWake(c)
    <3>1. consumer[d] = "done"
      BY <2>4 DEF PopWaits, SpuriousWake, TypeOK
    <3> QED
      BY <2>4, <3>1 DEF PopWaits, SpuriousWake
  <2>5. CASE \E c \in Consumers : PopEnds(c)
    BY <2>5 DEF PopEnds
  <2>6. CASE \E t \in Closers : Close(t)
    BY <2>6 DEF Close
  <2>7. CASE \E t \in Closers : NotifyAll(t)
    <3>1. consumer[d] = "done"
      BY <2>7 DEF NotifyAll, TypeOK
    <3> QED
      BY <2>7, <3>1 DEF NotifyAll
  <2>8. CASE UNCHANGED <<items, closed, consumer>>
    BY <2>8
  <2> QED
    BY <2>1, <2>2, <2>3, <2>4, <2>5, <2>6, <2>7, <2>8, StepCases
    DEF PushRefused, vars
<1> QED
  BY <1>1, <1>2, TypeCorrect, PTL DEF Spec
-----------------------------------------------------------------------------
(* The queue is the channel of LatestWindow: initial states are initial    *)
(* states there, and each step is a step of the channel or leaves it alone.*)
THEOREM QueueImplementsWindow == Spec => ImplementsWindow
<1>1. Init => Window!Init
  BY DEF Init, Window!Init
<1>2. TypeOK /\ HoldsNewest /\ [Next]_vars => [Window!Next]_(Window!wvars)
  <2> SUFFICES ASSUME TypeOK, HoldsNewest, [Next]_vars
               PROVE  [Window!Next]_(Window!wvars)
    OBVIOUS
  <2>a. Len(items) \in Nat /\ accepted \in Nat /\ Len(items) <= Capacity
    BY DEF TypeOK, HoldsNewest
  <2>b. Window!Held = Len(items)
    BY <2>a DEF Window!Held
  <2>1. CASE \E p \in Producers : PushFits(p)
    <3> PICK p \in Producers : PushFits(p)
      BY <2>1
    <3>1. Len(items') = Len(items) + 1
      BY DequeSteps
    <3>2. /\ ~closed /\ Len(items) < Capacity
          /\ accepted' = accepted + 1
          /\ UNCHANGED <<last, dropped, closed>>
      BY <2>a, CapacityAssumption DEF PushFits, Full
    <3>3. accepted' - Len(items') + 1 = accepted - Len(items) + 1
      BY <2>a, <3>1, <3>2
    <3>4. Window!Accept
      BY <2>b, <3>2, <3>3 DEF Window!Accept
    <3> QED
      BY <3>4 DEF Window!Next
  <2>2. CASE \E p \in Producers : PushDisplaces(p)
    <3> PICK p \in Producers : PushDisplaces(p)
      BY <2>2
    <3>1. Len(items') = Len(items)
      BY DequeSteps
    <3>2. /\ ~closed /\ Len(items) = Capacity
          /\ accepted' = accepted + 1
          /\ dropped' = dropped + 1
          /\ UNCHANGED <<last, closed>>
      BY <2>a, CapacityAssumption DEF PushDisplaces, Displacing, Full
    <3>3. accepted' - Len(items') + 1 = (accepted - Len(items) + 1) + 1
      BY <2>a, <3>1, <3>2
    <3>4. Window!Supersede
      BY <2>b, <3>2, <3>3 DEF Window!Supersede
    <3> QED
      BY <3>4 DEF Window!Next
  <2>3. CASE \E c \in Consumers : PopTakes(c)
    <3> PICK c \in Consumers : PopTakes(c)
      BY <2>3
    <3>1. Len(items) > 0 /\ Len(items') = Len(items) - 1 /\ last' = items[1]
      BY DequeSteps
    <3>2. UNCHANGED <<accepted, dropped, closed>>
      BY DEF PopTakes
    <3>3. last' = accepted - Len(items) + 1
      BY <2>a, <3>1 DEF HoldsNewest
    <3>4. accepted' - Len(items') + 1 = (accepted - Len(items) + 1) + 1
      BY <2>a, <3>1, <3>2
    <3>5. Window!Deliver
      BY <2>b, <3>1, <3>2, <3>3, <3>4 DEF Window!Deliver
    <3> QED
      BY <3>5 DEF Window!Next
  <2>4. CASE \E t \in Closers : Close(t)
    BY <2>4 DEF Close, Window!Next, Window!Shut
  <2>5. CASE UNCHANGED <<accepted, items, last, dropped, closed>>
    BY <2>5 DEF Window!wvars
  <2> QED
    BY <2>1, <2>2, <2>3, <2>4, <2>5, StepCases
    DEF PushRefused, NotifyOne, PopWaits, PopEnds, SpuriousWake, NotifyAll,
        vars
<1> QED
  BY <1>1, <1>2, TypeCorrect, DequeHoldsNewest, PTL
  DEF Spec, ImplementsWindow, Window!Spec

=============================================================================
