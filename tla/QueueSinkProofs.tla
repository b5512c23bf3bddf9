--------------------------- MODULE QueueSinkProofs --------------------------
(* Theorems about QueueSink, for every capacity and every bound.           *)
EXTENDS QueueSink, TLAPS

(* A step of the sink is a step of one of its threads, or a stutter.       *)
LEMMA SinkStepCases ==
    ASSUME [Next]_vars
    PROVE  \/ CallOnTick \/ OnTickPushes \/ OnTickNotifies
           \/ \E s \in FeedState : OnFeedState(s)
           \/ ConsumeTakes \/ ConsumeWaits \/ ConsumeSpuriouslyWakes
           \/ HandlerReturns \/ Start \/ Destroy
           \/ StopCloses \/ StopNotifies \/ StopJoins
           \/ UNCHANGED vars
BY DEF Next, Stop

(* What each of them is to the queue: a step of its own, or nothing.       *)
LEMMA QueueStepCases ==
    ASSUME [Next]_vars
    PROVE  \/ Queue!PushRefused("io")
           \/ Queue!PushFits("io")
           \/ Queue!PushDisplaces("io")
           \/ Queue!NotifyOne("io")
           \/ Queue!PopTakes("sink")
           \/ Queue!PopWaits("sink")
           \/ Queue!PopEnds("sink")
           \/ Queue!SpuriousWake("sink")
           \/ Queue!Close("owner")
           \/ Queue!NotifyAll("owner")
           \/ UNCHANGED queueVars
<1>1. CASE CallOnTick \/ HandlerReturns \/ Start \/ StopJoins
           \/ (\E s \in FeedState : OnFeedState(s))
  BY <1>1 DEF CallOnTick, HandlerReturns, Start, StopJoins, OnFeedState
<1>2. CASE OnTickPushes \/ OnTickNotifies
  BY <1>2 DEF OnTickPushes, OnTickNotifies, Queue!Push
<1>3. CASE ConsumeTakes \/ ConsumeWaits \/ ConsumeSpuriouslyWakes
  BY <1>3 DEF ConsumeTakes, ConsumeWaits, ConsumeSpuriouslyWakes
<1>4. CASE Destroy \/ StopCloses \/ StopNotifies
  BY <1>4 DEF Destroy, StopCloses, StopNotifies
<1>5. CASE UNCHANGED vars
  BY <1>5 DEF vars, queueVars
<1> QED
  BY <1>1, <1>2, <1>3, <1>4, <1>5, SinkStepCases
-----------------------------------------------------------------------------
(* Types. *)

(* The variables of the queue keep their types through every step of it.   *)
LEMMA QueueTypes ==
    ASSUME Queue!TypeOK, [Next]_vars
    PROVE  Queue!TypeOK'
<1> USE DEF Queue!TypeOK, Queue!ProducerStates, Queue!ConsumerStates,
            Queue!CloserStates
<1>1. CASE Queue!PushRefused("io")
  BY <1>1 DEF Queue!PushRefused
<1>2. CASE Queue!PushFits("io")
  BY <1>2 DEF Queue!PushFits
<1>3. CASE Queue!PushDisplaces("io")
  BY <1>3, SinkAssumption
  DEF Queue!PushDisplaces, Queue!Displacing, Queue!Full
<1>4. CASE Queue!NotifyOne("io")
  BY <1>4 DEF Queue!NotifyOne, Queue!Waiting
<1>5. CASE Queue!PopTakes("sink")
  BY <1>5 DEF Queue!PopTakes
<1>6. CASE Queue!PopWaits("sink") \/ Queue!PopEnds("sink")
           \/ Queue!SpuriousWake("sink")
  BY <1>6 DEF Queue!PopWaits, Queue!PopEnds, Queue!SpuriousWake
<1>7. CASE Queue!Close("owner")
  BY <1>7 DEF Queue!Close
<1>8. CASE Queue!NotifyAll("owner")
  BY <1>8 DEF Queue!NotifyAll
<1>9. CASE UNCHANGED queueVars
  BY <1>9 DEF queueVars
<1> QED
  BY <1>1, <1>2, <1>3, <1>4, <1>5, <1>6, <1>7, <1>8, <1>9, QueueStepCases

(* Every variable of the sink and of its queue keeps its type.             *)
THEOREM SinkTypes == Spec => []TypeOK
<1>1. Init => TypeOK
  <2> SUFFICES ASSUME Init PROVE TypeOK
    OBVIOUS
  <2>1. Queue!Init
    BY DEF Init
  <2>2. displaced \in [{"io"} -> BOOLEAN] /\ closed \in BOOLEAN
    BY <2>1, Zenon DEF Queue!Init
  <2>3. Queue!TypeOK
    BY <2>1, <2>2 DEF Queue!Init, Queue!TypeOK, Queue!ProducerStates,
                      Queue!ConsumerStates, Queue!CloserStates
  <2>4. handler \in BOOLEAN /\ dying \in BOOLEAN
    BY Zenon DEF Init
  <2>5. under \in Seq(FeedState)
    BY DEF Init
  <2> QED
    BY <2>3, <2>4, <2>5 DEF Init, TypeOK, FeedState, OwnerStates
<1>2. TypeOK /\ [Next]_vars => TypeOK'
  <2> SUFFICES ASSUME TypeOK, [Next]_vars PROVE TypeOK'
    OBVIOUS
  <2>a. Queue!TypeOK'
    BY QueueTypes DEF TypeOK
  <2> USE <2>a DEF TypeOK, FeedState, OwnerStates
  <2>1. CASE CallOnTick
    BY <2>1 DEF CallOnTick
  <2>2. CASE OnTickPushes
    BY <2>2 DEF OnTickPushes
  <2>3. CASE OnTickNotifies \/ ConsumeWaits \/ ConsumeSpuriouslyWakes
    BY <2>3 DEF OnTickNotifies, ConsumeWaits, ConsumeSpuriouslyWakes, sinkVars
  <2>4. CASE \E s \in FeedState : OnFeedState(s)
    BY <2>4 DEF OnFeedState
  <2>5. CASE ConsumeTakes
    <3>1. Head(items) \in Nat
      BY <2>5 DEF ConsumeTakes, Queue!PopTakes, Queue!TypeOK
    <3> QED
      BY <2>5, <3>1 DEF ConsumeTakes
  <2>6. CASE HandlerReturns
    BY <2>6 DEF HandlerReturns
  <2>7. CASE Start
    BY <2>7 DEF Start
  <2>8. CASE Destroy
    BY <2>8 DEF Destroy
  <2>9. CASE StopCloses \/ StopNotifies \/ StopJoins
    BY <2>9 DEF StopCloses, StopNotifies, StopJoins
  <2>10. CASE UNCHANGED vars
    BY <2>10 DEF vars
  <2> QED
    BY <2>1, <2>2, <2>3, <2>4, <2>5, <2>6, <2>7, <2>8, <2>9, <2>10,
       SinkStepCases
<1> QED
  BY <1>1, <1>2, PTL DEF Spec
-----------------------------------------------------------------------------
(* Where the ticks are. *)

(* A tick is a stamp from 1 up, so 0 is free to say "no tick", and one tick*)
(* is in the handler at a time.  This is inductive with the types.         *)
Accounted == TicksInOnePlace /\ \A i \in DOMAIN items : items[i] > 0

(* Every step of the three threads keeps it.                               *)
LEMMA AccountedStep ==
    ASSUME TypeOK, Accounted, [Next]_vars
    PROVE  Accounted'
<1> USE DEF Accounted, TicksInOnePlace, TypeOK, Queue!TypeOK
<1>1. CASE OnTickPushes
  <2>1. CASE Queue!PushRefused("io")
    BY <1>1, <2>1 DEF OnTickPushes, Queue!PushRefused
  <2>2. CASE Queue!PushFits("io")
    <3>1. /\ Len(items') = Len(items) + 1
          /\ \A i \in DOMAIN items' : items'[i] > 0
          /\ accepted' = accepted + 1
      BY <2>2 DEF Queue!PushFits
    <3>2. Len(under') = Len(under) + 1
      BY <1>1, <2>2 DEF OnTickPushes, Queue!PushFits
    <3>3. UNCHANGED <<handled, ignored, dropped, handling, last>>
      BY <1>1, <2>2 DEF OnTickPushes, Queue!PushFits
    <3>4. /\ Len(items) \in Nat /\ Len(under) \in Nat /\ accepted \in Nat
          /\ dropped \in Nat /\ handled \in Nat /\ ignored \in Nat
      OBVIOUS
    <3> HIDE DEF Accounted, TypeOK, Queue!TypeOK
    <3>5. TicksInOnePlace'
      BY <3>1, <3>2, <3>3, <3>4 DEF Accounted
    <3> QED
      BY <3>1, <3>5 DEF Accounted
  <2>3. CASE Queue!PushDisplaces("io")
    <3>1. items # <<>>
      BY <2>3, SinkAssumption
      DEF Queue!PushDisplaces, Queue!Displacing, Queue!Full
    <3>2. /\ Tail(items) \in Seq(Nat)
          /\ Len(Tail(items)) = Len(items) - 1
          /\ \A i \in DOMAIN Tail(items) : Tail(items)[i] > 0
      BY <3>1, SMTT(30)
    <3>3. accepted' = accepted + 1 /\ dropped' = dropped + 1
      BY <2>3 DEF Queue!PushDisplaces, Queue!Displacing
    <3>4. /\ Len(items') = Len(items)
          /\ \A i \in DOMAIN items' : items'[i] > 0
      BY <2>3, <3>2 DEF Queue!PushDisplaces, Queue!Displacing
    <3>5. Len(under') = Len(under) + 1
      BY <1>1, <2>3 DEF OnTickPushes, Queue!PushDisplaces, Queue!Displacing
    <3>6. UNCHANGED <<handled, ignored, handling, last>>
      BY <1>1, <2>3 DEF OnTickPushes, Queue!PushDisplaces, Queue!Displacing
    <3>7. /\ Len(items) \in Nat /\ Len(under) \in Nat /\ accepted \in Nat
          /\ dropped \in Nat /\ handled \in Nat /\ ignored \in Nat
      OBVIOUS
    <3> HIDE DEF Accounted, TypeOK, Queue!TypeOK
    <3>8. TicksInOnePlace'
      BY <3>3, <3>4, <3>5, <3>6, <3>7 DEF Accounted
    <3> QED
      BY <3>4, <3>8 DEF Accounted
  <2> QED
    BY <1>1, <2>1, <2>2, <2>3 DEF OnTickPushes, Queue!Push
<1>2. CASE ConsumeTakes
  <2>1. handling = 0 /\ UNCHANGED <<accepted, dropped, handled, under>>
    BY <1>2 DEF ConsumeTakes, AtPop, Queue!PopTakes
  <2>2. /\ Len(items') = Len(items) - 1
        /\ \A i \in DOMAIN items' : items'[i] > 0
        /\ last' \in Nat /\ last' # 0
    BY <1>2 DEF ConsumeTakes, Queue!PopTakes
  <2>3. \/ handling' = last' /\ ignored' = ignored
        \/ handling' = 0 /\ ignored' = ignored + 1
    BY <1>2 DEF ConsumeTakes, AtPop, Queue!PopTakes
  <2>4. /\ Len(items) \in Nat /\ accepted \in Nat /\ dropped \in Nat
        /\ handled \in Nat /\ ignored \in Nat
    OBVIOUS
  <2> HIDE DEF Accounted, TypeOK, Queue!TypeOK
  <2> QED
    BY <2>1, <2>2, <2>3, <2>4 DEF Accounted
<1>3. CASE HandlerReturns
  BY <1>3 DEF HandlerReturns, queueVars
<1>4. CASE UNCHANGED <<items, dropped, accepted, last, handling, under,
                       handled, ignored>>
  BY <1>4
<1>5. CASE OnTickNotifies \/ ConsumeWaits \/ ConsumeSpuriouslyWakes
  BY <1>4, <1>5
  DEF OnTickNotifies, ConsumeWaits, ConsumeSpuriouslyWakes, sinkVars,
      Queue!NotifyOne, Queue!PopWaits, Queue!PopEnds, Queue!SpuriousWake
<1>6. CASE Destroy \/ StopCloses \/ StopNotifies
  BY <1>4, <1>6
  DEF Destroy, StopCloses, StopNotifies, Queue!Close, Queue!NotifyAll
<1>7. CASE CallOnTick \/ Start \/ StopJoins \/ UNCHANGED vars
           \/ (\E s \in FeedState : OnFeedState(s))
  BY <1>4, <1>7 DEF CallOnTick, Start, StopJoins, OnFeedState, queueVars, vars
<1> QED
  BY <1>1, <1>2, <1>3, <1>5, <1>6, <1>7, SinkStepCases

(* So it holds of every reachable state.                                   *)
LEMMA AlwaysAccounted == Spec => []Accounted
<1>1. Init => Accounted
  BY DEF Init, Queue!Init, Accounted, TicksInOnePlace
<1>2. TypeOK /\ Accounted /\ [Next]_vars => Accounted'
  BY AccountedStep
<1> QED
  BY <1>1, <1>2, SinkTypes, PTL DEF Spec

(* No tick accepted is lost on its way from push to the handler, and none  *)
(* is handled twice, however the three threads interleave.                 *)
THEOREM TicksAccounted == Spec => []TicksInOnePlace
<1>1. Accounted => TicksInOnePlace
  BY DEF Accounted
<1> QED
  BY <1>1, AlwaysAccounted, PTL
-----------------------------------------------------------------------------
(* The end of the consumer thread. *)

(* consume ends on a closed and drained queue, outside the handler, and    *)
(* stop has joined no thread that had not ended.                           *)
EndedClean ==
    /\ consumer["sink"] = "done" => closed /\ items = <<>> /\ handling = 0
    /\ thread = "joined" => consumer["sink"] = "done"

(* Every step of the three threads keeps that too.                         *)
LEMMA EndedCleanStep ==
    ASSUME TypeOK, EndedClean, [Next]_vars
    PROVE  EndedClean'
<1> USE DEF EndedClean, TypeOK, Queue!TypeOK, Queue!ConsumerStates
<1>1. CASE OnTickPushes
  BY <1>1
  DEF OnTickPushes, Queue!Push, Queue!PushRefused, Queue!PushFits,
      Queue!PushDisplaces, Queue!Displacing
<1>2. CASE OnTickNotifies
  <2>1. consumer'["sink"] = "done" <=> consumer["sink"] = "done"
    BY <1>2 DEF OnTickNotifies, Queue!NotifyOne, Queue!Waiting
  <2> QED
    BY <1>2, <2>1 DEF OnTickNotifies, Queue!NotifyOne, sinkVars
<1>3. CASE ConsumeTakes
  BY <1>3 DEF ConsumeTakes, AtPop, Queue!PopTakes, Queue!HoldsPop
<1>4. CASE ConsumeWaits
  BY <1>4
  DEF ConsumeWaits, AtPop, Queue!PopWaits, Queue!PopEnds, Queue!HoldsPop,
      sinkVars
<1>5. CASE ConsumeSpuriouslyWakes
  BY <1>5 DEF ConsumeSpuriouslyWakes, Queue!SpuriousWake, sinkVars
<1>6. CASE HandlerReturns \/ CallOnTick \/ Start \/ UNCHANGED vars
           \/ (\E s \in FeedState : OnFeedState(s))
  BY <1>6 DEF HandlerReturns, CallOnTick, Start, OnFeedState, queueVars, vars
<1>7. CASE Destroy \/ StopCloses
  BY <1>7 DEF Destroy, StopCloses, Queue!Close
<1>8. CASE StopNotifies
  <2>1. consumer'["sink"] = "done" <=> consumer["sink"] = "done"
    BY <1>8 DEF StopNotifies, Queue!NotifyAll
  <2> QED
    BY <1>8, <2>1 DEF StopNotifies, Queue!NotifyAll
<1>9. CASE StopJoins
  BY <1>9 DEF StopJoins, queueVars
<1> QED
  BY <1>1, <1>2, <1>3, <1>4, <1>5, <1>6, <1>7, <1>8, <1>9, SinkStepCases

(* After stop nobody is in the handler or asleep in the queue, and no tick *)
(* is left to handle: what the handler captured may go.                    *)
THEOREM StoppedIsOver == Spec => []StopLeavesNothingRunning
<1>1. Init => EndedClean
  BY DEF Init, Queue!Init, EndedClean
<1>2. TypeOK /\ EndedClean /\ [Next]_vars => EndedClean'
  BY EndedCleanStep
<1>3. TypeOK /\ EndedClean /\ Accounted => StopLeavesNothingRunning
  BY DEF EndedClean, Accounted, TicksInOnePlace, StopLeavesNothingRunning,
         TypeOK, Queue!TypeOK
<1> QED
  BY <1>1, <1>2, <1>3, SinkTypes, AlwaysAccounted, PTL DEF Spec

=============================================================================
