--------------------------- MODULE BlockingQueue ----------------------------
(***************************************************************************)
(* queue/BlockingQueue.hpp: a mutex, a condition variable and a deque.     *)
(*                                                                         *)
(* Every access to m_items, m_dropped and m_closed is made under m_mutex,  *)
(* so each critical section is one action.  What is not under the mutex is *)
(* the notification: push and close release the lock first and call        *)
(* notify_one or notify_all afterwards, which is a step of its own, and    *)
(* any other thread may run in between.                                    *)
(*                                                                         *)
(* An item is its stamp, the number of items accepted up to it: no code of *)
(* the queue looks at what an item holds.                                  *)
(***************************************************************************)
EXTENDS Integers, Sequences, FiniteSets

CONSTANTS
    Producers,      \* threads that call push
    Consumers,      \* threads that run  while (pop(out)) { }
    Closers,        \* threads that call close
    Capacity,       \* m_capacity
    MaxPushes       \* bound on the calls of push

(* A deque of no capacity would be popped while empty by the first push:   *)
(* undefined behaviour.  main builds the queue with kQueueCapacity = 65536.*)
ASSUME CapacityAssumption == Capacity \in Nat \ {0}
ASSUME BoundAssumption == MaxPushes \in Nat
ASSUME ThreadsAssumption ==
    /\ IsFiniteSet(Producers)
    /\ IsFiniteSet(Consumers)
    /\ IsFiniteSet(Closers)

VARIABLES
    items,          \* m_items, oldest first
    dropped,        \* m_dropped
    closed,         \* m_closed
    producer,       \* where each producer is
    displaced,      \* push's local  dropped  of each producer
    consumer,       \* where each consumer is
    closer,         \* where each closer is
    \* History, of which the code keeps none:
    accepted,       \* how many items were pushed into the deque
    refused,        \* how many calls of push met a closed queue
    falses,         \* how many calls of push returned false
    popped,         \* how many calls of pop returned true
    last            \* the stamp that pop handed out last

queueVars == <<items, dropped, closed>>
history == <<accepted, refused, falses, popped, last>>
vars == <<items, dropped, closed, producer, displaced, consumer, closer,
          accepted, refused, falses, popped, last>>

(* "notify": out of the critical section, notification still to be sent. *)
ProducerStates == {"idle", "notify"}
CloserStates == {"idle", "notify"}
(* "pop": about to take the mutex at the top of pop.  "wait": blocked in   *)
(* the condition variable.  "woken": out of the wait, about to retake the  *)
(* mutex and test the predicate again.  "done": pop returned false.        *)
ConsumerStates == {"pop", "wait", "woken", "done"}

Notifying == {p \in Producers : producer[p] = "notify"}
Closing == {t \in Closers : closer[t] = "notify"}
Waiting == {c \in Consumers : consumer[c] = "wait"}
Woken == {c \in Consumers : consumer[c] = "woken"}

Init ==
    /\ items = <<>>
    /\ dropped = 0
    /\ closed = FALSE
    /\ producer = [p \in Producers |-> "idle"]
    /\ displaced = [p \in Producers |-> FALSE]
    /\ consumer = [c \in Consumers |-> "pop"]
    /\ closer = [t \in Closers |-> "idle"]
    /\ accepted = 0
    /\ refused = 0
    /\ falses = 0
    /\ popped = 0
    /\ last = 0
-----------------------------------------------------------------------------
(* Producers. *)

CallsPush(p) ==
    /\ producer[p] = "idle"
    /\ accepted + refused < MaxPushes

(* Mutant of Full: the capacity check is off by one. *)
FullTooLate == Len(items) > Capacity

Full == Len(items) >= Capacity

(* push on a closed queue: the early return, nothing else happens. *)
PushRefused(p) ==
    /\ CallsPush(p)
    /\ closed
    /\ refused' = refused + 1
    /\ falses' = falses + 1
    /\ UNCHANGED <<items, dropped, closed, producer, displaced, consumer,
                   closer, accepted, popped, last>>

(* Mutant of PushFits: notifies only when the deque was empty. *)
PushFitsQuietly(p) ==
    /\ CallsPush(p)
    /\ ~closed
    /\ ~Full
    /\ items' = Append(items, accepted + 1)
    /\ accepted' = accepted + 1
    /\ producer' = IF items = <<>> THEN [producer EXCEPT ![p] = "notify"]
                   ELSE producer
    /\ UNCHANGED <<dropped, closed, displaced, consumer, closer,
                   refused, falses, popped, last>>

(* push into free space. *)
PushFits(p) ==
    /\ CallsPush(p)
    /\ ~closed
    /\ ~Full
    /\ items' = Append(items, accepted + 1)
    /\ accepted' = accepted + 1
    /\ producer' = [producer EXCEPT ![p] = "notify"]
    /\ UNCHANGED <<dropped, closed, displaced, consumer, closer,
                   refused, falses, popped, last>>

(* push into a full queue, which leaves deque and lost behind and answers  *)
(* at its end as tells has it.                                             *)
Displacing(p, deque, lost, tells) ==
    /\ CallsPush(p)
    /\ ~closed
    /\ Full
    /\ items' = deque
    /\ dropped' = lost
    /\ displaced' = [displaced EXCEPT ![p] = tells]
    /\ accepted' = accepted + 1
    /\ producer' = [producer EXCEPT ![p] = "notify"]
    /\ UNCHANGED <<closed, consumer, closer, refused, falses, popped, last>>

(* Mutants of PushDisplaces: the newest item goes; the loss is counted     *)
(* downwards, or not at all; or push answers as if it had lost nothing.    *)
DisplacesNewest(p) ==
    Displacing(p, [items EXCEPT ![Len(items)] = accepted + 1], dropped + 1, TRUE)
CountsDown(p) ==
    Displacing(p, Append(Tail(items), accepted + 1), dropped - 1, TRUE)
DisplacesUncounted(p) ==
    Displacing(p, Append(Tail(items), accepted + 1), dropped, TRUE)
DisplacesSilently(p) ==
    Displacing(p, Append(Tail(items), accepted + 1), dropped + 1, FALSE)

(* The oldest item goes, and is counted. *)
PushDisplaces(p) ==
    Displacing(p, Append(Tail(items), accepted + 1), dropped + 1, TRUE)

(* Mutant of NotifyOne: the notification is forgotten. *)
NotifyNobody(p) ==
    /\ producer[p] = "notify"
    /\ falses' = IF displaced[p] THEN falses + 1 ELSE falses
    /\ producer' = [producer EXCEPT ![p] = "idle"]
    /\ displaced' = [displaced EXCEPT ![p] = FALSE]
    /\ UNCHANGED <<items, dropped, closed, consumer, closer, accepted, refused,
                   popped, last>>

(* notify_one, after the lock is released, and the return of !dropped.  It *)
(* wakes one thread of those blocked now, or nobody.                       *)
NotifyOne(p) ==
    /\ producer[p] = "notify"
    /\ \/ Waiting = {} /\ UNCHANGED consumer
       \/ \E c \in Waiting : consumer' = [consumer EXCEPT ![c] = "woken"]
    /\ falses' = IF displaced[p] THEN falses + 1 ELSE falses
    /\ producer' = [producer EXCEPT ![p] = "idle"]
    /\ displaced' = [displaced EXCEPT ![p] = FALSE]
    /\ UNCHANGED <<items, dropped, closed, closer, accepted, refused, popped,
                   last>>
-----------------------------------------------------------------------------
(* Consumers. *)

HoldsPop(c) == consumer[c] \in {"pop", "woken"}

(* pop with an item there: the front is handed out.  The consumer calls    *)
(* pop again, as every consumer of the code does.                          *)
PopTakes(c) ==
    /\ HoldsPop(c)
    /\ items # <<>>
    /\ last' = Head(items)
    /\ items' = Tail(items)
    /\ popped' = popped + 1
    /\ consumer' = [consumer EXCEPT ![c] = "pop"]
    /\ UNCHANGED <<dropped, closed, producer, displaced, closer, accepted,
                   refused, falses>>

(* The predicate is false: the mutex is released and the thread blocked, in*)
(* one step.                                                               *)
PopWaits(c) ==
    /\ HoldsPop(c)
    /\ items = <<>>
    /\ ~closed
    /\ consumer' = [consumer EXCEPT ![c] = "wait"]
    /\ UNCHANGED <<items, dropped, closed, producer, displaced, closer,
                   accepted, refused, falses, popped, last>>

(* Mutant of PopEnds: closed is enough, whatever is still queued. *)
PopEndsUndrained(c) ==
    /\ HoldsPop(c)
    /\ closed
    /\ consumer' = [consumer EXCEPT ![c] = "done"]
    /\ UNCHANGED <<items, dropped, closed, producer, displaced, closer,
                   accepted, refused, falses, popped, last>>

(* Closed and drained: pop returns false and the consumer's loop ends. *)
PopEnds(c) ==
    /\ HoldsPop(c)
    /\ items = <<>>
    /\ closed
    /\ consumer' = [consumer EXCEPT ![c] = "done"]
    /\ UNCHANGED <<items, dropped, closed, producer, displaced, closer,
                   accepted, refused, falses, popped, last>>

(* A condition variable may wake a thread for no reason. *)
SpuriousWake(c) ==
    /\ consumer[c] = "wait"
    /\ consumer' = [consumer EXCEPT ![c] = "woken"]
    /\ UNCHANGED <<items, dropped, closed, producer, displaced, closer,
                   accepted, refused, falses, popped, last>>

Pop(c) == PopTakes(c) \/ PopWaits(c) \/ PopEnds(c)
-----------------------------------------------------------------------------
(* Closers.  close may be called again: stop does, from the destructor. *)

(* Mutant of Close: notifies only when there is something left to drain. *)
CloseQuietly(t) ==
    /\ closer[t] = "idle"
    /\ closed' = TRUE
    /\ closer' = IF items = <<>> THEN closer
                 ELSE [closer EXCEPT ![t] = "notify"]
    /\ UNCHANGED <<items, dropped, producer, displaced, consumer, accepted,
                   refused, falses, popped, last>>

Close(t) ==
    /\ closer[t] = "idle"
    /\ closed' = TRUE
    /\ closer' = [closer EXCEPT ![t] = "notify"]
    /\ UNCHANGED <<items, dropped, producer, displaced, consumer, accepted,
                   refused, falses, popped, last>>

(* Mutant of NotifyAll: notify_one instead. *)
NotifyAllWakesOne(t) ==
    /\ closer[t] = "notify"
    /\ \/ Waiting = {} /\ UNCHANGED consumer
       \/ \E c \in Waiting : consumer' = [consumer EXCEPT ![c] = "woken"]
    /\ closer' = [closer EXCEPT ![t] = "idle"]
    /\ UNCHANGED <<items, dropped, closed, producer, displaced, accepted,
                   refused, falses, popped, last>>

NotifyAll(t) ==
    /\ closer[t] = "notify"
    /\ consumer' = [c \in Consumers |->
                        IF consumer[c] = "wait" THEN "woken" ELSE consumer[c]]
    /\ closer' = [closer EXCEPT ![t] = "idle"]
    /\ UNCHANGED <<items, dropped, closed, producer, displaced, accepted,
                   refused, falses, popped, last>>
-----------------------------------------------------------------------------
Push(p) == PushRefused(p) \/ PushFits(p) \/ PushDisplaces(p)

Next ==
    \/ \E p \in Producers : Push(p) \/ NotifyOne(p)
    \/ \E c \in Consumers : Pop(c) \/ SpuriousWake(c)
    \/ \E t \in Closers : Close(t) \/ NotifyAll(t)

Spec == Init /\ [][Next]_vars

(* A thread inside push or close runs on, and a consumer that asks for the *)
(* mutex gets it.  Nobody has to push or to close, and no spurious wakeup  *)
(* need ever come.                                                         *)
Fairness ==
    /\ \A p \in Producers : WF_vars(NotifyOne(p))
    /\ \A c \in Consumers : WF_vars(Pop(c))
    /\ \A t \in Closers : WF_vars(NotifyAll(t))

FairSpec == Spec /\ Fairness
-----------------------------------------------------------------------------
(* Type correctness of every variable. *)
TypeOK ==
    /\ items \in Seq(Nat)
    /\ dropped \in Nat
    /\ closed \in BOOLEAN
    /\ producer \in [Producers -> ProducerStates]
    /\ displaced \in [Producers -> BOOLEAN]
    /\ consumer \in [Consumers -> ConsumerStates]
    /\ closer \in [Closers -> CloserStates]
    /\ accepted \in Nat
    /\ refused \in Nat
    /\ falses \in Nat
    /\ popped \in Nat
    /\ last \in Nat

(* The deque holds the newest items accepted, in the order of acceptance,  *)
(* none missing between them, never more than Capacity, and everything it  *)
(* holds is newer than anything handed out: push drops the oldest, and the *)
(* interleaving of producers and consumers reorders and repeats nothing.   *)
HoldsNewest ==
    /\ Len(items) <= Capacity
    /\ Len(items) <= accepted
    /\ \A i \in 1..Len(items) : items[i] = accepted - Len(items) + i
    /\ last <= accepted - Len(items)

(* Nothing is delivered twice or lost without being counted: an item is in *)
(* the deque, was handed out once, or is in m_dropped.                     *)
NothingUnaccounted == accepted = popped + dropped + Len(items)

(* No lost wakeup, although push notifies after it has let go of the lock: *)
(* while a consumer sleeps, each item in the deque has a notification on   *)
(* its way or a consumer already woken to take it.                         *)
NoLostWakeup ==
    Waiting # {} => Len(items) <= Cardinality(Notifying) + Cardinality(Woken)

(* No consumer sleeps through a close: while one is blocked on a closed    *)
(* queue the notify_all of some close is still to come.                    *)
CloseReachesWaiters == closed /\ Waiting # {} => Closing # {}

(* A consumer's loop ends only on a closed and drained queue, and nothing  *)
(* can be pushed behind its back afterwards, so no item is left over.      *)
DoneMeansDrained ==
    (\E c \in Consumers : consumer[c] = "done") => closed /\ items = <<>>

Losing == {p \in Producers : displaced[p]}

(* push's return value tells of each item lost: every displaced or refused *)
(* item was answered with one false, except for the pushes that have       *)
(* dropped an item and are still on their way to return.                   *)
ReturnsTellLoss ==
    /\ dropped + refused = falses + Cardinality(Losing)
    /\ \A p \in Producers : displaced[p] => producer[p] = "notify"

(* The threads, the mutex and the condition variable implement the channel *)
(* of LatestWindow.                                                        *)
Window == INSTANCE LatestWindow WITH
    next <- accepted - Len(items) + 1,
    lost <- dropped,
    shut <- closed

ImplementsWindow == Window!Spec

(* An item accepted does not stay in the deque for ever: it is handed out  *)
(* or superseded, with nobody closing the queue and nobody waking up by    *)
(* chance.                                                                 *)
EveryItemLeaves ==
    \A s \in 1..MaxPushes :
        (accepted >= s) ~> (accepted - Len(items) >= s)

(* close ends every consumer, after it has drained what was queued. *)
CloseEndsConsumers ==
    closed ~> (\A c \in Consumers : consumer[c] = "done")

=============================================================================
