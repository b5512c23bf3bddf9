------------------------------ MODULE QueueSink -----------------------------
(***************************************************************************)
(* marketdata/QueueSink.hpp: the ITickSink that hands ticks to a consumer  *)
(* thread over a BlockingQueue, with the three threads that meet in it:    *)
(* the io thread (on_tick, on_feed_state), the consumer thread (consume,   *)
(* the handler) and the owner (start, stop, the destructor, as in main).   *)
(*                                                                         *)
(* The queue is an instance of BlockingQueue: one producer, one consumer,  *)
(* one closer.  Its steps are the steps here, under conditions of the sink.*)
(***************************************************************************)
EXTENDS Integers, Sequences, FiniteSets

CONSTANTS
    Capacity,       \* the constructor's capacity
    MaxPushes,      \* bound on the ticks of the feed
    MaxFlips        \* bound on the calls of on_feed_state

(* kQueueCapacity is 65536; a queue of no capacity breaks in its first push*)
ASSUME SinkAssumption == Capacity \in Nat \ {0} /\ MaxPushes \in Nat

FeedState == {"Live", "Stale"}

VARIABLES
    items, dropped, closed, producer, displaced, consumer, closer,
    accepted, refused, falses, popped, last,        \* m_queue
    thread,         \* m_consumer: "none", "running", "joined"
    handler,        \* m_on_tick is set
    handling,       \* the tick inside m_on_tick, 0 when there is none
    feedState,      \* m_feed_state
    call,           \* what the io thread is inside: "none", "on_tick"
    owner,          \* where the owner is: in stop, done with it, or neither
    dying,          \* TRUE once the destructor has begun
    \* History:
    flips,          \* how many feed states were published
    under,          \* under[s]: the feed state published last before tick s
    handled,        \* how many ticks the handler has returned from
    ignored         \* how many ticks were popped with no handler set

queueVars == <<items, dropped, closed, producer, displaced, consumer, closer,
               accepted, refused, falses, popped, last>>
sinkVars == <<thread, handler, handling, feedState, call, owner, dying, flips,
              under, handled, ignored>>
vars == <<items, dropped, closed, producer, displaced, consumer, closer,
          accepted, refused, falses, popped, last,
          thread, handler, handling, feedState, call, owner, dying, flips,
          under, handled, ignored>>

Queue == INSTANCE BlockingQueue WITH
    Producers <- {"io"},
    Consumers <- {"sink"},
    Closers <- {"owner"}

OwnerStates == {"free", "closing", "joining", "gone"}

(* Mutant of Init: the feed state is left without its initial value. *)
InitUnset ==
    /\ Queue!Init
    /\ thread = "none" /\ handler = FALSE /\ handling = 0
    /\ feedState = "unset"
    /\ call = "none" /\ owner = "free" /\ dying = FALSE
    /\ flips = 0 /\ under = <<>> /\ handled = 0 /\ ignored = 0

Init ==
    /\ Queue!Init
    /\ thread = "none"
    /\ handler = FALSE
    /\ handling = 0
    /\ feedState = "Stale"
    /\ call = "none"
    /\ owner = "free"
    /\ dying = FALSE
    /\ flips = 0
    /\ under = <<>>
    /\ handled = 0
    /\ ignored = 0
-----------------------------------------------------------------------------
(* The io thread.  It outlives no sink: it makes no call once the owner has*)
(* begun to destroy it.                                                    *)

(* The feed has a tick for the sink: on_tick is called. *)
CallOnTick ==
    /\ call = "none"
    /\ producer["io"] = "idle"
    /\ ~dying
    /\ accepted + refused < MaxPushes
    /\ call' = "on_tick"
    /\ UNCHANGED <<queueVars, thread, handler, handling, feedState, owner,
                   dying, flips, under, handled, ignored>>

(* Mutant of OnTickPushes: waits for room rather than lose a tick. *)
OnTickBlocks ==
    /\ call = "on_tick"
    /\ closed \/ ~Queue!Full
    /\ Queue!Push("io")
    /\ under' = IF closed THEN under ELSE Append(under, feedState)
    /\ call' = "none"
    /\ UNCHANGED <<thread, handler, handling, feedState, owner, dying, flips,
                   handled, ignored>>

(* on_tick pushes, and throws push's answer away. *)
OnTickPushes ==
    /\ call = "on_tick"
    /\ Queue!Push("io")
    /\ under' = IF closed THEN under ELSE Append(under, feedState)
    /\ call' = "none"
    /\ UNCHANGED <<thread, handler, handling, feedState, owner, dying, flips,
                   handled, ignored>>

(* The second half of push: the notification. *)
OnTickNotifies ==
    /\ Queue!NotifyOne("io")
    /\ UNCHANGED sinkVars

(* on_feed_state writes the atomic and nothing else: the queue and the     *)
(* handler learn nothing of it.                                            *)
OnFeedState(s) ==
    /\ call = "none"
    /\ producer["io"] = "idle"
    /\ ~dying
    /\ flips < MaxFlips
    /\ feedState' = s
    /\ flips' = flips + 1
    /\ UNCHANGED <<queueVars, thread, handler, handling, call, owner, dying,
                   under, handled, ignored>>
-----------------------------------------------------------------------------
(* The consumer thread. *)

(* Mutant of AtPop: the next tick is taken while the handler still runs. *)
AtPopAgain == thread = "running"

AtPop == thread = "running" /\ handling = 0

(* pop returned a tick: the handler is entered with it, if there is one. *)
ConsumeTakes ==
    /\ AtPop
    /\ Queue!PopTakes("sink")
    /\ IF handler
       THEN handling' = Head(items) /\ UNCHANGED ignored
       ELSE ignored' = ignored + 1 /\ UNCHANGED handling
    /\ UNCHANGED <<thread, handler, feedState, call, owner, dying, flips,
                   under, handled>>

(* pop blocks, wakes for no reason, or returns false and ends consume. *)
ConsumeWaits ==
    /\ AtPop
    /\ \/ Queue!PopWaits("sink")
       \/ Queue!PopEnds("sink")
    /\ UNCHANGED sinkVars

ConsumeSpuriouslyWakes ==
    /\ Queue!SpuriousWake("sink")
    /\ UNCHANGED sinkVars

HandlerReturns ==
    /\ handling # 0
    /\ handling' = 0
    /\ handled' = handled + 1
    /\ UNCHANGED <<queueVars, thread, handler, feedState, call, owner, dying,
                   flips, under, ignored>>
-----------------------------------------------------------------------------
(* The owner: start at most once and before the first stop, as main does;  *)
(* stop any number of times, the last time from the destructor.            *)

(* start: sets m_on_tick, which may be an empty function, and then makes   *)
(* the thread.                                                             *)
Start ==
    /\ owner = "free"
    /\ ~dying
    /\ thread = "none"
    /\ ~closed
    /\ handler' \in BOOLEAN
    /\ thread' = "running"
    /\ UNCHANGED <<queueVars, handling, feedState, call, owner, dying, flips,
                   under, handled, ignored>>

(* The destructor begins; no io call is under way.  Its body is stop. *)
Destroy ==
    /\ owner = "free"
    /\ ~dying
    /\ call = "none"
    /\ producer["io"] = "idle"
    /\ dying' = TRUE
    /\ Queue!Close("owner")
    /\ owner' = "closing"
    /\ UNCHANGED <<thread, handler, handling, feedState, call, flips, under,
                   handled, ignored>>

StopCloses ==
    /\ owner = "free"
    /\ ~dying
    /\ Queue!Close("owner")
    /\ owner' = "closing"
    /\ UNCHANGED <<thread, handler, handling, feedState, call, dying, flips,
                   under, handled, ignored>>

(* Mutant of StopNotifies: the blocked consumer is never told. *)
StopOnlyCloses ==
    /\ owner = "closing"
    /\ owner' = "joining"
    /\ UNCHANGED <<queueVars, thread, handler, handling, feedState, call,
                   dying, flips, under, handled, ignored>>

StopNotifies ==
    /\ owner = "closing"
    /\ Queue!NotifyAll("owner")
    /\ owner' = "joining"
    /\ UNCHANGED <<thread, handler, handling, feedState, call, dying, flips,
                   under, handled, ignored>>

(* Mutant of StopJoins: the thread is detached. *)
StopDetaches ==
    /\ owner = "joining"
    /\ thread' = IF thread = "running" THEN "joined" ELSE thread
    /\ owner' = IF dying THEN "gone" ELSE "free"
    /\ UNCHANGED <<queueVars, handler, handling, feedState, call, dying, flips,
                   under, handled, ignored>>

(* A joinable thread is joined: stop waits for the end of consume.  *)
StopJoins ==
    /\ owner = "joining"
    /\ thread = "running" => consumer["sink"] = "done"
    /\ thread' = IF thread = "running" THEN "joined" ELSE thread
    /\ owner' = IF dying THEN "gone" ELSE "free"
    /\ UNCHANGED <<queueVars, handler, handling, feedState, call, dying, flips,
                   under, handled, ignored>>

Stop == StopCloses \/ StopNotifies \/ StopJoins
-----------------------------------------------------------------------------
Next ==
    \/ CallOnTick
    \/ OnTickPushes
    \/ OnTickNotifies
    \/ \E s \in FeedState : OnFeedState(s)
    \/ ConsumeTakes
    \/ ConsumeWaits
    \/ ConsumeSpuriouslyWakes
    \/ HandlerReturns
    \/ Start
    \/ Destroy
    \/ Stop

Spec == Init /\ [][Next]_vars

(* A thread inside push, pop or stop runs on.  Nothing makes a feed tick,  *)
(* an owner act or a handler return.                                       *)
ThreadsRun ==
    /\ WF_vars(OnTickPushes)
    /\ WF_vars(OnTickNotifies)
    /\ WF_vars(ConsumeTakes \/ ConsumeWaits)
    /\ WF_vars(StopNotifies)
    /\ WF_vars(StopJoins)

FairSpec == Spec /\ ThreadsRun

(* The handler of main prints a line and returns. *)
QuickHandler == WF_vars(HandlerReturns)
-----------------------------------------------------------------------------
(* Type correctness of the sink's variables and the queue's. *)
TypeOK ==
    /\ Queue!TypeOK
    /\ thread \in {"none", "running", "joined"}
    /\ handler \in BOOLEAN
    /\ handling \in Nat
    /\ feedState \in FeedState
    /\ call \in {"none", "on_tick"}
    /\ owner \in OwnerStates
    /\ dying \in BOOLEAN
    /\ flips \in Nat
    /\ under \in Seq(FeedState)
    /\ handled \in Nat
    /\ ignored \in Nat

(* Once stop has returned the consumer thread is gone: nobody is inside    *)
(* the handler, nobody sleeps on the condition variable, and every tick    *)
(* accepted was handled, superseded, or popped with no handler to call.    *)
(* What the handler captured, and the queue, can be destroyed after it.    *)
StopLeavesNothingRunning ==
    thread = "joined" =>
        /\ consumer["sink"] = "done"
        /\ handling = 0
        /\ accepted = handled + ignored + dropped

(* While the sink lives, each tick accepted is in exactly one place: the   *)
(* queue, the handler, handled, superseded, or popped with no handler.     *)
TicksInOnePlace ==
    /\ accepted = Len(items) + handled + ignored + dropped
                  + (IF handling = 0 THEN 0 ELSE 1)
    /\ handling # 0 => handling = last
    /\ Len(under) = accepted

(* on_tick comes back to the read loop even when the handler never returns *)
(* and the queue is full: a slow consumer costs ticks, never the io thread.*)
IoNeverHeldUp ==
    (call = "on_tick") ~> (call = "none" /\ producer["io"] = "idle")

(* stop returns, if the handler does, whatever the io thread does meanwhile*)
(* and however the notification and the blocked pop interleave.            *)
StopReturns ==
    QuickHandler =>
        ((owner \in {"closing", "joining"}) ~> (owner \in {"free", "gone"}))

(* A tick accepted while the consumer thread runs is handled or superseded,*)
(* if the handler returns, also when the sink is stopped right after it.   *)
TicksReachHandler ==
    QuickHandler =>
        \A s \in 1..MaxPushes :
            (accepted >= s /\ thread = "running" /\ handler)
                ~> (dropped + handled >= s)

(* docs/marketdata-ingestion-plan.md, 5.4: the gateway "publishes ticks and*)
(* feed state on the same channel, and whoever holds the last price is the *)
(* one told it has gone stale".  On one channel a Stale comes after the    *)
(* Live ticks published before it: no handler would read feed_state() as   *)
(* Stale while it holds a tick that was published Live.                    *)
StateComesWithTick ==
    handling # 0 /\ under[handling] = "Live" => feedState = "Live"

=============================================================================
