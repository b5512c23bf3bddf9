---------------------------- MODULE LatestWindow ----------------------------
(***************************************************************************)
(* What the bounded handoff promises, with no threads in it: a channel of  *)
(* numbered items that holds the newest items not yet delivered, at most   *)
(* Capacity of them.  An item leaves in order, either delivered or, when   *)
(* one more would not fit, superseded and counted.  Once shut, the channel *)
(* accepts nothing and still delivers what it holds.                       *)
(***************************************************************************)
EXTENDS Integers

CONSTANT Capacity           \* the most items the channel may hold

VARIABLES
    accepted,               \* items accepted so far; item n is the nth
    next,                   \* the oldest item not yet delivered or superseded
    last,                   \* the item delivered last, 0 before the first
    lost,                   \* how many items were superseded
    shut                    \* TRUE once the channel refuses new items

wvars == <<accepted, next, last, lost, shut>>

Held == accepted - next + 1

Init ==
    /\ accepted = 0
    /\ next = 1
    /\ last = 0
    /\ lost = 0
    /\ shut = FALSE

(* A new item is taken into free space. *)
Accept ==
    /\ ~shut
    /\ Held < Capacity
    /\ accepted' = accepted + 1
    /\ UNCHANGED <<next, last, lost, shut>>

(* A new item supersedes the oldest one held: only when there is no room. *)
Supersede ==
    /\ ~shut
    /\ Held = Capacity
    /\ accepted' = accepted + 1
    /\ next' = next + 1
    /\ lost' = lost + 1
    /\ UNCHANGED <<last, shut>>

(* The oldest item held is delivered. *)
Deliver ==
    /\ Held > 0
    /\ last' = next
    /\ next' = next + 1
    /\ UNCHANGED <<accepted, lost, shut>>

Shut ==
    /\ shut' = TRUE
    /\ UNCHANGED <<accepted, next, last, lost>>

Next == Accept \/ Supersede \/ Deliver \/ Shut

Spec == Init /\ [][Next]_wvars

=============================================================================
