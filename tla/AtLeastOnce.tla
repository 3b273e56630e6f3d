---------------------------- MODULE AtLeastOnce ----------------------------
(***************************************************************************)
(* What a paxos group of a store promises the consumer groups of its       *)
(* queues: at-least-once delivery of one sequence of items.  A group gets  *)
(* nothing that is not addressed to it, and an item only with or after     *)
(* all earlier items of the queue; what counts as acknowledged, and what   *)
(* is deleted for good, was delivered to those who are to have it.         *)
(* Acknowledgements may be forgotten: then items are delivered again.      *)
(***************************************************************************)
EXTENDS Integers, Sequences

CONSTANTS
    Queue, Group,
    Subs,        \* Subs[q]: the groups that are to get the items of queue q
    Batches      \* the sets of items that may be added at a time

VARIABLES
    batches,     \* what was added; an instance is an index of it, less one
    delivered,   \* delivered[g][q]: the instances given to group g
    acked,       \* acked[g][q]: the instances that count as acknowledged
    gone         \* the instances that were deleted

Init ==
    /\ batches = <<>>
    /\ delivered = [g \in Group |-> [q \in Queue |-> {}]]
    /\ acked = [g \in Group |-> [q \in Queue |-> {}]]
    /\ gone = {}

Instance == 0 .. Len(batches) - 1

\* Instance i has an item of queue q for group g.
For(i, q, g) == \E a \in batches[i + 1] : a.q = q /\ g \in a.to

\* Group g was given what instance i has for it in queue q.
Served(i, q, g) == i \in Instance /\ (For(i, q, g) => i \in delivered[g][q])

\* A batch is added; an empty one stands for an instance without items.
Add(b) ==
    /\ batches' = Append(batches, b)
    /\ UNCHANGED <<delivered, acked, gone>>

\* The handlers of group g run on the items of some instances, new or not,
\* without leaving out an earlier one.
Deliver(g, q, S) ==
    /\ \A i \in S : For(i, q, g)
    /\ \A i \in S : \A j \in 0 .. i : For(j, q, g) => j \in delivered[g][q] \cup S
    /\ delivered' = [delivered EXCEPT ![g][q] = @ \cup S]
    /\ UNCHANGED <<batches, acked, gone>>

\* Acknowledgements change: those that are there after it are all deserved.
Acknowledge ==
    /\ \A q \in Queue : \A g \in Subs[q] : \A i \in acked'[g][q] : Served(i, q, g)
    /\ UNCHANGED <<batches, delivered, gone>>

\* Instances are deleted that nobody waits for.
Forget ==
    /\ gone \subseteq gone'
    /\ \A i \in gone' : \A q \in Queue : \A g \in Subs[q] : Served(i, q, g)
    /\ UNCHANGED <<batches, delivered, acked>>

Next ==
    \/ \E b \in Batches \cup {{}} : Add(b)
    \/ \E q \in Queue : \E g \in Subs[q], S \in SUBSET Instance : Deliver(g, q, S)
    \/ Acknowledge
    \/ Forget

Spec == Init /\ [][Next]_<<batches, delivered, acked, gone>>
=============================================================================
